---------------------------- MODULE PathOverlay ----------------------------
(***************************************************************************)
(* The specification's PathOverlayTree as the processes of a box see it:  *)
(* each process owns one tree, and it changes only by the process's own   *)
(* markDeleted and setRelocation, each applied atomically under the       *)
(* tree's lock.  Persistence is not visible here: "the in-memory tree     *)
(* remains authoritative for the current process lifetime", whether or    *)
(* not save/appendEntry succeeded.  One process of KeyDelete is checked  *)
(* against it (MCKeyDeleteBoth), its tree as the refinement mapping.     *)
(***************************************************************************)
EXTENDS PathTree

CONSTANTS Procs

VARIABLE tree

Init == tree = [p \in Procs |-> EmptyTree]

MarkDeleted(p, q) == tree' = [tree EXCEPT ![p] = MarkDeletedInternal(@, q).tree]

SetRelocation(p, old, new) == tree' = [tree EXCEPT ![p] = SetRelocationInternal(@, old, new)]

Next ==
    \E p \in Procs :
        \/ \E q \in Paths : MarkDeleted(p, q)
        \/ \E old, new \in Paths : old # new /\ SetRelocation(p, old, new)

Spec == Init /\ [][Next]_tree

=============================================================================
