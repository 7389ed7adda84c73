--------------------------- MODULE SnapshotResolve ---------------------------
(***************************************************************************)
(* The snapshot walks of file_snapshots.c: File_GetPathFlagsEx (lines      *)
(* 261-404) with its callers File_ResolveTruePath and File_IsDeletedEx,    *)
(* and File_FindSnapshotPath (lines 221-253).  The layers are the active   *)
(* box, with its own path tree, and the snapshots of the chain built by    *)
(* File_InitSnapshots, newest first, each with a path tree and a           *)
(* directory holding copies of files.                                      *)
(*                                                                         *)
(* The copy path of a true path (File_GetName) is abstracted to the true   *)
(* path itself.  A returned relocation is a path and the snapshot whose    *)
(* directory it points into (File_MakeSnapshotPath), or NoSnap when it is *)
(* a true path.                                                            *)
(***************************************************************************)
EXTENDS PathTree, Naturals, FiniteSets

CONSTANTS
    TreeChoices,    \* path trees a layer may hold
    FilePaths       \* paths whose copies a snapshot directory may hold

ASSUME TreeChoices \subseteq Tree /\ FilePaths \subseteq Paths

VARIABLES
    chain,          \* File_Snapshot, newest first: the ids File_InitSnapshots read
    v2,             \* File_Delete_v2: path trees are in use
    active,         \* File_PathRoot, the active box's tree
    snapTree,       \* snapTree[s]: Cur_Snapshot->PathRoot
    present,        \* present[s]: paths whose copy exists in snapshot s
    truePath,       \* the call's TruePath
    hasCopy,        \* the call passes a CopyPath
    stop,           \* index of lastSnapshot in chain; Len(chain) + 1 for NULL
    result,         \* what File_GetPathFlagsEx returned: Flags and Relocation
    found,          \* what File_FindSnapshotPath returned
    pc              \* "call", "flags" or "found"

SnapIds == {chain[i] : i \in 1..Len(chain)}

\* The empty id: the path is in the active box, no snapshot.
NoSnap == [name |-> "", len |-> 0]

Result == [deleted : BOOLEAN, insnap : BOOLEAN,
           reloc : Paths \cup {NoReloc}, snap : SnapIds \cup {NoSnap}]

vars == <<chain, v2, active, snapTree, present, truePath, hasCopy, stop, result, found, pc>>

TypeOK ==
    /\ result \in Result \cup {NoReloc}
    /\ result # NoReloc => (result.insnap <=> result.snap # NoSnap)
    /\ found \in [snap : SnapIds, path : Paths] \cup {NoReloc}
    /\ pc \in {"call", "flags", "found"}

\* A call arrives: any contents of the layers of the chain the start-up
\* built (chain is set by SnapshotChain) and any arguments.
Call ==
    /\ v2' \in BOOLEAN
    /\ active' \in TreeChoices
    /\ snapTree' \in [SnapIds -> TreeChoices]
    /\ present' \in [SnapIds -> SUBSET FilePaths]
    /\ truePath' \in Paths
    /\ hasCopy' \in BOOLEAN
    /\ stop' \in 1..Len(chain) + 1
    /\ result' = NoReloc
    /\ found' = NoReloc
    /\ pc' = "call"
    /\ UNCHANGED chain

\* File_GetPathFlags_internal of one layer, as the flags the walk keeps.
LayerFlags(tree, q, reloc) ==
    [deleted |-> Deleted(tree, q), insnap |-> FALSE, snap |-> NoSnap,
     reloc   |-> IF RelocatedPath(tree, q) # NoReloc THEN RelocatedPath(tree, q) ELSE reloc]

\* Mutant: the snapshot's tree is consulted before its copy is probed.
RECURSIVE WalkSnapshots_TreeFirst(_, _, _, _)
WalkSnapshots_TreeFirst(i, tp, tmpl, res) ==
    IF i >= stop THEN res
    ELSE LET tp1  == IF tmpl # NoReloc THEN tmpl ELSE tp
             s    == chain[i]
             res1 == IF v2 THEN LayerFlags(snapTree[s], tp1, res.reloc) ELSE res
         IN  IF res1.deleted THEN res1
             ELSE IF hasCopy /\ tp1 \in present[s]
             THEN [res1 EXCEPT !.insnap = TRUE, !.reloc = tp1, !.snap = s]
             ELSE WalkSnapshots_TreeFirst(i + 1, tp1,
                      IF v2 THEN RelocatedPath(snapTree[s], tp1) ELSE tmpl, res1)

\* Mutant: a hit returns the copy path itself, not the path rewritten into
\* the snapshot's directory.
RECURSIVE WalkSnapshots_NoRewrite(_, _, _, _)
WalkSnapshots_NoRewrite(i, tp, tmpl, res) ==
    IF i >= stop THEN res
    ELSE LET tp1 == IF tmpl # NoReloc THEN tmpl ELSE tp
             s   == chain[i]
         IN  IF hasCopy /\ tp1 \in present[s]
             THEN [res EXCEPT !.insnap = TRUE, !.reloc = tp1]
             ELSE IF ~v2 THEN WalkSnapshots_NoRewrite(i + 1, tp1, tmpl, res)
             ELSE LET res1 == LayerFlags(snapTree[s], tp1, res.reloc)
                  IN  IF res1.deleted THEN res1
                      ELSE WalkSnapshots_NoRewrite(i + 1, tp1, RelocatedPath(snapTree[s], tp1), res1)

(***************************************************************************)
(* The for loop of lines 325-383, one snapshot per call: follow the        *)
(* relocation found in the newer layer, then take the snapshot's copy if   *)
(* it exists (goto complete), else consult its tree and stop if deleted.   *)
(* tmpl is TmplRelocation, res the Flags and Relocation so far.            *)
(***************************************************************************)
RECURSIVE WalkSnapshots(_, _, _, _)
WalkSnapshots(i, tp, tmpl, res) ==
    IF i >= stop THEN res
    ELSE LET tp1 == IF tmpl # NoReloc THEN tmpl ELSE tp
             s   == chain[i]
         IN  IF hasCopy /\ tp1 \in present[s]
             THEN [res EXCEPT !.insnap = TRUE, !.reloc = tp1, !.snap = s]
             ELSE IF ~v2 THEN WalkSnapshots(i + 1, tp1, tmpl, res)
             ELSE LET res1 == LayerFlags(snapTree[s], tp1, res.reloc)
                  IN  IF res1.deleted THEN res1
                      ELSE WalkSnapshots(i + 1, tp1, RelocatedPath(snapTree[s], tp1), res1)

(***************************************************************************)
(* File_GetPathFlagsEx: the active layer first; stop there when it         *)
(* deletes the path or there are no snapshots, else walk the chain.        *)
(***************************************************************************)
File_GetPathFlagsEx(tp) ==
    LET act == IF v2 THEN LayerFlags(active, tp, NoReloc)
               ELSE [deleted |-> FALSE, insnap |-> FALSE, reloc |-> NoReloc, snap |-> NoSnap]
    IN  IF Len(chain) = 0 \/ act.deleted THEN act
        ELSE WalkSnapshots(1, tp, act.reloc, act)

\* File_ResolveTruePath and File_IsDeletedEx: one call, from any state of the
\* layers.
ResolvePathFlags ==
    /\ pc = "call"
    /\ result' = File_GetPathFlagsEx(truePath)
    /\ pc' = "flags"
    /\ UNCHANGED <<chain, v2, active, snapTree, present, truePath, hasCopy, stop, found>>

\* File_FindSnapshotPath: nothing when the copy is in the active box, else the
\* copy in the newest snapshot that has one.  Whether the active box holds
\* the copy is the call's input.
RECURSIVE FindInSnapshots(_, _)
FindInSnapshots(i, cp) ==
    IF i > Len(chain) THEN NoReloc
    ELSE IF cp \in present[chain[i]] THEN [snap |-> chain[i], path |-> cp]
    ELSE FindInSnapshots(i + 1, cp)

File_FindSnapshotPath ==
    /\ pc = "call"
    /\ \E activeHas \in BOOLEAN :
         found' = IF activeHas THEN NoReloc ELSE FindInSnapshots(1, truePath)
    /\ pc' = "found"
    /\ UNCHANGED <<chain, v2, active, snapTree, present, truePath, hasCopy, stop, result>>

Next ==
    \/ ResolvePathFlags
    \/ File_FindSnapshotPath
    \/ pc # "call" /\ UNCHANGED vars

-----------------------------------------------------------------------------
(***************************************************************************)
(* Reference: the layered view of the specification (section 4.3).  Layer *)
(* 0 is the active box, layer k the k-th snapshot; only the layers before  *)
(* lastSnapshot count.  A relocation recorded in a layer renames the path  *)
(* for every older layer.  The newest layer that has the copy or deletes   *)
(* the path decides; the relocation returned is the newest recorded one    *)
(* up to that layer, or the snapshot copy.                                 *)
(***************************************************************************)
LayerTree(k) == IF k = 0 THEN active ELSE snapTree[chain[k]]

Top == stop - 1

PathAt[k \in 0..Top] ==
    IF k = 0 THEN truePath
    ELSE LET r == RelocatedPath(LayerTree(k - 1), PathAt[k - 1])
         IN  IF v2 /\ r # NoReloc THEN r ELSE PathAt[k - 1]

HasCopy(k) == k > 0 /\ hasCopy /\ PathAt[k] \in present[chain[k]]

DeletedAt(k) == v2 /\ Deleted(LayerTree(k), PathAt[k])

RelocAt(k) == IF v2 THEN RelocatedPath(LayerTree(k), PathAt[k]) ELSE NoReloc

LastReloc(m) ==
    LET js == {j \in 0..m : RelocAt(j) # NoReloc}
    IN  IF js = {} THEN NoReloc ELSE RelocAt(CHOOSE j \in js : \A i \in js : i <= j)

RefResolve ==
    LET D == {k \in 0..Top : HasCopy(k) \/ DeletedAt(k)}
    IN  IF D = {} THEN [deleted |-> FALSE, insnap |-> FALSE, reloc |-> LastReloc(Top), snap |-> NoSnap]
        ELSE LET k == CHOOSE k \in D : \A j \in D : k <= j
             IN  IF HasCopy(k)
                 THEN [deleted |-> FALSE, insnap |-> TRUE, reloc |-> PathAt[k], snap |-> chain[k]]
                 ELSE [deleted |-> TRUE, insnap |-> FALSE, reloc |-> LastReloc(k), snap |-> NoSnap]

(***************************************************************************)
(* File_GetPathFlagsEx returns what the layered view gives: deleted when   *)
(* the newest deciding layer deletes the path (a deletion masks every      *)
(* older layer), in-snapshot with the snapshot's copy when that layer has  *)
(* it, with relocations followed before older layers are consulted and    *)
(* the walk stopping at lastSnapshot.                                      *)
(***************************************************************************)
ResolveMatchesLayeredView == pc = "flags" => result = RefResolve

=============================================================================
