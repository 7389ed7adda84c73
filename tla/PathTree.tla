------------------------------ MODULE PathTree ------------------------------
(***************************************************************************)
(* The path overlay tree of the delete-v2 engine: the in-memory list of    *)
(* path nodes carrying the Deleted and Relocation flags, and its line      *)
(* format on disk.  The tree operations (File_GetPathFlags_internal,       *)
(* File_MarkDeleted_internal, File_SetRelocation_internal,                 *)
(* File_LoadPathTree_internal, File_SavePathTree_internal) live in         *)
(* file_del.c, which is not part of the sources at hand; they are          *)
(* modelled from the specification (section 4.2) and key_del.c calls them *)
(* for the registry tree.                                                  *)
(*                                                                         *)
(* A path is a sequence of segments; an ancestor is a prefix.  A tree is   *)
(* abstracted to the flags of its flagged nodes: the set of nodes marked   *)
(* Deleted and the relocation target of each node (NoReloc when none).     *)
(* Intermediate unflagged nodes carry no information and are left out.     *)
(***************************************************************************)
EXTENDS SequencesExt

CONSTANTS
    Paths,      \* the paths a sandboxed program may touch (sequences of segments)
    NoReloc     \* model value: "no relocation recorded at this node"

ASSUME NoReloc \notin Paths

Tree == [del : SUBSET Paths, reloc : [Paths -> Paths \cup {NoReloc}]]

\* One line of RegPaths.dat: <flags>|<path>[|<relocation>].
Line == [path : Paths, del : BOOLEAN, reloc : Paths \cup {NoReloc}]

EmptyTree == [del |-> {}, reloc |-> [q \in Paths |-> NoReloc]]

Flagged(tree) == {q \in Paths : q \in tree.del \/ tree.reloc[q] # NoReloc}

(***************************************************************************)
(* File_GetPathFlags_internal: a path is deleted when it or an ancestor is *)
(* marked Deleted; its relocation is the one recorded at the deepest       *)
(* relocated ancestor-or-self (the rest of the path is appended to it).    *)
(***************************************************************************)
Deleted(tree, q) == \E d \in tree.del : IsPrefix(d, q)

RelocOf(tree, q) ==
    LET rel == {a \in Paths : IsPrefix(a, q) /\ tree.reloc[a] # NoReloc}
    IN  IF rel = {} THEN NoReloc
        ELSE LET a == CHOOSE a \in rel : \A b \in rel : Len(b) <= Len(a)
             IN  <<a, tree.reloc[a]>>

\* The relocated path File_GetPathFlags_internal returns: the target of the
\* deepest relocated ancestor-or-self followed by the rest of the path.
RelocatedPath(tree, q) ==
    IF RelocOf(tree, q) = NoReloc THEN NoReloc
    ELSE LET a == RelocOf(tree, q)[1]
         IN  RelocOf(tree, q)[2] \o SubSeq(q, Len(a) + 1, Len(q))

\* What a lookup of every path returns: the observable content of a tree.
View(tree) == [q \in Paths |-> [del |-> Deleted(tree, q), reloc |-> RelocOf(tree, q)]]

(***************************************************************************)
(* File_LoadPathTree_internal: the tree is cleared and every line of the   *)
(* file sets the flags of its node.  A missing file loads an empty tree.   *)
(***************************************************************************)
LoadTree(lines) ==
    [del   |-> {l.path : l \in {l \in lines : l.del}},
     reloc |-> [q \in Paths |->
                  IF \E l \in lines : l.path = q /\ l.reloc # NoReloc
                  THEN (CHOOSE l \in lines : l.path = q /\ l.reloc # NoReloc).reloc
                  ELSE NoReloc]]

(***************************************************************************)
(* File_SavePathTree_internal: one line per flagged node.                  *)
(***************************************************************************)
SaveLines(tree) ==
    {[path |-> q, del |-> q \in tree.del, reloc |-> tree.reloc[q]] : q \in Flagged(tree)}

\* File_AppendPathEntry_internal with KEY_DELETED_FLAG and no relocation.
DeleteLine(q) == [path |-> q, del |-> TRUE, reloc |-> NoReloc]

(***************************************************************************)
(* File_MarkDeleted_internal: find or create the node of q; unless it is   *)
(* already Deleted, set the flag and clear its branch.  Returns the new    *)
(* tree, whether the flag was newly set and whether a non-empty branch was *)
(* truncated (which forces the caller to rewrite the whole file).          *)
(***************************************************************************)
MarkDeletedInternal(tree, q) ==
    LET set   == q \notin tree.del
        below == {d \in Paths : IsStrictPrefix(q, d)}
    IN  [tree      |-> IF set
                       THEN [del   |-> (tree.del \ below) \cup {q},
                             reloc |-> [d \in Paths |->
                                          IF d \in below THEN NoReloc ELSE tree.reloc[d]]]
                       ELSE tree,
         set       |-> set,
         truncated |-> set /\ Flagged(tree) \cap below # {}]

(***************************************************************************)
(* File_SetRelocation_internal: record the target at the node of old.      *)
(***************************************************************************)
SetRelocationInternal(tree, old, new) ==
    [tree EXCEPT !.reloc[old] = new]

=============================================================================
