-------------------------- MODULE SnapshotChainInit --------------------------
(***************************************************************************)
(* File_InitSnapshots (file_snapshots.c, lines 534-588): read the current  *)
(* snapshot id from Snapshots.ini, then follow the Parent entries, one     *)
(* FILE_SNAPSHOT allocated (with its scramble key and path tree) per id,   *)
(* until an empty Parent.  The configuration is the ini file's content:    *)
(* the current id and the Parent entry of each id.  An id is its text,     *)
(* abstracted to a name and a length: [name |-> n, len |-> k] stands for   *)
(* the first k characters of n, so an id cut short by a read is the        *)
(* shorter id with the same name.                                          *)
(***************************************************************************)
EXTENDS Naturals, Sequences, SequencesExt

CONSTANTS
    Ids,        \* snapshot ids that may appear in Snapshots.ini
    NoId,       \* model value: an empty (or missing) entry
    MaxChain,   \* bound on the snapshots allocated (names the cap of the model)
    IniChoices  \* the Snapshots.ini files a run starts from

\* Snapshots.ini files: [Current] Snapshot and [Snapshot_<id>] Parent for
\* every id.
IniFiles == [current : Ids \cup {NoId}, parent : [Ids -> Ids \cup {NoId}]]

\* WCHAR Snapshot[FILE_MAX_SNAPSHOT_ID] and FILE_SNAPSHOT.ID (line 26).
FILE_MAX_SNAPSHOT_ID == 17

\* GetPrivateProfileStringW into a buffer of n WCHARs: at most n - 1
\* characters of the entry, and the default "" for a missing one.
ReadEntry(id, n) ==
    IF id = NoId THEN NoId ELSE [id EXCEPT !.len = IF @ < n THEN @ ELSE n - 1]

\* The Parent entry of section Snapshot_<id>; no such section gives "".
ParentEntry(f, id) == IF id \in DOMAIN f.parent THEN f.parent[id] ELSE NoId

\* Every id start-up can hold: the ids of the file and what reads make of them.
IdValues == Ids \cup {ReadEntry(i, 16) : i \in Ids}

ASSUME NoId \notin Ids /\ MaxChain \in Nat \ {0} /\ IniChoices \subseteq IniFiles

VARIABLES
    ini,        \* the Snapshots.ini being read
    chain,      \* ids of the FILE_SNAPSHOT list built so far, newest first
    snapshot,   \* the local Snapshot buffer: the id last read
    pc          \* "start", "loop" or "done"

vars == <<ini, chain, snapshot, pc>>

TypeOK ==
    /\ ini \in IniFiles
    /\ chain \in Seq(IdValues)
    /\ Len(chain) <= MaxChain
    /\ snapshot \in IdValues \cup {NoId}
    /\ pc \in {"start", "loop", "done"}

Init ==
    /\ ini \in IniChoices
    /\ chain = <<>>
    /\ snapshot = NoId
    /\ pc = "start"

\* Mutant: the early return for an empty current id is missing.
File_InitSnapshots_NoEarlyReturn ==
    /\ pc = "start"
    /\ snapshot' = ReadEntry(ini.current, FILE_MAX_SNAPSHOT_ID)
    /\ pc' = IF ini.current = NoId THEN "done" ELSE "loop"
    /\ chain' = <<snapshot'>>
    /\ UNCHANGED ini

\* Lines 540-552: read the current id; without one snapshots are not used.
File_InitSnapshots ==
    /\ pc = "start"
    /\ snapshot' = ReadEntry(ini.current, FILE_MAX_SNAPSHOT_ID)
    /\ IF ini.current = NoId
       THEN pc' = "done" /\ UNCHANGED chain
       ELSE pc' = "loop" /\ chain' = <<snapshot'>>
    /\ UNCHANGED ini

\* Mutant: the Parent entry is read from the section of the first snapshot
\* every time instead of the one just read.
InitSnapshotsLoop_FirstSection ==
    /\ pc = "loop"
    /\ LET parent == ReadEntry(ParentEntry(ini, chain[1]), 16)
       IN  /\ snapshot' = parent
           /\ IF parent = NoId
              THEN pc' = "done" /\ UNCHANGED chain
              ELSE /\ pc' = "loop"
                   /\ chain' = IF Len(chain) < MaxChain THEN Append(chain, parent) ELSE chain
    /\ UNCHANGED ini

\* Mutant: the new element takes the id of the one before it.
InitSnapshotsLoop_StaleId ==
    /\ pc = "loop"
    /\ LET parent == ReadEntry(ParentEntry(ini, snapshot), 16)
       IN  /\ snapshot' = parent
           /\ IF parent = NoId
              THEN pc' = "done" /\ UNCHANGED chain
              ELSE /\ pc' = "loop"
                   /\ chain' = IF Len(chain) < MaxChain THEN Append(chain, snapshot) ELSE chain
    /\ UNCHANGED ini

(***************************************************************************)
(* Lines 554-587, one pass of for (;;): the Parent entry of section        *)
(* Snapshot_<id> for the id just read; an empty one ends the loop, any     *)
(* other allocates the parent and continues with it.  The entry is read   *)
(* into 16 WCHARs, one fewer than the current id had.  Nothing checks that *)
(* the id was seen before.  Past MaxChain allocations the model keeps      *)
(* looping without recording more of them.                                *)
(***************************************************************************)
InitSnapshotsLoop ==
    /\ pc = "loop"
    /\ LET parent == ReadEntry(ParentEntry(ini, snapshot), 16)
       IN  /\ snapshot' = parent
           /\ IF parent = NoId
              THEN pc' = "done" /\ UNCHANGED chain
              ELSE /\ pc' = "loop"
                   /\ chain' = IF Len(chain) < MaxChain THEN Append(chain, parent) ELSE chain
    /\ UNCHANGED ini

Next == File_InitSnapshots \/ InitSnapshotsLoop \/ (pc = "done" /\ UNCHANGED vars)

\* The loading thread runs File_InitSnapshots to its end unless it is stuck.
Spec == Init /\ [][Next]_vars /\ WF_vars(Next)

(***************************************************************************)
(* File_InitSnapshots returns: every sandboxed process reads the chain at  *)
(* start-up, so the loop over Parent entries must end for every            *)
(* Snapshots.ini it can meet.                                              *)
(***************************************************************************)
InitTerminates == <>(pc = "done")

\* The chain Snapshots.ini describes: Current, its Parent, and so on, as
\* written (MaxChain ids at most).
RECURSIVE IniChainFrom(_, _, _)
IniChainFrom(f, id, k) ==
    IF id = NoId \/ k = 0 THEN <<>>
    ELSE <<id>> \o IniChainFrom(f, ParentEntry(f, id), k - 1)

IniChain(f) == IniChainFrom(f, f.current, MaxChain)

(***************************************************************************)
(* When File_InitSnapshots returns, File_Snapshot lists the snapshots       *)
(* Snapshots.ini names, newest first and with the ids as written: each    *)
(* one's files are found under snapshot-<id> and its tree is loaded from  *)
(* there.                                                                  *)
(***************************************************************************)
ChainMatchesIni == pc = "done" => chain = IniChain(ini)

=============================================================================
