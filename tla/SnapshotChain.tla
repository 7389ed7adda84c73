---------------------------- MODULE SnapshotChain ----------------------------
(***************************************************************************)
(* A sandboxed process with snapshots: at start-up File_InitSnapshots      *)
(* builds the chain File_Snapshot from Snapshots.ini (SnapshotChainInit),  *)
(* and later every File_ResolveTruePath, File_IsDeletedEx and               *)
(* File_FindSnapshotPath walks that chain (SnapshotResolve).  The walk     *)
(* sees the layers in the order the start-up read them, and the case of    *)
(* a box without snapshots (an empty Current entry) is the chain of        *)
(* length zero.                                                            *)
(***************************************************************************)
EXTENDS Naturals, Sequences

CONSTANTS
    Ids, NoId, MaxChain, IniChoices,        \* as in SnapshotChainInit
    Paths, NoReloc, TreeChoices, FilePaths  \* as in SnapshotResolve

VARIABLES
    ini, chain, snapshot, pc,               \* start-up (SnapshotChainInit)
    v2, active, snapTree, present,          \* the layers' contents
    truePath, hasCopy, stop,                \* the call
    result, found, call                     \* its outcome; call is its pc

Boot == INSTANCE SnapshotChainInit

Walk == INSTANCE SnapshotResolve WITH pc <- call

bootVars == <<ini, chain, snapshot, pc>>

walkVars == <<v2, active, snapTree, present, truePath, hasCopy, stop, result, found, call>>

vars == <<bootVars, walkVars>>

TypeOK == Boot!TypeOK /\ (call # "boot" => Walk!TypeOK)

\* The layers' contents and the call are chosen once the chain is known.
Init ==
    /\ Boot!Init
    /\ v2 = FALSE /\ active = Walk!EmptyTree /\ snapTree = <<>> /\ present = <<>>
    /\ truePath = (CHOOSE q \in Paths : TRUE) /\ hasCopy = FALSE /\ stop = 1
    /\ result = NoReloc /\ found = NoReloc
    /\ call = "boot"

\* File_InitSnapshots runs to its end before any file is opened.
StartUpStep ==
    /\ Boot!File_InitSnapshots \/ Boot!InitSnapshotsLoop
    /\ UNCHANGED walkVars

\* The first file access after start-up: any layer contents, any call.
FirstCall ==
    /\ pc = "done" /\ call = "boot"
    /\ Walk!Call
    /\ UNCHANGED bootVars

Access == call # "boot" /\ Walk!Next /\ UNCHANGED bootVars

Next == StartUpStep \/ FirstCall \/ Access

\* Start-up is sequential code of the process's first thread.
Spec == Init /\ [][Next]_vars /\ WF_vars(StartUpStep) /\ WF_vars(FirstCall)

(***************************************************************************)
(* File_InitSnapshots returns on every Snapshots.ini Sandboxie-Plus        *)
(* writes, so the process gets to its first file access.                   *)
(***************************************************************************)
InitTerminates == <>(call # "boot")

\* SnapshotChainInit!ChainMatchesIni: start-up lists the snapshots the file
\* names, with their ids as written.
ChainMatchesIni == Boot!ChainMatchesIni

(***************************************************************************)
(* Over the chain the start-up built, File_GetPathFlagsEx answers what     *)
(* the layered view of the active box and its snapshots gives.             *)
(***************************************************************************)
ResolveMatchesLayeredView == call # "boot" => Walk!ResolveMatchesLayeredView

=============================================================================
