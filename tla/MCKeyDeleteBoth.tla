--------------------------- MODULE MCKeyDeleteBoth ---------------------------
(***************************************************************************)
(* The delete-v2 engine checked in one run under two configurations: one  *)
(* process with two threads over three paths (One), and two processes of  *)
(* the box with one thread each over two paths (Two).  The variable check *)
(* says which a behaviour runs; the other half stays in its initial     *)
(* state.                                                                 *)
(***************************************************************************)
EXTENDS Naturals

CONSTANTS NoReloc, NoThread, MaxOps

VARIABLES
    file1, fileSig1, mutex1, tree1, pathsFileSig1, version1, changeBit1, ready1,
    pc1, ret1, arg1, argNew1, sigSeen1, verTmp1, truncated1, opsLeft1, unsaved1,
    file2, fileSig2, mutex2, tree2, pathsFileSig2, version2, changeBit2, ready2,
    pc2, ret2, arg2, argNew2, sigSeen2, verTmp2, truncated2, opsLeft2, unsaved2,
    check       \* "one" or "two"

\* One process with two threads; the first runs Key_InitDelete_v2.
OneProc == {"p1"}
OneProcThreads == {"t1", "t2"}
OneProcThreadProc == [t \in OneProcThreads |-> "p1"]
OneProcMain == [p \in OneProc |-> "t1"]

\* Two processes of the same box with one thread each.
TwoProcs == {"p1", "p2"}
TwoProcThreads == {"t1", "t2"}
TwoProcThreadProc == [t \in TwoProcThreads |-> IF t = "t1" THEN "p1" ELSE "p2"]
TwoProcMain == [p \in TwoProcs |-> IF p = "p1" THEN "t1" ELSE "t2"]

\* A key and two subkeys; a key and one subkey for two processes.
PathsOne == {<<"K">>, <<"K", "A">>, <<"K", "B">>}
PathsTwo == {<<"K">>, <<"K", "A">>}

One == INSTANCE KeyDelete
    WITH Paths <- PathsOne, Procs <- OneProc, Threads <- OneProcThreads,
         ThreadProc <- OneProcThreadProc, MainThread <- OneProcMain,
         file <- file1, fileSig <- fileSig1, mutex <- mutex1, tree <- tree1,
         pathsFileSig <- pathsFileSig1, version <- version1, changeBit <- changeBit1,
         ready <- ready1, pc <- pc1, ret <- ret1, arg <- arg1, argNew <- argNew1,
         sigSeen <- sigSeen1, verTmp <- verTmp1, truncated <- truncated1,
         opsLeft <- opsLeft1, unsaved <- unsaved1

Two == INSTANCE KeyDelete
    WITH Paths <- PathsTwo, Procs <- TwoProcs, Threads <- TwoProcThreads,
         ThreadProc <- TwoProcThreadProc, MainThread <- TwoProcMain,
         file <- file2, fileSig <- fileSig2, mutex <- mutex2, tree <- tree2,
         pathsFileSig <- pathsFileSig2, version <- version2, changeBit <- changeBit2,
         ready <- ready2, pc <- pc2, ret <- ret2, arg <- arg2, argNew <- argNew2,
         sigSeen <- sigSeen2, verTmp <- verTmp2, truncated <- truncated2,
         opsLeft <- opsLeft2, unsaved <- unsaved2

vars1 == <<file1, fileSig1, mutex1, tree1, pathsFileSig1, version1, changeBit1, ready1,
           pc1, ret1, arg1, argNew1, sigSeen1, verTmp1, truncated1, opsLeft1, unsaved1>>

vars2 == <<file2, fileSig2, mutex2, tree2, pathsFileSig2, version2, changeBit2, ready2,
           pc2, ret2, arg2, argNew2, sigSeen2, verTmp2, truncated2, opsLeft2, unsaved2>>

vars == <<vars1, vars2, check>>

Init ==
    /\ check \in {"one", "two"}
    /\ One!Init
    /\ Two!Init

Step1(t) == check = "one" /\ One!Step(t) /\ UNCHANGED <<vars2, check>>
Step2(t) == check = "two" /\ Two!Step(t) /\ UNCHANGED <<vars1, check>>

Next ==
    \/ \E t \in OneProcThreads : Step1(t)
    \/ \E t \in TwoProcThreads : Step2(t)
    \/ check = "one" /\ One!Finished /\ UNCHANGED vars
    \/ check = "two" /\ Two!Finished /\ UNCHANGED vars

\* Every thread of the running half that can run eventually does.
Spec ==
    /\ Init /\ [][Next]_vars
    /\ \A t \in OneProcThreads : WF_vars(Step1(t))
    /\ \A t \in TwoProcThreads : WF_vars(Step2(t))

\* KeyDelete!PersistedViewMatchesMemory for one process: whenever no call
\* is half done and no write failed, the tree in memory is what
\* RegPaths.dat gives a freshly started process.
PersistedViewMatchesMemory == check = "one" => One!PersistedViewMatchesMemory

\* KeyDelete!DeletionsNeverUndone for one process with two threads: no
\* rewrite of RegPaths.dat brings back a path it recorded as deleted.
DeletionsNeverUndone ==
    [][check = "one" => \A q \in PathsOne : One!FileDeleted(q) => One!FileDeleted(q)']_vars

\* PathOverlay for the one-process half, with its tree as the refinement
\* mapping; the two-process half leaves tree1 at its initial value.  With
\* one process no other writer exists, so a reload must change nothing.
OneOverlay == INSTANCE PathOverlay WITH Paths <- PathsOne, Procs <- OneProc, tree <- tree1

(***************************************************************************)
(* One process of two threads implements PathOverlay: its tree changes    *)
(* only by one of its own markDeleted or setRelocation calls, applied     *)
(* whole.  A reload by Key_RefreshPathTree or Key_InitDelete_v2 changes   *)
(* nothing, so a mark or relocation stays in memory whether or not its    *)
(* write to RegPaths.dat failed: "the in-memory tree remains               *)
(* authoritative" (Key_MarkDeletedEx_v2, Key_SavePathTree,                *)
(* Key_RefreshPathTree).                                                  *)
(***************************************************************************)
RefinesPathOverlay == OneOverlay!Spec

\* KeyDelete!OpsComplete for two processes: every call of every thread
\* returns, so the named mutex is always released.
OpsComplete ==
    \A t \in TwoProcThreads : (check = "two" /\ pc2[t] # "idle") ~> pc2[t] = "idle"

=============================================================================
