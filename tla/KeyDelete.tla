----------------------------- MODULE KeyDelete -----------------------------
(***************************************************************************)
(* key_del.c: the registry delete-v2 engine shared by every sandboxed      *)
(* process of a box.  Each process keeps its own in-memory path tree       *)
(* (Key_PathRoot, guarded by Key_PathRoot_CritSec), the size and date of   *)
(* RegPaths.dat it last saw (Key_PathsFileSize/Date) and a reload counter  *)
(* (Key_PathsVersion).  All processes share RegPaths.dat and the named     *)
(* mutex KEY_VCM_MUTEX.                                                    *)
(*                                                                         *)
(* Every region guarded by the critical section does no blocking, so each  *)
(* is one atomic step here; the mutex is held across steps and is a        *)
(* variable.  The file signature (size, date) is a write counter: every    *)
(* write changes it, and 0 means the file does not exist.                  *)
(***************************************************************************)
EXTENDS PathTree, Naturals, FiniteSets

CONSTANTS
    Procs,          \* sandboxed processes of the box
    Threads,        \* their threads
    ThreadProc,     \* ThreadProc[t]: the process thread t belongs to
    MainThread,     \* MainThread[p]: the thread running Key_InitDelete_v2 in p
    NoThread,       \* model value: the mutex is free
    MaxOps          \* operations each thread may start (bounds the model)

ASSUME /\ ThreadProc \in [Threads -> Procs]
       /\ MainThread \in [Procs -> Threads]
       /\ \A p \in Procs : ThreadProc[MainThread[p]] = p
       /\ NoThread \notin Threads
       /\ MaxOps \in Nat

VARIABLES
    file,           \* the lines of RegPaths.dat
    fileSig,        \* its (size, date) signature; 0: no file
    mutex,          \* owner of KEY_VCM_MUTEX
    tree,           \* tree[p]: Key_PathRoot of process p
    pathsFileSig,   \* pathsFileSig[p]: Key_PathsFileSize/Date of p
    version,        \* version[p]: Key_PathsVersion of p
    changeBit,      \* changeBit[p]: box-root watcher bit 1 of p
    ready,          \* ready[p]: Key_InitDelete_v2 has finished in p
    pc,             \* pc[t]: where thread t is
    ret,            \* ret[t]: where Key_LoadPathTree returns to
    arg,            \* arg[t]: the path of t's call (OldTruePath of Key_SetRelocation)
    argNew,         \* argNew[t]: NewTruePath of t's Key_SetRelocation
    sigSeen,        \* sigSeen[t]: local PathsFileSize/Date of Key_RefreshPathTree
    verTmp,         \* verTmp[t]: value of Key_PathsVersion read by the ++ at line 160
    truncated,      \* truncated[t]: bTruncated of Key_MarkDeletedEx_v2
    opsLeft,        \* opsLeft[t]: operations t may still start
    unsaved         \* unsaved[p]: a write of p failed since its last full save (history)

vars == <<file, fileSig, mutex, tree, pathsFileSig, version, changeBit, ready,
          pc, ret, arg, argNew, sigSeen, verTmp, truncated, opsLeft, unsaved>>

PCs == {"idle", "r_setcache", "l_mutex", "l_read", "l_ver", "l_ver2", "i_stat",
        "m_mutex", "m_mark", "m_write", "s_mutex", "s_save"}

TypeOK ==
    /\ file \subseteq Line
    /\ fileSig \in Nat
    /\ mutex \in Threads \cup {NoThread}
    /\ tree \in [Procs -> Tree]
    /\ pathsFileSig \in [Procs -> Nat]
    /\ version \in [Procs -> Nat]
    /\ changeBit \in [Procs -> BOOLEAN]
    /\ ready \in [Procs -> BOOLEAN]
    /\ pc \in [Threads -> PCs]
    /\ ret \in [Threads -> {"idle", "i_stat"}]
    /\ arg \in [Threads -> Paths]
    /\ argNew \in [Threads -> Paths]
    /\ sigSeen \in [Threads -> Nat]
    /\ verTmp \in [Threads -> Nat]
    /\ truncated \in [Threads -> BOOLEAN]
    /\ opsLeft \in [Threads -> 0..MaxOps]
    /\ unsaved \in [Procs -> BOOLEAN]

-----------------------------------------------------------------------------
(* Helpers *)

P(t) == ThreadProc[t]

Goto(t, to) == pc' = [pc EXCEPT ![t] = to]

\* File_GetAttributes_internal succeeds only when the file exists.
Exists == fileSig > 0

\* A write to the box root fires every process's watcher (File_TestBoxRootChange).
WriteFile(lines) ==
    /\ file' = lines
    /\ fileSig' = fileSig + 1
    /\ changeBit' = [q \in Procs |-> TRUE]

\* Key_SavePathTree of process p writing tree tr, under the critical section:
\* rewrite the file, re-read its signature, count the change.  A failed
\* open leaves the file as it was, and the signature is read all the same.
Key_SavePathTree(p, tr) ==
    /\ \/ /\ WriteFile(SaveLines(tr))
          /\ pathsFileSig' = [pathsFileSig EXCEPT ![p] = fileSig + 1]
          /\ unsaved' = [unsaved EXCEPT ![p] = FALSE]
       \/ /\ UNCHANGED <<file, fileSig, changeBit>>
          /\ pathsFileSig' = [pathsFileSig EXCEPT ![p] = IF Exists THEN fileSig ELSE @]
          /\ unsaved' = [unsaved EXCEPT ![p] = TRUE]
    /\ version' = [version EXCEPT ![p] = @ + 1]

-----------------------------------------------------------------------------
(* Key_InitDelete_v2 runs Key_LoadPathTree on the main thread, then reads   *)
(* the signature and starts the box-root watcher.                           *)

Init ==
    /\ file = {}
    /\ fileSig = 0
    /\ mutex = NoThread
    /\ tree = [p \in Procs |-> EmptyTree]
    /\ pathsFileSig = [p \in Procs |-> 0]
    /\ version = [p \in Procs |-> 0]
    /\ changeBit = [p \in Procs |-> FALSE]
    /\ ready = [p \in Procs |-> FALSE]
    /\ pc = [t \in Threads |-> IF \E p \in Procs : MainThread[p] = t THEN "l_mutex" ELSE "idle"]
    /\ ret = [t \in Threads |-> IF \E p \in Procs : MainThread[p] = t THEN "i_stat" ELSE "idle"]
    /\ arg = [t \in Threads |-> CHOOSE q \in Paths : TRUE]
    /\ argNew = [t \in Threads |-> CHOOSE q \in Paths : TRUE]
    /\ sigSeen = [t \in Threads |-> 0]
    /\ verTmp = [t \in Threads |-> 0]
    /\ truncated = [t \in Threads |-> FALSE]
    /\ opsLeft = [t \in Threads |-> MaxOps]
    /\ unsaved = [p \in Procs |-> FALSE]

\* Lines 211-213: signature read after the load, outside the mutex.
Key_InitStat(t) ==
    /\ pc[t] = "i_stat"
    /\ pathsFileSig' = [pathsFileSig EXCEPT ![P(t)] = IF Exists THEN fileSig ELSE @]
    /\ changeBit' = [changeBit EXCEPT ![P(t)] = FALSE]
    /\ ready' = [ready EXCEPT ![P(t)] = TRUE]
    /\ Goto(t, "idle")
    /\ UNCHANGED <<file, fileSig, mutex, tree, version, ret, arg, argNew, sigSeen, verTmp,
                   truncated, opsLeft, unsaved>>

-----------------------------------------------------------------------------
(* Key_GetPathFlags (and its callers Key_IsDeleted_v2, Key_HasDeleted_v2,   *)
(* Key_GetRelocation, Key_ResolveTruePath): Key_RefreshPathTree, then the   *)
(* lookup under the critical section, which changes nothing.                *)

\* Mutant: every watcher notification reloads, whatever the signature.
Key_RefreshPathTree_AnyChange(t) ==
    /\ pc[t] = "idle" /\ ready[P(t)] /\ opsLeft[t] > 0
    /\ opsLeft' = [opsLeft EXCEPT ![t] = @ - 1]
    /\ changeBit' = [changeBit EXCEPT ![P(t)] = FALSE]
    /\ IF changeBit[P(t)] /\ Exists
       THEN /\ sigSeen' = [sigSeen EXCEPT ![t] = fileSig]
            /\ Goto(t, "r_setcache")
       ELSE /\ Goto(t, "idle")
            /\ UNCHANGED sigSeen
    /\ UNCHANGED <<file, fileSig, mutex, tree, pathsFileSig, version, ready, ret,
                   arg, argNew, verTmp, truncated, unsaved>>

\* Lines 173-178: test and clear the watcher bit, stat the file, compare.
Key_RefreshPathTree(t) ==
    /\ pc[t] = "idle" /\ ready[P(t)] /\ opsLeft[t] > 0
    /\ opsLeft' = [opsLeft EXCEPT ![t] = @ - 1]
    /\ changeBit' = [changeBit EXCEPT ![P(t)] = FALSE]
    /\ IF changeBit[P(t)] /\ Exists /\ fileSig # pathsFileSig[P(t)]
       THEN /\ sigSeen' = [sigSeen EXCEPT ![t] = fileSig]
            /\ Goto(t, "r_setcache")
       ELSE /\ Goto(t, "idle")
            /\ UNCHANGED sigSeen
    /\ UNCHANGED <<file, fileSig, mutex, tree, pathsFileSig, version, ready, ret,
                   arg, argNew, verTmp, truncated, unsaved>>

\* Lines 180-187: store the signature seen, then reload.
Key_RefreshSetSig(t) ==
    /\ pc[t] = "r_setcache"
    /\ pathsFileSig' = [pathsFileSig EXCEPT ![P(t)] = sigSeen[t]]
    /\ ret' = [ret EXCEPT ![t] = "idle"]
    /\ Goto(t, "l_mutex")
    /\ UNCHANGED <<file, fileSig, mutex, tree, version, changeBit, ready, arg, argNew,
                   sigSeen, verTmp, truncated, opsLeft, unsaved>>

(* Key_LoadPathTree, lines 150-160. *)
Key_LoadAcquire(t) ==
    /\ pc[t] = "l_mutex" /\ mutex = NoThread
    /\ mutex' = t
    /\ Goto(t, "l_read")
    /\ UNCHANGED <<file, fileSig, tree, pathsFileSig, version, changeBit, ready, ret,
                   arg, argNew, sigSeen, verTmp, truncated, opsLeft, unsaved>>

Key_LoadRead(t) ==
    /\ pc[t] = "l_read"
    /\ tree' = [tree EXCEPT ![P(t)] = LoadTree(file)]
    /\ mutex' = NoThread
    /\ Goto(t, "l_ver")
    /\ UNCHANGED <<file, fileSig, pathsFileSig, version, changeBit, ready, ret, arg, argNew,
                   sigSeen, verTmp, truncated, opsLeft, unsaved>>

\* Line 160 increments the volatile counter outside both locks: a read and a
\* write another thread's increment may fall between.
Key_LoadVersionRead(t) ==
    /\ pc[t] = "l_ver"
    /\ verTmp' = [verTmp EXCEPT ![t] = version[P(t)]]
    /\ Goto(t, "l_ver2")
    /\ UNCHANGED <<file, fileSig, mutex, tree, pathsFileSig, version, changeBit, ready,
                   ret, arg, argNew, sigSeen, truncated, opsLeft, unsaved>>

Key_LoadVersionWrite(t) ==
    /\ pc[t] = "l_ver2"
    /\ version' = [version EXCEPT ![P(t)] = verTmp[t] + 1]
    /\ Goto(t, ret[t])
    /\ UNCHANGED <<file, fileSig, mutex, tree, pathsFileSig, changeBit, ready, ret,
                   arg, argNew, sigSeen, verTmp, truncated, opsLeft, unsaved>>

-----------------------------------------------------------------------------
(* Key_MarkDeletedEx_v2, lines 224-281. *)

\* Entry: the caller's path is taken as the argument.
Key_MarkDeletedEx_v2(t, q) ==
    /\ pc[t] = "idle" /\ ready[P(t)] /\ opsLeft[t] > 0
    /\ opsLeft' = [opsLeft EXCEPT ![t] = @ - 1]
    /\ arg' = [arg EXCEPT ![t] = q]
    /\ Goto(t, "m_mutex")
    /\ UNCHANGED <<file, fileSig, mutex, tree, pathsFileSig, version, changeBit, ready,
                   ret, argNew, sigSeen, verTmp, truncated, unsaved>>

\* Line 230: File_AcquireMutex blocks until the named mutex is free.
Key_MarkAcquire(t) ==
    /\ pc[t] = "m_mutex" /\ mutex = NoThread
    /\ mutex' = t
    /\ Goto(t, "m_mark")
    /\ UNCHANGED <<file, fileSig, tree, pathsFileSig, version, changeBit, ready, ret,
                   arg, argNew, sigSeen, verTmp, truncated, opsLeft, unsaved>>

\* Mutant: the early return when nothing was set keeps the mutex.
Key_MarkInMemory_LeaksMutex(t) ==
    LET r == MarkDeletedInternal(tree[P(t)], arg[t])
    IN  /\ pc[t] = "m_mark"
        /\ tree' = [tree EXCEPT ![P(t)] = r.tree]
        /\ truncated' = [truncated EXCEPT ![t] = r.truncated]
        /\ Goto(t, IF r.set THEN "m_write" ELSE "idle")
        /\ UNCHANGED <<mutex, file, fileSig, pathsFileSig, version, changeBit, ready, ret,
                       arg, argNew, sigSeen, verTmp, opsLeft, unsaved>>

\* Lines 243-250: File_MarkDeleted_internal under the critical section; when
\* nothing was set, release the mutex and return (line 278).
Key_MarkInMemory(t) ==
    LET r == MarkDeletedInternal(tree[P(t)], arg[t])
    IN  /\ pc[t] = "m_mark"
        /\ tree' = [tree EXCEPT ![P(t)] = r.tree]
        /\ truncated' = [truncated EXCEPT ![t] = r.truncated]
        /\ IF r.set
           THEN /\ Goto(t, "m_write") /\ UNCHANGED mutex
           ELSE /\ Goto(t, "idle") /\ mutex' = NoThread
        /\ UNCHANGED <<file, fileSig, pathsFileSig, version, changeBit, ready, ret, arg, argNew,
                       sigSeen, verTmp, opsLeft, unsaved>>

\* Mutant: the append is taken even after a branch was truncated.
Key_MarkPersist_IgnoresTruncation(t) ==
    LET p == P(t) IN
    /\ pc[t] = "m_write"
    /\ IF Exists /\ pathsFileSig[p] = fileSig
       THEN \/ /\ WriteFile(file \cup {DeleteLine(arg[t])})
               /\ version' = [version EXCEPT ![p] = @ + 1]
               /\ pathsFileSig' = [pathsFileSig EXCEPT ![p] = fileSig + 1]
               /\ UNCHANGED unsaved
            \/ /\ UNCHANGED <<file, fileSig, changeBit, version, pathsFileSig>>
               /\ unsaved' = [unsaved EXCEPT ![p] = TRUE]
       ELSE Key_SavePathTree(p, tree[p])
    /\ mutex' = NoThread
    /\ Goto(t, "idle")
    /\ UNCHANGED <<tree, ready, ret, arg, argNew, sigSeen, verTmp, truncated, opsLeft>>

\* Mutant: the data file is opened for the append without Append, which
\* overwrites it with the one new line.
Key_MarkPersist_Overwrites(t) ==
    LET p == P(t) IN
    /\ pc[t] = "m_write"
    /\ IF ~truncated[t] /\ Exists /\ pathsFileSig[p] = fileSig
       THEN \/ /\ WriteFile({DeleteLine(arg[t])})
               /\ version' = [version EXCEPT ![p] = @ + 1]
               /\ pathsFileSig' = [pathsFileSig EXCEPT ![p] = fileSig + 1]
               /\ UNCHANGED unsaved
            \/ /\ UNCHANGED <<file, fileSig, changeBit, version, pathsFileSig>>
               /\ unsaved' = [unsaved EXCEPT ![p] = TRUE]
       ELSE Key_SavePathTree(p, tree[p])
    /\ mutex' = NoThread
    /\ Goto(t, "idle")
    /\ UNCHANGED <<tree, ready, ret, arg, argNew, sigSeen, verTmp, truncated, opsLeft>>

\* Lines 256-278: append one line when the file is unchanged since this
\* process last read or wrote it, else rewrite it from the in-memory tree;
\* then release the mutex.
Key_MarkPersist(t) ==
    LET p == P(t) IN
    /\ pc[t] = "m_write"
    /\ IF ~truncated[t] /\ Exists /\ pathsFileSig[p] = fileSig
       THEN \/ /\ WriteFile(file \cup {DeleteLine(arg[t])})
               /\ version' = [version EXCEPT ![p] = @ + 1]
               /\ pathsFileSig' = [pathsFileSig EXCEPT ![p] = fileSig + 1]
               /\ UNCHANGED unsaved
            \/ /\ UNCHANGED <<file, fileSig, changeBit, version, pathsFileSig>>
               /\ unsaved' = [unsaved EXCEPT ![p] = TRUE]
       ELSE Key_SavePathTree(p, tree[p])
    /\ mutex' = NoThread
    /\ Goto(t, "idle")
    /\ UNCHANGED <<tree, ready, ret, arg, argNew, sigSeen, verTmp, truncated, opsLeft>>

-----------------------------------------------------------------------------
(* Key_SetRelocation, lines 349-368: under the mutex, record the target and *)
(* rewrite the whole file.                                                  *)

Key_SetRelocation(t, old, new) ==
    /\ pc[t] = "idle" /\ ready[P(t)] /\ opsLeft[t] > 0
    /\ opsLeft' = [opsLeft EXCEPT ![t] = @ - 1]
    /\ arg' = [arg EXCEPT ![t] = old]
    /\ argNew' = [argNew EXCEPT ![t] = new]
    /\ Goto(t, "s_mutex")
    /\ UNCHANGED <<file, fileSig, mutex, tree, pathsFileSig, version, changeBit, ready,
                   ret, sigSeen, verTmp, truncated, unsaved>>

Key_RelocAcquire(t) ==
    /\ pc[t] = "s_mutex" /\ mutex = NoThread
    /\ mutex' = t
    /\ Goto(t, "s_save")
    /\ UNCHANGED <<file, fileSig, tree, pathsFileSig, version, changeBit, ready, ret,
                   arg, argNew, sigSeen, verTmp, truncated, opsLeft, unsaved>>

Key_RelocSave(t) ==
    LET p  == P(t)
        tr == SetRelocationInternal(tree[p], arg[t], argNew[t])
    IN  /\ pc[t] = "s_save"
        /\ tree' = [tree EXCEPT ![p] = tr]
        /\ Key_SavePathTree(p, tr)
        /\ mutex' = NoThread
        /\ Goto(t, "idle")
        /\ UNCHANGED <<ready, ret, arg, argNew, sigSeen, verTmp, truncated, opsLeft>>

-----------------------------------------------------------------------------

Finished == \A t \in Threads : pc[t] = "idle" /\ opsLeft[t] = 0

Step(t) ==
    \/ Key_InitStat(t)
    \/ Key_RefreshPathTree(t)
    \/ Key_RefreshSetSig(t)
    \/ Key_LoadAcquire(t)
    \/ Key_LoadRead(t)
    \/ Key_LoadVersionRead(t)
    \/ Key_LoadVersionWrite(t)
    \/ \E q \in Paths : Key_MarkDeletedEx_v2(t, q)
    \/ Key_MarkAcquire(t)
    \/ Key_MarkInMemory(t)
    \/ Key_MarkPersist(t)
    \/ \E old, new \in Paths : old # new /\ Key_SetRelocation(t, old, new)
    \/ Key_RelocAcquire(t)
    \/ Key_RelocSave(t)

Next ==
    \/ \E t \in Threads : Step(t)
    \/ Finished /\ UNCHANGED vars

\* Threads are scheduled by the OS: every thread that can run eventually does.
Spec == Init /\ [][Next]_vars /\ \A t \in Threads : WF_vars(Step(t))

-----------------------------------------------------------------------------
(* Properties *)

FileTree == LoadTree(file)

FileDeleted(q) == Deleted(FileTree, q)

ThreadsOf(p) == {t \in Threads : ThreadProc[t] = p}

\* No thread of p is between its in-memory change and the matching write, and
\* no reload of p is under way.
Quiescent(p) ==
    /\ ready[p]
    /\ \A t \in ThreadsOf(p) : pc[t] \notin {"m_write", "r_setcache", "l_mutex", "l_read"}

(***************************************************************************)
(* Once RegPaths.dat records a path as deleted, no later write of any      *)
(* process makes it visible again: Key_MarkDeletedEx_v2 and                *)
(* Key_SetRelocation rewrite the file from a process's own tree, which     *)
(* must therefore hold every deletion already persisted.                   *)
(***************************************************************************)
DeletionsNeverUndone ==
    [][\A q \in Paths : FileDeleted(q) => FileDeleted(q)']_vars

(***************************************************************************)
(* Whenever no operation of p is half done and none of p's writes failed,  *)
(* what p answers for every path (Key_IsDeleted_v2, Key_GetRelocation)     *)
(* is what a freshly started process would load from RegPaths.dat: the     *)
(* append optimisation of Key_MarkDeletedEx_v2 and the full rewrites       *)
(* persist exactly the in-memory tree.                                     *)
(***************************************************************************)
PersistedViewMatchesMemory ==
    \A p \in Procs : Quiescent(p) /\ ~unsaved[p] => View(tree[p]) = View(FileTree)

(***************************************************************************)
(* A process whose remembered signature equals the file's (so that         *)
(* Key_RefreshPathTree will not reload and Key_MarkDeletedEx_v2 will       *)
(* append) holds every deletion the file records.                          *)
(***************************************************************************)
CacheCoherent ==
    \A p \in Procs :
        Quiescent(p) /\ pathsFileSig[p] = fileSig
            => \A q \in Paths : FileDeleted(q) => Deleted(tree[p], q)

(***************************************************************************)
(* Every call into the engine returns: the named mutex is released on      *)
(* every path of Key_MarkDeletedEx_v2, Key_SetRelocation and               *)
(* Key_LoadPathTree, and it is always taken before the critical section.   *)
(***************************************************************************)
OpsComplete == \A t \in Threads : pc[t] # "idle" ~> pc[t] = "idle"

(***************************************************************************)
(* A path a process has marked deleted stays deleted in that process for   *)
(* its lifetime, whether or not the write to RegPaths.dat succeeded: a     *)
(* failed append or rewrite is non-fatal because "the in-memory tree       *)
(* remains authoritative" (Key_MarkDeletedEx_v2, Key_SavePathTree, and the *)
(* reload of Key_RefreshPathTree that must not replace it).                *)
(***************************************************************************)
MarksKeptInMemory ==
    [][\A p \in Procs, q \in Paths : Deleted(tree[p], q) => Deleted(tree'[p], q)]_vars

(***************************************************************************)
(* Key_PathsVersion never goes backwards: every reload (Key_LoadPathTree), *)
(* append and rewrite counts one more change, as the counter's readers     *)
(* assume when they use it to detect a stale tree.                         *)
(***************************************************************************)
VersionMonotonic == [][\A p \in Procs : version'[p] >= version[p]]_vars

=============================================================================
