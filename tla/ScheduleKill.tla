----------------------------- MODULE ScheduleKill -----------------------------
(***************************************************************************)
(* Termination of a sandboxed process by the driver (process_util.c):      *)
(* Process_TerminateProcess (lines 1343-1353), Process_ScheduleKill        *)
(* (1521-1561) and the system thread it starts, Process_ScheduleKillProc   *)
(* (1467-1513).  The thread is given only the process id; it looks the id  *)
(* up again on every retry, and while it waits between retries it holds   *)
(* no reference to the process.                                            *)
(*                                                                         *)
(* The operating system is modelled as the process occupying each id: a   *)
(* generation number, 0 when the id is free.  A process may exit at any    *)
(* time and a free id may be given to a new process.                       *)
(***************************************************************************)
EXTENDS Integers, FiniteSets

CONSTANTS
    Pids,           \* process ids
    TargetPid,      \* the id of the sandboxed process (proc->pid)
    Delays,         \* delay_ms values callers pass
    Reasons,        \* initial proc->reason values (-1: SBIE1308 already logged)
    MaxGen,         \* bound on the processes the system creates
    MaxKills        \* bound on the terminate requests

ASSUME TargetPid \in Pids /\ \A d \in Delays : d \in Nat

\* The wait of one retry: KeDelayExecutionThread of 50 ms.
Step == 50

VARIABLES
    occupant,       \* occupant[p]: generation of the process with id p, 0 if free
    nextGen,        \* generation of the next process created
    killed,         \* the processes (<<id, generation>>) ZwTerminateProcess hit
    thread,         \* thread[i]: the i-th kill thread, [pid, delay, alive]
    calls,          \* terminate requests made
    reason,         \* proc->reason of the sandboxed process
    logged,         \* MSG_2314 messages logged for it
    unload          \* Driver_FullUnload

vars == <<occupant, nextGen, killed, thread, calls, reason, logged, unload>>

Target == <<TargetPid, 1>>

NoThread == [pid |-> TargetPid, delay |-> 0, alive |-> FALSE]

TypeOK ==
    /\ occupant \in [Pids -> 0..MaxGen]
    /\ killed \subseteq Pids \X (1..MaxGen)
    /\ thread \in [1..MaxKills -> [pid : Pids, delay : Int, alive : BOOLEAN]]
    /\ calls \in 0..MaxKills
    /\ logged \in Nat

Init ==
    /\ occupant = [p \in Pids |-> IF p = TargetPid THEN 1 ELSE 0]
    /\ nextGen = 2
    /\ killed = {}
    /\ thread = [i \in 1..MaxKills |-> NoThread]
    /\ calls = 0
    /\ reason \in Reasons
    /\ logged = 0
    /\ unload = FALSE

\* Mutant: reason is not set to -1 after the message.
Process_ScheduleKill_RelogsAlways(delay) ==
    /\ calls < MaxKills
    /\ calls' = calls + 1
    /\ \/ /\ thread' = [thread EXCEPT ![calls + 1] =
                           [pid |-> TargetPid, delay |-> delay, alive |-> TRUE]]
          /\ \/ delay # 0 /\ UNCHANGED <<reason, logged>>
             \/ /\ delay = 0
                /\ \/ /\ logged' = IF reason # -1 THEN logged + 1 ELSE logged
                      /\ UNCHANGED reason
                   \/ UNCHANGED <<reason, logged>>
       \/ UNCHANGED <<thread, reason, logged>>
    /\ UNCHANGED <<occupant, nextGen, killed, unload>>

(***************************************************************************)
(* Process_ScheduleKill: start the thread with the id and the delay; on   *)
(* success with no delay, log MSG_2314 unless reason is -1 (when the text *)
(* buffer could be allocated), then set reason to -1.                     *)
(***************************************************************************)
Process_ScheduleKill(delay) ==
    /\ calls < MaxKills
    /\ calls' = calls + 1
    /\ \/ /\ thread' = [thread EXCEPT ![calls + 1] =
                           [pid |-> TargetPid, delay |-> delay, alive |-> TRUE]]
          /\ \/ delay # 0 /\ UNCHANGED <<reason, logged>>
             \/ /\ delay = 0
                /\ \/ /\ logged' = IF reason # -1 THEN logged + 1 ELSE logged
                      /\ reason' = -1
                   \/ UNCHANGED <<reason, logged>>          \* Mem_Alloc of text failed
       \/ UNCHANGED <<thread, reason, logged>>               \* PsCreateSystemThread failed
    /\ UNCHANGED <<occupant, nextGen, killed, unload>>

(***************************************************************************)
(* Process_TerminateProcess: with TerminateUsingService the service is    *)
(* asked first (Process_CancelProcess); when that fails, or without it,   *)
(* the kernel kill is scheduled with no delay.  Other callers schedule    *)
(* the kill with a delay.                                                  *)
(***************************************************************************)
Process_TerminateProcess ==
    \/ calls < MaxKills /\ calls' = calls + 1
       /\ UNCHANGED <<occupant, nextGen, killed, thread, reason, logged, unload>>  \* service accepted
    \/ Process_ScheduleKill(0)

ScheduleKillDelayed == \E d \in Delays \ {0} : Process_ScheduleKill(d)

\* Mutant: the failed lookup is not noticed; whatever the id names is hit.
KillRetry_NoLookupCheck(i) ==
    LET t == thread[i]
    IN  /\ t.alive
        /\ CASE unload ->
                    /\ thread' = [thread EXCEPT ![i].alive = FALSE]
                    /\ UNCHANGED <<occupant, killed>>
             [] t.delay > 0 ->
                    /\ thread' = [thread EXCEPT ![i].delay = t.delay - Step]
                    /\ UNCHANGED <<occupant, killed>>
             [] OTHER ->
                    /\ killed' = killed \cup {<<t.pid, occupant[t.pid]>>}
                    /\ occupant' = [occupant EXCEPT ![t.pid] = 0]
                    /\ thread' = [thread EXCEPT ![i].alive = FALSE]
        /\ UNCHANGED <<nextGen, calls, reason, logged, unload>>

\* Mutant: the delay is not counted down between retries.
KillRetry_NoCountdown(i) ==
    LET t == thread[i]
    IN  /\ t.alive
        /\ CASE unload \/ occupant[t.pid] = 0 ->
                    /\ thread' = [thread EXCEPT ![i].alive = FALSE]
                    /\ UNCHANGED <<occupant, killed>>
             [] t.delay > 0 ->
                    UNCHANGED <<thread, occupant, killed>>
             [] OTHER ->
                    /\ killed' = killed \cup {<<t.pid, occupant[t.pid]>>}
                    /\ occupant' = [occupant EXCEPT ![t.pid] = 0]
                    /\ thread' = [thread EXCEPT ![i].alive = FALSE]
        /\ UNCHANGED <<nextGen, calls, reason, logged, unload>>

\* Mutant: after the wait the thread leaves instead of going to retry.
KillRetry_NoRetry(i) ==
    LET t == thread[i]
    IN  /\ t.alive
        /\ CASE unload \/ occupant[t.pid] = 0 \/ t.delay > 0 ->
                    /\ thread' = [thread EXCEPT ![i].alive = FALSE]
                    /\ UNCHANGED <<occupant, killed>>
             [] OTHER ->
                    /\ killed' = killed \cup {<<t.pid, occupant[t.pid]>>}
                    /\ occupant' = [occupant EXCEPT ![t.pid] = 0]
                    /\ thread' = [thread EXCEPT ![i].alive = FALSE]
        /\ UNCHANGED <<nextGen, calls, reason, logged, unload>>

(***************************************************************************)
(* One pass of Process_ScheduleKillProc from the retry label: leave on    *)
(* unload or when the id is not found; else, holding a handle (so the id  *)
(* cannot be reused), either close it, wait and count the delay down, or  *)
(* terminate whatever process has the id now.                             *)
(***************************************************************************)
KillRetry(i) ==
    LET t == thread[i]
    IN  /\ t.alive
        /\ CASE unload \/ occupant[t.pid] = 0 ->
                    /\ thread' = [thread EXCEPT ![i].alive = FALSE]
                    /\ UNCHANGED <<occupant, killed>>
             [] t.delay > 0 ->
                    /\ thread' = [thread EXCEPT ![i].delay = t.delay - Step]
                    /\ UNCHANGED <<occupant, killed>>
             [] OTHER ->
                    /\ killed' = killed \cup {<<t.pid, occupant[t.pid]>>}
                    /\ occupant' = [occupant EXCEPT ![t.pid] = 0]
                    /\ thread' = [thread EXCEPT ![i].alive = FALSE]
        /\ UNCHANGED <<nextGen, calls, reason, logged, unload>>

\* The rest of the system: a process exits, a new one gets a free id, the
\* driver unloads.
ProcessExit(p) ==
    /\ occupant[p] # 0
    /\ occupant' = [occupant EXCEPT ![p] = 0]
    /\ UNCHANGED <<nextGen, killed, thread, calls, reason, logged, unload>>

ProcessCreate(p) ==
    /\ occupant[p] = 0 /\ nextGen <= MaxGen
    /\ occupant' = [occupant EXCEPT ![p] = nextGen]
    /\ nextGen' = nextGen + 1
    /\ UNCHANGED <<killed, thread, calls, reason, logged, unload>>

DriverUnload ==
    /\ ~unload /\ unload' = TRUE
    /\ UNCHANGED <<occupant, nextGen, killed, thread, calls, reason, logged>>

Finished ==
    /\ \A i \in 1..MaxKills : ~thread[i].alive
    /\ calls = MaxKills
    /\ UNCHANGED vars

Next ==
    \/ Process_TerminateProcess
    \/ ScheduleKillDelayed
    \/ \E i \in 1..MaxKills : KillRetry(i)
    \/ \E p \in Pids : ProcessExit(p) \/ ProcessCreate(p)
    \/ DriverUnload
    \/ Finished

\* A kill thread is a system thread: once started it keeps being scheduled.
Spec == Init /\ [][Next]_vars /\ \A i \in 1..MaxKills : WF_vars(KillRetry(i))

-----------------------------------------------------------------------------
(***************************************************************************)
(* Process_ScheduleKill logs MSG_2314 for a process at most once however  *)
(* often the kill is triggered ("avoid repeated messages if this gets re  *)
(* triggered"), and never after SBIE1308 (reason -1).                     *)
(***************************************************************************)
LogAtMostOnce == logged <= 1

(***************************************************************************)
(* Every kill thread ends: the delay counts down and each pass either     *)
(* waits, terminates, or finds the process gone.                          *)
(***************************************************************************)
KillThreadsEnd == \A i \in 1..MaxKills : [](thread[i].alive => <>~thread[i].alive)

(***************************************************************************)
(* A kill thread that was started kills the sandboxed process unless it   *)
(* exits by itself or the driver unloads first.                           *)
(***************************************************************************)
TargetKilled ==
    \A i \in 1..MaxKills :
        [](thread[i].alive => <>(Target \in killed \/ occupant[TargetPid] # 1 \/ unload))

(***************************************************************************)
(* ZwTerminateProcess only ever hits the sandboxed process the kill was   *)
(* scheduled for.                                                         *)
(***************************************************************************)
KillOnlyTarget == killed \subseteq {Target}

=============================================================================
