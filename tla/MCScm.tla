-------------------------------- MODULE MCScm --------------------------------
(***************************************************************************)
(* The service-control emulation of the DLL (scm.c) checked in one run: a *)
(* behaviour either merges the service lists of Scm_GetAllServices         *)
(* (ScmServiceList), makes calls on the service handles (ScmService) or    *)
(* installs the hooks as sechost.dll and advapi32.dll load (ScmHooks).     *)
(* The variable check says which; the other parts keep fixed values.       *)
(***************************************************************************)
EXTENDS Naturals, Sequences

CONSTANTS
    SvcLens,        \* lengths of the service names programs pass
    SvcValues,      \* SandboxedServices values
    NULL, MGR, Free,\* model values of ScmService
    HookFails       \* sets of code sites where SbieDll_Hook fails

VARIABLES
    trueNames, copyNames, out, last, last0, pc, given,          \* ScmServiceList
    restricted, boxValue, boxKeys, hostSvcs, heap, held,
    lastError, overrun, call,                                   \* ScmService
    sys, hooks, crit, cb, fails, os,                            \* ScmHooks
    check                                                       \* "merge", "handles" or "hooks"

(***************************************************************************)
(* Merge: names of one or two characters over a, A and b: enough for a    *)
(* name to be a prefix of another, for two names to differ only in the    *)
(* case of the first or the second character, and for a name to be in    *)
(* both lists.  Each list holds up to two names.                          *)
(***************************************************************************)
MCChars == {"a", "A", "b"}

MCLowerOf == [c \in MCChars |-> IF c = "A" THEN "a" ELSE c]

MCRankOf == [c \in MCChars |-> IF c = "b" THEN 2 ELSE 1]

MCNames == {<<c>> : c \in MCChars} \cup {<<c, d>> : c, d \in MCChars}

MCListChoices == {<<>>} \cup {<<n>> : n \in MCNames} \cup {<<n, m>> : n, m \in MCNames}

List == INSTANCE ScmServiceList
    WITH Chars <- MCChars, LowerOf <- MCLowerOf, RankOf <- MCRankOf, Names <- MCNames,
         ListChoices <- MCListChoices

(***************************************************************************)
(* Handles: msi stands for the built-in names, box for a service created   *)
(* in the box (listed in SandboxedServices), set for one named by the      *)
(* SandboxService setting, host for a service outside.  The box's         *)
(* registry view has the keys of box and msi, or none; the real service   *)
(* manager knows host, or nothing.  Two handles at a time.                 *)
(***************************************************************************)
SvcIds == {"msi", "box", "set", "host"}

SvcName(id, len) == [id |-> id, len |-> len, upper |-> FALSE]

\* The value as the box writes it, with one short service.
ShortValues ==
    { [type |-> "missing", names |-> <<>>],
      [type |-> "multi", names |-> <<>>],
      [type |-> "multi", names |-> <<SvcName("box", 8)>>] }

\* Seven services of 75 characters besides box: 2 * (8 * 76 + 1) bytes, more
\* than the 500 bytes the query buffer holds.
LongValues ==
    { [type |-> "multi",
       names |-> [i \in 1..8 |-> IF i = 8 THEN SvcName("box", 75) ELSE SvcName("set", 75)]] }

ProcChoices == [canQuery : BOOLEAN, system : BOOLEAN]

Svc == INSTANCE ScmService
    WITH Ids <- SvcIds, BuiltIn <- {"msi"}, SettingIds <- {"set"}, Lens <- SvcLens,
         ValueChoices <- SvcValues, KeyChoices <- {{}, {"box", "msi"}},
         HostChoices <- {{}, {"host"}}, Procs <- ProcChoices, MaxHandles <- 2

listVars == <<trueNames, copyNames, out, last, last0, pc, given>>

svcVars == <<restricted, boxValue, boxKeys, hostSvcs, heap, held, lastError, overrun, call>>

hookVars == <<sys, hooks, crit, cb, fails, os>>

vars == <<listVars, svcVars, hookVars, check>>

(***************************************************************************)
(* Hooks: the exports of Windows 8 and later, where sechost implements the *)
(* service functions and advapi32 forwards SetServiceStatus to it but     *)
(* keeps a stub of its own for the others; Windows XP (no sechost, the    *)
(* x64 prologs of advapi32 lead to the helper), Windows 7 and Windows 8.  *)
(***************************************************************************)
MCRegs == {"RegisterServiceCtrlHandlerA", "RegisterServiceCtrlHandlerW",
           "RegisterServiceCtrlHandlerExA", "RegisterServiceCtrlHandlerExW"}

MCExports ==
    [m \in {"sechost", "advapi32"} |->
        IF m = "sechost"
        THEN {"OpenService", "SetServiceStatus", "NotifyServiceStatusChange", "Subscribe"} \cup MCRegs
        ELSE {"OpenService", "SetServiceStatus", "NotifyServiceStatusChange", "ReportEvent"} \cup MCRegs]

Hooks == INSTANCE ScmHooks
    WITH Exports <- MCExports, Forwarded <- {"SetServiceStatus"}, FailChoices <- HookFails,
         HelpMods <- {"advapi32"}, OsBuilds <- {2600, 7601, 9200}

HookIdle ==
    /\ sys = [f \in Hooks!Funcs |-> NULL] /\ hooks = [st \in Hooks!Sites |-> 0] /\ crit = 0
    /\ cb = [m \in Hooks!Mods |-> "pending"] /\ fails = {} /\ os = 9200

ListIdle ==
    /\ trueNames = <<>> /\ copyNames = <<>> /\ out = <<>> /\ last = <<>>
    /\ last0 = "*" /\ pc = "done" /\ given = {}

SvcIdle == Svc!Init /\ restricted = FALSE /\ boxKeys = {} /\ hostSvcs = {}
               /\ boxValue = CHOOSE v \in SvcValues : TRUE

Init ==
    \/ check = "merge" /\ List!Init /\ SvcIdle /\ HookIdle
    \/ check = "handles" /\ Svc!Init /\ ListIdle /\ HookIdle
    \/ check = "hooks" /\ Hooks!Init /\ ListIdle /\ SvcIdle

MergeStep == check = "merge" /\ List!Scm_GetAllServicesStep /\ UNCHANGED <<svcVars, hookVars, check>>

Next ==
    \/ check = "merge" /\ List!Next /\ UNCHANGED <<svcVars, hookVars, check>>
    \/ check = "handles" /\ Svc!Next /\ UNCHANGED <<listVars, hookVars, check>>
    \/ check = "hooks" /\ Hooks!Next /\ UNCHANGED <<listVars, svcVars, check>>

\* The merge loop is sequential code of the calling thread.
Spec == Init /\ [][Next]_vars /\ WF_vars(MergeStep)

\* The part being checked keeps its types.
TypeOK == /\ check = "merge" => List!TypeOK
          /\ check = "handles" => Svc!TypeOK
          /\ check = "hooks" => Hooks!TypeOK

\* ScmServiceList!MergedInOrder: the output is sorted case-insensitively and
\* ends up holding every name of both lists.
MergedInOrder == check = "merge" => List!MergedInOrder

\* ScmServiceList!MergeTerminates: the merge loop ends.
MergeTerminates == <>(pc = "done")

\* ScmServiceList!NoDuplicateServices: no service is listed twice.
NoDuplicateServices == check = "merge" => List!NoDuplicateServices

\* ScmService!LastErrorMatchesResult: OpenService and CloseServiceHandle
\* leave a last error exactly when they fail.
LastErrorMatchesResult == check = "handles" => Svc!LastErrorMatchesResult

\* ScmService!HandlesNameExistingServices: a held service handle names, in
\* lower case, a service that exists where the DLL looks for it.
HandlesNameExistingServices == check = "handles" => Svc!HandlesNameExistingServices

\* ScmService!LocalSystemAnswered: SbieDll_CheckProcessLocalSystem is TRUE
\* exactly for a queryable process running as SYSTEM.
LocalSystemAnswered == check = "handles" => Svc!LocalSystemAnswered

\* ScmService!NoKeyNameOverrun: no key name is written past its buffer.
NoKeyNameOverrun == check = "handles" => Svc!NoKeyNameOverrun

\* ScmService!ListedServicesBoxed: a service listed in SandboxedServices is
\* looked up in the box.
ListedServicesBoxed == check = "handles" => Svc!ListedServicesBoxed

\* ScmHooks!HookedAtImplementation: after both load callbacks succeeded,
\* each service function is hooked once, at sechost's code where it has it.
HookedAtImplementation == check = "hooks" => Hooks!HookedAtImplementation

\* ScmHooks!NoHookLost: no code is hooked twice and no trampoline is lost.
NoHookLost == check = "hooks" => Hooks!NoHookLost

\* Hook failures at the sites a passing run admits: none, an OpenService or
\* SetServiceStatus stub, RegisterServiceCtrlHandlerA or ExA, the helper.
PassFails ==
    {{}, {<<"sechost", "OpenService">>}, {<<"advapi32", "SetServiceStatus">>},
     {<<"sechost", "RegisterServiceCtrlHandlerA">>}, {<<"sechost", "RegisterServiceCtrlHandlerExA">>},
     {<<"advapi32", "RegisterServiceCtrlHandlerHelp">>}}

\* SbieDll_Hook fails on sechost's RegisterServiceCtrlHandlerW, after A.
RegWFails == {{<<"sechost", "RegisterServiceCtrlHandlerW">>}}

=============================================================================
