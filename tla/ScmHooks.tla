------------------------------ MODULE ScmHooks ------------------------------
(***************************************************************************)
(* How scm.c installs its hooks (lines 533-775): Scm_Init hooks every     *)
(* service function of a module with SBIEDLL_HOOK_SCM_EX, which hooks a   *)
(* function only while its __sys_ pointer is still NULL, so that the      *)
(* first module to export it wins; SecHost_Init runs it when sechost.dll  *)
(* loads, Scm_Init_AdvApi when advapi32.dll loads, after first running it *)
(* for sechost if sechost is mapped ("the sechost.dll handler being       *)
(* called before the one for advapi32.dll").                              *)
(*                                                                         *)
(* A function stands for a group of the code's list that is hooked the     *)
(* same way at the same place in the sequence: OpenService for the        *)
(* groups before the RegisterServiceCtrlHandler block, SetServiceStatus   *)
(* for those after it, NotifyServiceStatusChange for the two hooked only  *)
(* from Vista on, ReportEvent for the event-log functions of advapi32 and *)
(* Subscribe for SubscribeServiceChangeNotifications.  A pointer is NULL, *)
(* the original code of a function at a module, or the trampoline of the  *)
(* hook SbieDll_Hook installed there.  SbieDll_Hook and the loader are    *)
(* outside the sources: a hook fails at the code sites of Fails, and a    *)
(* function forwarded by advapi32 resolves to the code of sechost.        *)
(***************************************************************************)
EXTENDS Naturals, Sequences, SequencesExt

CONSTANTS
    Exports,        \* Exports[m]: the functions module m exports
    Forwarded,      \* functions whose advapi32 export forwards to sechost
    FailChoices,    \* sets of code sites <<module, function>> where hooking fails
    HelpMods,       \* modules whose RegisterServiceCtrlHandler(Ex)W match the x64 prologs
    OsBuilds,       \* Dll_OsBuild
    NULL

Mods == {"sechost", "advapi32"}

RegFuncs == <<"RegisterServiceCtrlHandlerA", "RegisterServiceCtrlHandlerW",
              "RegisterServiceCtrlHandlerExA", "RegisterServiceCtrlHandlerExW">>

Funcs == {"OpenService", "SetServiceStatus", "NotifyServiceStatusChange",
          "ReportEvent", "Subscribe", "RegisterServiceCtrlHandlerHelp"} \cup
         {RegFuncs[i] : i \in 1..4}

Sites == Mods \X Funcs

VARIABLES
    sys,        \* the __sys_ pointers: NULL, [kind |-> "orig" or "tramp", at |-> site]
    hooks,      \* hooks[site]: the hooks SbieDll_Hook installed at the site
    crit,       \* allocations of Scm_Notify_CritSec
    cb,         \* cb[m]: "pending", or what the load callback of m returned
    fails,      \* the sites where SbieDll_Hook fails
    os          \* Dll_OsBuild

vars == <<sys, hooks, crit, cb, fails, os>>

\* sechost.dll exists from Windows 7 on; advapi32 depends on it.
HasSechost == os >= 7600

TypeOK ==
    /\ sys \in [Funcs -> {NULL} \cup [kind : {"orig", "tramp"}, at : Sites]]
    /\ hooks \in [Sites -> 0..3]
    /\ crit \in 0..2
    /\ cb \in [Mods -> {"pending", "ok", "fail"}]

\* GetProcAddress / Ldr_GetProcAddrNew: the code the export of m resolves to
\* (before Windows 7 advapi32 implements everything itself).
GetProc(m, f) ==
    IF f \notin Exports[m] THEN NULL
    ELSE [kind |-> "orig", at |-> <<IF m = "advapi32" /\ f \in Forwarded /\ HasSechost THEN "sechost" ELSE m, f>>]

(***************************************************************************)
(* The steps below act on a record s of the hook state and a flag ok; a   *)
(* step of a sequence that has returned (ret) leaves s alone.             *)
(***************************************************************************)
\* SbieDll_Hook on the code p points to, its result stored in __sys_f;
\* a NULL p or a failing site gives NULL and the caller returns FALSE.
SBIEDLL_HOOK_SCM(s, f, p) ==
    IF p = NULL \/ p.at \in fails
    THEN [s EXCEPT !.sys[f] = NULL, !.ok = FALSE, !.ret = TRUE]
    ELSE [s EXCEPT !.sys[f] = [kind |-> "tramp", at |-> p.at], !.hooks[p.at] = @ + 1]

\* Mutant: the __sys_ pointer is not tested, as with SBIEDLL_HOOK_SCM.
SBIEDLL_HOOK_SCM_EX_Unguarded(s, m, f) ==
    IF GetProc(m, f) = NULL THEN s ELSE SBIEDLL_HOOK_SCM(s, f, GetProc(m, f))

\* Hooks f of m only while __sys_f is NULL and m exports f.
SBIEDLL_HOOK_SCM_EX(s, m, f) ==
    IF s.sys[f] # NULL \/ GetProc(m, f) = NULL THEN s
    ELSE SBIEDLL_HOOK_SCM(s, f, GetProc(m, f))

\* SCM_IMPORT_ and SBIEDLL_HOOK_SCM: a missing export logs and returns FALSE.
ImportAndHook(s, m, f) ==
    IF GetProc(m, f) = NULL THEN [s EXCEPT !.ok = FALSE, !.ret = TRUE]
    ELSE SBIEDLL_HOOK_SCM([s EXCEPT !.sys[f] = GetProc(m, f)], f, GetProc(m, f))

RECURSIVE HookEach(_, _)
HookEach(s, fs) ==
    IF fs = <<>> \/ s.ret THEN s
    ELSE HookEach(SBIEDLL_HOOK_SCM(s, Head(fs), s.sys[Head(fs)]), Tail(fs))

(***************************************************************************)
(* Scm_HookRegisterServiceCtrlHandler: where the x64 prologs of W and ExW *)
(* jump to one helper, the helper is hooked (its pointer is a local of    *)
(* the function); otherwise the four functions are hooked in order.       *)
(***************************************************************************)
Scm_HookRegisterServiceCtrlHandler(s, m) ==
    IF m \in HelpMods /\ s.sys[RegFuncs[2]] # NULL /\ s.sys[RegFuncs[4]] # NULL
    THEN LET site == <<s.sys[RegFuncs[2]].at[1], "RegisterServiceCtrlHandlerHelp">>
         IN  IF site \in fails THEN [s EXCEPT !.ok = FALSE, !.ret = TRUE]
             ELSE [s EXCEPT !.hooks[site] = @ + 1]
    ELSE HookEach(s, RegFuncs)

\* Lines 602-609: the block runs while RegisterServiceCtrlHandlerW is NULL
\* and sets all four pointers from the module before hooking.
RegisterBlock(s, m) ==
    IF s.sys[RegFuncs[2]] # NULL THEN s
    ELSE Scm_HookRegisterServiceCtrlHandler(
             [s EXCEPT !.sys = [f \in Funcs |-> IF \E i \in 1..4 : RegFuncs[i] = f
                                               THEN GetProc(m, f) ELSE @[f]]], m)

\* One step of Scm_Init, in the order of the code; "vista" is the return at
\* Dll_OsBuild < 6000, "crit" the one-time allocation of the critical section.
Step(s, m, st) ==
    IF s.ret THEN s
    ELSE CASE st = "reg"   -> RegisterBlock(s, m)
           [] st = "vista" -> IF os < 6000 THEN [s EXCEPT !.ret = TRUE] ELSE s
           [] st = "crit"  -> IF s.crit = 0 THEN [s EXCEPT !.crit = 1] ELSE s
           [] OTHER        -> SBIEDLL_HOOK_SCM_EX(s, m, st)

Scm_InitSteps == <<"OpenService", "reg", "SetServiceStatus", "vista", "crit",
                   "NotifyServiceStatusChange">>

Scm_Init(s, m) ==
    LET r == FoldLeft(LAMBDA acc, st : Step(acc, m, st), [s EXCEPT !.ok = TRUE, !.ret = FALSE],
                      Scm_InitSteps)
    IN  [r EXCEPT !.ret = FALSE]

Start == [sys |-> sys, hooks |-> hooks, crit |-> crit, ok |-> TRUE, ret |-> FALSE]

\* Mutant: advapi32 is hooked without first running Scm_Init for sechost.
Scm_Init_AdvApi_Result_NoSechost ==
    LET s1 == ImportAndHook(Start, "advapi32", "ReportEvent")
    IN  IF s1.ok THEN Scm_Init(s1, "advapi32") ELSE s1

\* Lines 649-682: the event-log hooks, Scm_Init for a mapped sechost, and
\* Scm_Init for advapi32 unless that failed.
Scm_Init_AdvApi_Result ==
    LET s1 == ImportAndHook(Start, "advapi32", "ReportEvent")
        s2 == IF s1.ok /\ HasSechost THEN Scm_Init(s1, "sechost") ELSE s1
    IN  IF s2.ok THEN Scm_Init(s2, "advapi32") ELSE s2

\* Lines 690-717: Scm_Init for sechost, then from Windows 8 the hook of
\* SubscribeServiceChangeNotifications (Cred_Init is outside the sources).
SecHost_Init_Result ==
    LET s1 == Scm_Init(Start, "sechost")
    IN  IF s1.ok /\ os >= 8400 THEN ImportAndHook(s1, "sechost", "Subscribe") ELSE s1

Apply(s, m) ==
    /\ sys' = s.sys /\ hooks' = s.hooks /\ crit' = s.crit
    /\ cb' = [cb EXCEPT ![m] = IF s.ok THEN "ok" ELSE "fail"]
    /\ UNCHANGED <<fails, os>>

Init ==
    /\ sys = [f \in Funcs |-> NULL]
    /\ hooks = [st \in Sites |-> 0]
    /\ crit = 0
    /\ cb = [m \in Mods |-> "pending"]
    /\ fails \in FailChoices
    /\ os \in OsBuilds

\* The loader reports sechost.dll (from Windows 7 on).
SecHostLoaded == HasSechost /\ cb["sechost"] = "pending" /\ Apply(SecHost_Init_Result, "sechost")

\* The loader reports advapi32.dll.
AdvApiLoaded == cb["advapi32"] = "pending" /\ Apply(Scm_Init_AdvApi_Result, "advapi32")

Loaded == cb["advapi32"] # "pending" /\ (HasSechost => cb["sechost"] # "pending")

Next == SecHostLoaded \/ AdvApiLoaded \/ (Loaded /\ UNCHANGED vars)

Spec == Init /\ [][Next]_vars

-----------------------------------------------------------------------------
\* The module whose code a function runs: sechost where it exports it.
Impl(f) == IF HasSechost /\ f \in Exports["sechost"] THEN "sechost" ELSE "advapi32"

\* The functions Scm_Init hooks with SBIEDLL_HOOK_SCM_EX on this build.
ExFuncs == {"OpenService", "SetServiceStatus"} \cup
           (IF os >= 6000 THEN {"NotifyServiceStatusChange"} ELSE {})

(***************************************************************************)
(* Once both load callbacks have succeeded, whichever the loader reported *)
(* first, every service function is hooked once, at the code that        *)
(* implements it: sechost's where sechost exports it, and the pointer the *)
(* hook calls is that hook's trampoline.  Calls that go to sechost        *)
(* directly must not bypass a hook placed on an advapi32 stub.            *)
(***************************************************************************)
HookedAtImplementation ==
    (\A m \in Mods : cb[m] = "ok" \/ (m = "sechost" /\ ~HasSechost)) =>
        \A f \in ExFuncs : f \in Exports["advapi32"] =>
            /\ sys[f] = [kind |-> "tramp", at |-> <<Impl(f), f>>]
            /\ \A m \in Mods : hooks[<<m, f>>] = IF m = Impl(f) THEN 1 ELSE 0

(***************************************************************************)
(* No code is hooked twice, and the trampoline of every hook but the      *)
(* helper's stays in its __sys_ pointer: a second hook on the same code,  *)
(* or a hook whose trampoline was overwritten by the original address,    *)
(* makes the hook call itself or lose the original.  Scm_Init runs up to  *)
(* three times, and a failed run leaves some hooks installed.             *)
(***************************************************************************)
NoHookLost ==
    \A st \in Sites : hooks[st] > 0 /\ st[2] # "RegisterServiceCtrlHandlerHelp" =>
        /\ hooks[st] = 1
        /\ sys[st[2]] = [kind |-> "tramp", at |-> st]

=============================================================================
