----------------------------- MODULE ScmService -----------------------------
(***************************************************************************)
(* The service-control emulation of the DLL (scm.c): OpenSCManager hands   *)
(* out the constant HANDLE_SERVICE_MANAGER, OpenService allocates a       *)
(* "handle" holding the tag tzuk and the lower-cased service name, and     *)
(* CloseServiceHandle frees it.  Whether a service is boxed decides where  *)
(* OpenService looks for it: the box's registry view of the Services key, *)
(* or the real service manager (through SbieSvc).                          *)
(*                                                                         *)
(* A service name is abstracted to its identity (case-insensitive          *)
(* equality), its length in characters and whether it has upper-case       *)
(* letters.  The registry value SandboxedServices, the box's Services      *)
(* keys and the services outside are the environment, fixed for a          *)
(* behaviour.  The tree of registry keys (Key_DiscardMergeByPath),         *)
(* Scm_QueryServiceByName and Scm_Notify_CloseHandle live in files that    *)
(* are not among the sources: their effect is what the code reads back.   *)
(***************************************************************************)
EXTENDS Naturals, Sequences, SequencesExt

CONSTANTS
    Ids,            \* service identities
    BuiltIn,        \* MSIServer, TrustedInstaller, bits, wuauserv, cryptsvc
    SettingIds,     \* services named by the SandboxService setting
    Lens,           \* lengths of service names a program passes
    ValueChoices,   \* SandboxedServices values: [type, names]
    KeyChoices,     \* sets of services with a key in the box's registry view
    HostChoices,    \* sets of services the real service manager knows
    Procs,          \* processes: [canQuery, system] (token can be opened, is SYSTEM)
    MaxHandles,     \* bound on the service handles allocated at once
    NULL, MGR, Free \* model values: NULL, HANDLE_SERVICE_MANAGER, a free heap block

Name == [id : Ids, len : Lens, upper : BOOLEAN]

\* A NULL or empty lpServiceName.
NoName == [id |-> NULL, len |-> 0, upper |-> FALSE]

Slots == 1..MaxHandles

Errors == {"none", "ACCESS_DENIED", "INVALID_HANDLE", "INVALID_PARAMETER",
           "SERVICE_DOES_NOT_EXIST"}

\* Scm_ServicesKeyPath, L"\REGISTRY\MACHINE\SYSTEM\CurrentControlSet\Services\".
KeyPathLen == 52

VARIABLES
    restricted,     \* Secure_IsRestrictedToken(TRUE) for this process
    boxValue,       \* the SandboxedServices value of the SbieSvc key
    boxKeys,        \* services whose key the box's registry view has
    hostSvcs,       \* services Scm_QueryServiceByName finds
    heap,           \* heap[s]: the name in handle block s, or Free
    held,           \* handles the program holds
    lastError,      \* the thread's last error
    overrun,        \* history: a key name was written past its buffer
    call            \* the last call: [op, name, path, ret]

vars == <<restricted, boxValue, boxKeys, hostSvcs, heap, held, lastError, overrun, call>>

NoCall == [op |-> "none", name |-> NoName, path |-> "none", ret |-> NULL]

\* Every variable holds a value of its kind.
TypeOK ==
    /\ heap \in [Slots -> Name \cup {Free}]
    /\ held \subseteq Slots \cup {MGR}
    /\ lastError \in Errors
    /\ overrun \in BOOLEAN
    /\ call.op \in {"none", "manager", "open", "close", "isboxed", "localsystem"}

-----------------------------------------------------------------------------
(* Helpers *)

\* Mutant: the copy is not lower-cased.
Lower_Keep(n) == n

\* _wcslwr on the copy kept in the handle.
Lower(n) == [n EXCEPT !.upper = FALSE]

\* u.info.DataLength of a MULTI_SZ: each name and its NUL, then a final NUL.
DataLength(names) == 2 * (FoldLeft(LAMBDA acc, n : acc + n.len + 1, 0, names) + 1)

\* The union u of Scm_GetBoxedServices: 256 WCHARs, of which the header of
\* KEY_VALUE_PARTIAL_INFORMATION (TitleIndex, Type, DataLength) takes 12
\* bytes; NtQueryValueKey fails with STATUS_BUFFER_OVERFLOW beyond that.
ValueBufferData == 256 * 2 - 12

(***************************************************************************)
(* Scm_GetBoxedServices (lines 1103-1147): the names of the value, or an  *)
(* empty list when the SbieSvc key cannot be opened, the query fails, the *)
(* value is not a MULTI_SZ or is empty.                                    *)
(***************************************************************************)
Scm_GetBoxedServices ==
    IF /\ boxValue.type = "multi"
       /\ DataLength(boxValue.names) <= ValueBufferData
       /\ boxValue.names # <<>>
    THEN boxValue.names
    ELSE <<>>

\* Mutant: the walk over the MULTI_SZ starts past the first name.
Scm_IsBoxedService_SkipFirst(n) ==
    \/ \E i \in 2..Len(Scm_GetBoxedServices) : Scm_GetBoxedServices[i].id = n.id
    \/ n.id \in SettingIds
    \/ n.id \in BuiltIn

\* Scm_IsBoxedService (lines 1050-1097): listed in SandboxedServices, named
\* by the SandboxService setting, or one of the five built-in names.
Scm_IsBoxedService(n) ==
    \/ \E i \in 1..Len(Scm_GetBoxedServices) : Scm_GetBoxedServices[i].id = n.id
    \/ n.id \in SettingIds
    \/ n.id \in BuiltIn

\* Scm_OpenKeyForService (lines 1293-1335) copies the key path and the name
\* into keyname[128]; Scm_DiscardKeyCache (1357-1364) into 256 WCHARs.
KeyNameOverrun(n) == KeyPathLen + n.len + 1 > 128

DiscardOverrun(n) == KeyPathLen + n.len + 1 > 256

\* The service exists where Scm_OpenServiceWImpl looks for it.
ServiceFound(n) == IF Scm_IsBoxedService(n) THEN n.id \in boxKeys ELSE n.id \in hostSvcs

\* Scm_GetHandleName (lines 1025-1044): the name behind a tagged block.
Scm_GetHandleName(h) == IF h \in Slots /\ heap[h] # Free THEN heap[h] ELSE NoName

-----------------------------------------------------------------------------
Init ==
    /\ restricted \in BOOLEAN
    /\ boxValue \in ValueChoices
    /\ boxKeys \in KeyChoices
    /\ hostSvcs \in HostChoices
    /\ heap = [s \in Slots |-> Free]
    /\ held = {}
    /\ lastError = "none"
    /\ overrun = FALSE
    /\ call = NoCall

\* Scm_OpenSCManagerW and Scm_OpenSCManagerA (lines 795-820).
Scm_OpenSCManagerW ==
    /\ IF restricted
       THEN lastError' = "ACCESS_DENIED" /\ call' = [NoCall EXCEPT !.op = "manager"]
                                         /\ UNCHANGED held
       ELSE /\ held' = held \cup {MGR}
            /\ call' = [NoCall EXCEPT !.op = "manager", !.ret = MGR]
            /\ UNCHANGED lastError
    /\ UNCHANGED <<restricted, boxValue, boxKeys, hostSvcs, heap, overrun>>

\* The last error Scm_OpenKeyForService(SBIESVC) leaves, in
\* Scm_GetBoxedServices.
SbieSvcKeyError == IF boxValue.type = "missing" THEN "SERVICE_DOES_NOT_EXIST" ELSE "none"

\* The last error after the lookup of Scm_OpenServiceWImpl: the box's key
\* is opened for a boxed service; Scm_QueryServiceByName sets it only when
\* it fails.
LookupError(n) ==
    IF Scm_IsBoxedService(n)
    THEN IF n.id \in boxKeys THEN "none" ELSE "SERVICE_DOES_NOT_EXIST"
    ELSE IF n.id \in hostSvcs THEN SbieSvcKeyError ELSE "SERVICE_DOES_NOT_EXIST"

\* Mutant: success does not reset the last error.
OpenSuccessError_Stale(n) == LookupError(n)

\* SetLastError(0) before a handle is returned.
OpenSuccessError(n) == "none"

(***************************************************************************)
(* Scm_OpenServiceWImpl (lines 828-890).  The manager handle and a name    *)
(* are required.  The key cache of the name is discarded; a boxed service  *)
(* is looked up in the box's registry view (Scm_OpenKeyForService), any    *)
(* other one outside (Scm_QueryServiceByName); both set the last error on  *)
(* failure.  On success a block holding the lower-cased name is allocated  *)
(* and the last error cleared.                                             *)
(***************************************************************************)
Scm_OpenServiceWImpl(h, n) ==
    \/ /\ h # MGR
       /\ lastError' = "INVALID_HANDLE"
       /\ call' = [NoCall EXCEPT !.op = "open", !.name = n]
       /\ UNCHANGED <<heap, held, overrun>>
    \/ /\ h = MGR /\ n = NoName
       /\ lastError' = "INVALID_PARAMETER"
       /\ call' = [NoCall EXCEPT !.op = "open", !.name = n]
       /\ UNCHANGED <<heap, held, overrun>>
    \/ /\ h = MGR /\ n # NoName
       /\ LET boxed == Scm_IsBoxedService(n)
              path  == IF boxed THEN "box" ELSE "host"
          IN  /\ overrun' = (overrun \/ DiscardOverrun(n) \/ (boxed /\ KeyNameOverrun(n)))
              /\ IF ServiceFound(n)
                 THEN \E s \in Slots :
                        /\ heap[s] = Free
                        /\ heap' = [heap EXCEPT ![s] = Lower(n)]
                        /\ held' = held \cup {s}
                        /\ lastError' = OpenSuccessError(n)
                        /\ call' = [op |-> "open", name |-> n, path |-> path, ret |-> s]
                 ELSE /\ lastError' = LookupError(n)
                      /\ call' = [op |-> "open", name |-> n, path |-> path, ret |-> NULL]
                      /\ UNCHANGED <<heap, held>>

\* Scm_OpenServiceW (lines 909-918) without an installed hook.
Scm_OpenServiceW(h, n) ==
    /\ Scm_OpenServiceWImpl(h, n)
    /\ UNCHANGED <<restricted, boxValue, boxKeys, hostSvcs>>

\* Scm_OpenServiceA (lines 925-950): the ANSI name is converted (a NULL name
\* stays NULL, and so does one whose conversion fails); the last error of
\* the call is kept across the free of the converted string.
Scm_OpenServiceA(h, n) ==
    /\ \/ Scm_OpenServiceWImpl(h, n)
       \/ n # NoName /\ Scm_OpenServiceWImpl(h, NoName)
    /\ UNCHANGED <<restricted, boxValue, boxKeys, hostSvcs>>
\* Scm_CloseServiceHandleImpl (lines 957-975) through Scm_CloseServiceHandle
\* (994-1000): the manager handle closes; a tagged block is freed.
Scm_CloseServiceHandle(h) ==
    /\ \/ /\ h = MGR
          /\ held' = held \ {MGR}
          /\ lastError' = "none"
          /\ call' = [NoCall EXCEPT !.op = "close", !.ret = TRUE]
          /\ UNCHANGED heap
       \/ /\ Scm_GetHandleName(h) # NoName
          /\ heap' = [heap EXCEPT ![h] = Free]
          /\ held' = held \ {h}
          /\ lastError' = "none"
          /\ call' = [NoCall EXCEPT !.op = "close", !.name = Scm_GetHandleName(h), !.ret = TRUE]
       \/ /\ h # MGR /\ Scm_GetHandleName(h) = NoName
          /\ lastError' = "INVALID_HANDLE"
          /\ call' = [NoCall EXCEPT !.op = "close", !.ret = FALSE]
          /\ UNCHANGED <<heap, held>>
    /\ UNCHANGED <<restricted, boxValue, boxKeys, hostSvcs, overrun>>

\* SbieDll_IsBoxedService (lines 1343-1349): the handle's name is looked up
\* in the boxed services again.
SbieDll_IsBoxedService(h) ==
    /\ LET n == Scm_GetHandleName(h)
       IN  /\ call' = [NoCall EXCEPT !.op = "isboxed", !.name = n,
                                     !.ret = (n # NoName /\ Scm_IsBoxedService(n))]
           /\ lastError' = IF n = NoName THEN "INVALID_HANDLE" ELSE lastError
    /\ UNCHANGED <<restricted, boxValue, boxKeys, hostSvcs, heap, held, overrun>>

(***************************************************************************)
(* SbieDll_CheckProcessLocalSystem (lines 1372-1385).  NtOpenProcessToken  *)
(* returns an NTSTATUS, 0 on success, and the code takes a non-zero status *)
(* as success: on success the token is never looked at, on failure the    *)
(* uninitialised TokenHandle is, with whatever answer that gives.          *)
(***************************************************************************)
SbieDll_CheckProcessLocalSystem(p) ==
    /\ LET status == IF p.canQuery THEN "SUCCESS" ELSE "ACCESS_DENIED"
       IN  \E isSystem \in (IF status # "SUCCESS" THEN BOOLEAN ELSE {FALSE}) :
              call' = [NoCall EXCEPT !.op = "localsystem", !.name = p, !.ret = isSystem]
    /\ UNCHANGED <<restricted, boxValue, boxKeys, hostSvcs, heap, held, lastError, overrun>>

\* Service handles a program may pass: the ones it holds, the manager
\* handle, and NULL (what a failed open returned).
Handles == {NULL, MGR} \cup held

Next ==
    \/ Scm_OpenSCManagerW
    \/ \E h \in Handles, n \in Name \cup {NoName} : Scm_OpenServiceW(h, n) \/ Scm_OpenServiceA(h, n)
    \/ \E h \in held \cup {NULL} : Scm_CloseServiceHandle(h)
    \/ \E h \in Handles : SbieDll_IsBoxedService(h)
    \/ \E p \in Procs : SbieDll_CheckProcessLocalSystem(p)

Spec == Init /\ [][Next]_vars

-----------------------------------------------------------------------------
(***************************************************************************)
(* The Win32 contract of OpenService and CloseServiceHandle: a call that   *)
(* fails leaves a last error naming why, and one that succeeds leaves 0,   *)
(* whatever the lookups before it (SbieSvc key, the box's key, the real    *)
(* service manager) left behind.                                          *)
(***************************************************************************)
LastErrorMatchesResult ==
    /\ call.op = "open" => ((call.ret = NULL) <=> (lastError # "none"))
    /\ call.op = "close" => (~call.ret <=> (lastError # "none"))

(***************************************************************************)
(* Every service handle the program holds names, in lower case, a service  *)
(* that exists where the DLL looks for it: the box's Services key for a    *)
(* boxed service, the real service manager for any other.                  *)
(***************************************************************************)
HandlesNameExistingServices ==
    \A s \in held \ {MGR} : heap[s] # Free /\ ~heap[s].upper /\ ServiceFound(heap[s])

(***************************************************************************)
(* SbieDll_CheckProcessLocalSystem answers whether the process runs as     *)
(* SYSTEM, as its name says: TRUE exactly for a process whose token can be *)
(* queried and is SYSTEM's.                                                *)
(***************************************************************************)
LocalSystemAnswered ==
    call.op = "localsystem" => call.ret = (call.name.canQuery /\ call.name.system)

(***************************************************************************)
(* No name a program passes to OpenService makes the DLL write a registry *)
(* key name past the buffer it builds it in.                               *)
(***************************************************************************)
NoKeyNameOverrun == ~overrun

(***************************************************************************)
(* A service listed in SandboxedServices (a service created in the box)    *)
(* is looked up in the box, for each SandboxedServices value the cfg      *)
(* gives (MCScm.cfg: boxes that list one service).                       *)
(***************************************************************************)
ListedServicesBoxed ==
    (/\ call.op = "open"
     /\ call.path # "none"
     /\ boxValue.type = "multi"
     /\ \E i \in 1..Len(boxValue.names) : boxValue.names[i].id = call.name.id)
    => call.path = "box"

=============================================================================
