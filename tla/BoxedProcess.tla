---------------------------- MODULE BoxedProcess ----------------------------
(***************************************************************************)
(* CBoxedProcess::InitProcessInfo (BoxedProcess.cpp, lines 156-198): the  *)
(* GUI opens a sandboxed process and reads its parent, image path and      *)
(* command line.  What the target grants decides which calls succeed:      *)
(* "full" grants PROCESS_QUERY_INFORMATION | PROCESS_VM_READ, "query" only *)
(* PROCESS_QUERY_INFORMATION (for example a protected process), "none"     *)
(* nothing (the process is gone or denies access).                        *)
(*                                                                         *)
(* OpenProcess returns a handle or NULL; it never returns                  *)
(* INVALID_HANDLE_VALUE.  A handle is represented by the rights it holds.  *)
(***************************************************************************)
EXTENDS Naturals

CONSTANTS
    NULL,           \* the NULL handle OpenProcess returns on failure
    InvalidHandle   \* INVALID_HANDLE_VALUE, ((HANDLE)-1)

Grants == {"full", "query", "none"}

VARIABLES
    grant,          \* what the target process grants the GUI
    win81,          \* ProcessCommandLineInformation is supported (Windows 8.1+)
    handle,         \* ProcessHandle: NULL, InvalidHandle, "queryread" or "query"
    parentPid,      \* m_ParendPID learnt
    imagePath,      \* m_ImagePath learnt
    commandLine,    \* m_CommandLine learnt
    ret,            \* the value returned, "none" while running
    pc

vars == <<grant, win81, handle, parentPid, imagePath, commandLine, ret, pc>>

\* Every variable holds a value of its kind.
TypeOK ==
    /\ grant \in Grants /\ win81 \in BOOLEAN
    /\ handle \in {NULL, InvalidHandle, "queryread", "query"}
    /\ {parentPid, imagePath, commandLine} \subseteq BOOLEAN
    /\ ret \in BOOLEAN \cup {"none"}

\* OpenProcess with the given access: a handle holding it, or NULL.
OpenProcess(rights) ==
    IF rights = "queryread" /\ grant = "full" THEN "queryread"
    ELSE IF rights = "query" /\ grant \in {"full", "query"} THEN "query"
    ELSE NULL

\* The constructor leaves every field empty (lines 37-50).
Init ==
    /\ grant \in Grants /\ win81 \in BOOLEAN
    /\ handle = NULL
    /\ parentPid = FALSE /\ imagePath = FALSE /\ commandLine = FALSE
    /\ ret = "none"
    /\ pc = "open"

\* Lines 159-163: open with full rights, retry with query rights when that
\* failed, give up when the retry failed too.
Open ==
    /\ pc = "open"
    /\ LET h1 == OpenProcess("queryread")
           h2 == IF h1 = InvalidHandle THEN OpenProcess("query") ELSE h1
       IN  /\ handle' = h2
           /\ IF h2 = InvalidHandle
              THEN ret' = FALSE /\ pc' = "done"
              ELSE ret' = ret /\ pc' = "basic"
    /\ UNCHANGED <<grant, win81, parentPid, imagePath, commandLine>>

\* Lines 165-173: ProcessBasicInformation needs a query handle,
\* GetModuleFileNameEx also the right to read memory.
QueryBasicAndImage ==
    /\ pc = "basic"
    /\ parentPid' = (handle \in {"queryread", "query"})
    /\ imagePath' = (handle = "queryread")
    /\ pc' = "cmdline"
    /\ UNCHANGED <<grant, win81, handle, commandLine, ret>>

\* CBoxedProcess__GetPebString (lines 78-154): whether the PEB read can give
\* the command line.  It needs PROCESS_VM_READ; with it the read may still
\* fail (unsupported WOW64 combination, a failed read, an empty string).
GetPebString(h) == IF h = "queryread" THEN BOOLEAN ELSE {FALSE}

(***************************************************************************)
(* Lines 175-194: the ProcessCommandLineInformation query (a length probe  *)
(* answered with a buffer-size status, then the real query) where the OS   *)
(* supports it; when that left the command line empty, the Windows 7      *)
(* method CBoxedProcess__GetPebString, which reads the target's PEB and    *)
(* so needs PROCESS_VM_READ, and which may still fail (a 64-bit target    *)
(* seen from a 32-bit GUI is not supported, a read can fail).  The query   *)
(* itself leaves the command line empty when malloc returned NULL: the     *)
(* kernel rejects the buffer and commandLine->Buffer is not read.          *)
(***************************************************************************)
QueryCommandLine ==
    /\ pc = "cmdline"
    /\ LET viaInfo == win81 /\ handle \in {"queryread", "query"}
       IN  \/ viaInfo /\ commandLine' = TRUE
           \* no query, or malloc returned NULL and the second query failed
           \/ commandLine' \in GetPebString(handle)
    /\ pc' = "close"
    /\ UNCHANGED <<grant, win81, handle, parentPid, imagePath, ret>>

\* Lines 196-197.
Close ==
    /\ pc = "close"
    /\ ret' = TRUE
    /\ pc' = "done"
    /\ UNCHANGED <<grant, win81, handle, parentPid, imagePath, commandLine>>

Next ==
    \/ Open \/ QueryBasicAndImage \/ QueryCommandLine \/ Close
    \/ pc = "done" /\ UNCHANGED vars

Spec == Init /\ [][Next]_vars

(***************************************************************************)
(* What the code's comments and its return value promise: InitProcessInfo  *)
(* fails only for a process it cannot open at all, and a process that      *)
(* grants only query rights is opened "with less rights", so its parent    *)
(* pid is still learnt.                                                    *)
(***************************************************************************)
InitFailsOnlyWhenUnopenable ==
    pc = "done" =>
        /\ ret = (grant # "none")
        /\ grant = "query" => parentPid

=============================================================================
