----------------------------- MODULE ProcessName -----------------------------
(***************************************************************************)
(* Process_CheckProcessName (process_util.c): does a "$:name" entry of an  *)
(* open list (OpenIpcPath and the like) admit the process with a given    *)
(* id?  The loop fetches the name with Process_GetProcessName at the      *)
(* first "$:" entry only, and breaks when that fails.  A string is a      *)
(* sequence of characters; the image file name the kernel reports is an   *)
(* input, or Fail for every way Process_GetProcessName returns no name.   *)
(***************************************************************************)
EXTENDS Integers, Sequences, SequencesExt

CONSTANTS
    Images,     \* image file names ProcessImageFileName may report
    Settings,   \* open_paths lists: the Pattern_Source of each pattern, in order
    LowerOf,    \* LowerOf[c]: c in lower case, for _wcsicmp
    Fail,       \* ZwOpenProcess, the length query, Mem_Alloc or the query failed
    Null

VARIABLES
    idProcess,  \* 0 or the process id
    reported,   \* what ProcessImageFileName gives for it, or Fail
    paths,      \* open_paths
    k,          \* the loop's position in open_paths
    nptr,       \* the name fetched so far, Null before the first fetch
    lookups,    \* calls of Process_GetProcessName made
    result,
    setting,    \* *pSetting
    pc          \* "call", "loop" or "done"

vars == <<idProcess, reported, paths, k, nptr, lookups, result, setting, pc>>

Lower(s) == [i \in DOMAIN s |-> LowerOf[s[i]]]

\* The name Process_GetProcessName returns: the reported name, "?" when it
\* is empty, then the part after its last backslash, or all of it when there
\* is no backslash or nothing follows the last one.
ProcessNameOf(img) ==
    LET buf == IF img = <<>> THEN <<"?">> ELSE img
        bs  == SelectLastInSeq(buf, LAMBDA c : c = "\\")
    IN  IF bs = 0 \/ bs = Len(buf) THEN buf ELSE SubSeq(buf, bs + 1, Len(buf))

GetProcessName(id, img) == IF id = 0 \/ img = Fail THEN Null ELSE ProcessNameOf(img)

\* wcslen(src) >= 3 && src[0] == L'$' && src[1] == L':'
IsNameRule(src) == Len(src) >= 3 /\ src[1] = "$" /\ src[2] = ":"

\* Mutant: the name is compared case-sensitively (wcscmp).
NameMatches_CaseSensitive(name, src) ==
    \/ name = SubSeq(src, 3, Len(src))
    \/ SubSeq(src, 3, Len(src)) = <<"*">>

\* _wcsicmp(nptr, src + 2) == 0, or the entry is exactly "$:*".
NameMatches(name, src) ==
    \/ Lower(name) = Lower(SubSeq(src, 3, Len(src)))
    \/ SubSeq(src, 3, Len(src)) = <<"*">>

TypeOK ==
    /\ k \in 1..Len(paths) + 1
    /\ lookups \in 0..Len(paths)
    /\ result \in BOOLEAN
    /\ setting \in {Null} \cup Range(paths)
    /\ nptr \in {Null} \cup {ProcessNameOf(i) : i \in Images}
    /\ pc \in {"call", "loop", "done"}

Init ==
    /\ idProcess \in {0, 1}
    /\ reported \in Images \cup {Fail}
    /\ paths \in Settings
    /\ k = 1 /\ nptr = Null /\ lookups = 0
    /\ result = FALSE /\ setting = Null
    /\ pc = "call"

\* Lines 1167-1179: result and *pSetting are cleared; id 0 returns at once.
Call ==
    /\ pc = "call"
    /\ pc' = IF idProcess = 0 THEN "done" ELSE "loop"
    /\ UNCHANGED <<idProcess, reported, paths, k, nptr, lookups, result, setting>>

\* One pass of the while loop, lines 1188-1204: a "$:" entry fetches the
\* name if it has none yet and breaks when there is none; a match sets the
\* result and the setting and breaks.
CheckProcessNameLoop ==
    /\ pc = "loop"
    /\ IF k > Len(paths)
       THEN pc' = "done" /\ UNCHANGED <<k, nptr, lookups, result, setting>>
       ELSE LET src   == paths[k]
                fetch == IsNameRule(src) /\ nptr = Null
                name  == IF fetch THEN GetProcessName(idProcess, reported) ELSE nptr
            IN  /\ lookups' = IF fetch THEN lookups + 1 ELSE lookups
                /\ nptr' = name
                /\ CASE ~IsNameRule(src) ->
                          k' = k + 1 /\ UNCHANGED <<result, setting, pc>>
                     [] name = Null ->
                          pc' = "done" /\ UNCHANGED <<k, result, setting>>
                     [] NameMatches(name, src) ->
                          /\ result' = TRUE /\ setting' = src
                          /\ pc' = "done" /\ UNCHANGED k
                     [] OTHER ->
                          k' = k + 1 /\ UNCHANGED <<result, setting, pc>>
    /\ UNCHANGED <<idProcess, reported, paths>>

Done == pc = "done" /\ UNCHANGED vars

Next == Call \/ CheckProcessNameLoop \/ Done

Spec == Init /\ [][Next]_vars

(***************************************************************************)
(* Process_CheckProcessName admits the process exactly when its name is   *)
(* known and some "$:" entry names it, case-insensitively, or is "$:*";    *)
(* *pSetting is the first such entry in list order; and the name was      *)
(* fetched at most once, and only if a "$:" entry was reached.  The lazy  *)
(* fetch inside the loop and the two breaks have to give this.             *)
(***************************************************************************)
NameCheckMatchesReference ==
    LET name    == GetProcessName(idProcess, reported)
        Admits(src) == \/ src = <<"$", ":", "*">>
                       \/ \E n \in {name} \ {Null} : Len(src) = Len(n) + 2 /\ src[1] = "$" /\ src[2] = ":"
                                                    /\ \A i \in 1..Len(n) : LowerOf[src[i + 2]] = LowerOf[n[i]]
        hits    == {i \in DOMAIN paths : name # Null /\ Admits(paths[i])}
        anyRule == \E i \in DOMAIN paths : IsNameRule(paths[i])
    IN  pc = "done" =>
            /\ result = (hits # {})
            /\ setting = IF hits = {} THEN Null ELSE paths[Min(hits)]
            /\ lookups = IF idProcess # 0 /\ anyRule THEN 1 ELSE 0

=============================================================================
