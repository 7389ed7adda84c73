---------------------------- MODULE ScmServiceList ----------------------------
(***************************************************************************)
(* Scm_GetAllServices (scm.c, lines 1155-1285): the list of service names  *)
(* a sandboxed program enumerates, merged from the services outside the    *)
(* box (the SbieSvc reply, MSGID_SERVICE_LIST) and the boxed services      *)
(* (Scm_GetBoxedServices, the SandboxedServices MULTI_SZ, lines           *)
(* 1103-1147).  Each iteration of the while loop picks the smallest name   *)
(* left in either list (_wcsicmp), skips it when it repeats the previous   *)
(* one, else appends it, and crosses it out by overwriting its first       *)
(* character with '*'.                                                     *)
(*                                                                         *)
(* A name is a sequence of characters; a failed request or a missing      *)
(* registry value gives an empty list.  The growth of the output buffer    *)
(* is left out.                                                            *)
(***************************************************************************)
EXTENDS Naturals, Sequences, SequencesExt

CONSTANTS
    Chars,          \* the characters of service names
    LowerOf,        \* LowerOf[c]: c in lower case
    RankOf,         \* RankOf[c]: the code of LowerOf[c], for _wcsicmp
    Names,          \* the service names (non-empty, no '*')
    ListChoices     \* the lists either side may return

Marked == "*"

ASSUME \A n \in Names : Len(n) > 0 /\ \A i \in 1..Len(n) : n[i] \in Chars

\* _wcsicmp(a, b) < 0: lexicographic order of the lower-cased codes.
RECURSIVE ICmpLess(_, _)
ICmpLess(a, b) ==
    IF b = <<>> THEN FALSE
    ELSE IF a = <<>> THEN TRUE
    ELSE IF RankOf[Head(a)] # RankOf[Head(b)] THEN RankOf[Head(a)] < RankOf[Head(b)]
    ELSE ICmpLess(Tail(a), Tail(b))

IEqual(a, b) == ~ICmpLess(a, b) /\ ~ICmpLess(b, a)

VARIABLES
    trueNames,      \* true_names, with crossed-out entries
    copyNames,      \* copy_names, with crossed-out entries
    out,            \* out_names so far
    last,           \* last_ptr: <<list, index>> of the name added last, or <<>>
    last0,          \* last_ptr0: its first character before it was crossed out
    pc,
    given           \* history: the two lists as returned, before the loop

vars == <<trueNames, copyNames, out, last, last0, pc, given>>

Lists == [t |-> trueNames, c |-> copyNames]

\* The entries still in play, in scan order: true_names, then copy_names.
Open == {<<l, i>> \in {"t", "c"} \X (1..Len(trueNames) + Len(copyNames)) :
            i <= Len(Lists[l]) /\ Lists[l][i][1] # Marked}

ScanOrder(p, q) == (p[1] = "t" /\ q[1] = "c") \/ (p[1] = q[1] /\ p[2] < q[2])

NameAt(p) == Lists[p[1]][p[2]]

(***************************************************************************)
(* small_ptr: the first entry in scan order that no later entry is        *)
(* strictly smaller than (the scan replaces it only on _wcsicmp < 0).     *)
(***************************************************************************)
\* Mutant: the comparison is reversed, the largest name is picked.
Smallest_Reversed ==
    CHOOSE p \in Open : \A q \in Open :
        ~ICmpLess(NameAt(p), NameAt(q)) /\ (IEqual(NameAt(p), NameAt(q)) => ~ScanOrder(q, p))

Smallest ==
    CHOOSE p \in Open : \A q \in Open :
        ~ICmpLess(NameAt(q), NameAt(p)) /\ (IEqual(NameAt(p), NameAt(q)) => ~ScanOrder(q, p))

CrossOut(p) ==
    /\ trueNames' = IF p[1] = "t" THEN [trueNames EXCEPT ![p[2]][1] = Marked] ELSE trueNames
    /\ copyNames' = IF p[1] = "c" THEN [copyNames EXCEPT ![p[2]][1] = Marked] ELSE copyNames

\* The duplicate test: same first character, the rest equal ignoring case.
SameAsLast(n) ==
    /\ last # <<>>
    /\ n[1] = last0
    /\ IEqual(Tail(n), Tail(NameAt(last)))

TypeOK ==
    /\ out \in Seq(Names)
    /\ pc \in {"loop", "done"}

Init ==
    /\ trueNames \in ListChoices
    /\ copyNames \in ListChoices
    /\ out = <<>>
    /\ last = <<>>
    /\ last0 = Marked
    /\ pc = "loop"
    /\ given = ToSet(trueNames) \cup ToSet(copyNames)

\* Mutant: a skipped duplicate is not crossed out.
Scm_GetAllServicesStep_KeepsDuplicate ==
    /\ pc = "loop"
    /\ IF Open = {} THEN pc' = "done" /\ UNCHANGED <<trueNames, copyNames, out, last, last0, given>>
       ELSE LET p == Smallest  n == NameAt(p)
            IN  IF SameAsLast(n) THEN UNCHANGED vars
                ELSE /\ last' = p /\ last0' = n[1]
                     /\ out' = Append(out, n)
                     /\ CrossOut(p)
                     /\ UNCHANGED <<pc, given>>

\* Mutant: the entry is crossed out before it is copied to the output.
Scm_GetAllServicesStep_MarkFirst ==
    /\ pc = "loop"
    /\ IF Open = {} THEN pc' = "done" /\ UNCHANGED <<trueNames, copyNames, out, last, last0, given>>
       ELSE LET p == Smallest  n == NameAt(p)
            IN  IF SameAsLast(n) THEN CrossOut(p) /\ UNCHANGED <<out, last, last0, pc, given>>
                ELSE /\ last' = p /\ last0' = n[1]
                     /\ out' = Append(out, [n EXCEPT ![1] = Marked])
                     /\ CrossOut(p)
                     /\ UNCHANGED <<pc, given>>

(***************************************************************************)
(* One iteration of the while loop: stop when nothing is left; cross out  *)
(* a repeat of the previous name; else append the name, remember it and   *)
(* its first character, and cross it out.                                 *)
(***************************************************************************)
Scm_GetAllServicesStep ==
    /\ pc = "loop"
    /\ IF Open = {} THEN pc' = "done" /\ UNCHANGED <<trueNames, copyNames, out, last, last0, given>>
       ELSE LET p == Smallest  n == NameAt(p)
            IN  IF SameAsLast(n) THEN CrossOut(p) /\ UNCHANGED <<out, last, last0, pc, given>>
                ELSE /\ last' = p /\ last0' = n[1]
                     /\ out' = Append(out, n)
                     /\ CrossOut(p)
                     /\ UNCHANGED <<pc, given>>

Next == Scm_GetAllServicesStep \/ (pc = "done" /\ UNCHANGED vars)

Spec == Init /\ [][Next]_vars /\ WF_vars(Scm_GetAllServicesStep)

-----------------------------------------------------------------------------
(***************************************************************************)
(* The merged list is in _wcsicmp order at every iteration, and when the  *)
(* loop ends every service of either list appears in it (in some case).   *)
(***************************************************************************)
MergedInOrder ==
    /\ \A i \in 1..Len(out) - 1 : ~ICmpLess(out[i + 1], out[i])
    /\ pc = "done" =>
          \A n \in given : \E i \in 1..Len(out) : IEqual(n, out[i])

(***************************************************************************)
(* The loop ends: every iteration crosses out one entry.                  *)
(***************************************************************************)
MergeTerminates == <>(pc = "done")

(***************************************************************************)
(* No service is listed twice: names differing only in case are the same  *)
(* service ("we might hit a duplicate service name ... so skip the        *)
(* duplicates").                                                          *)
(***************************************************************************)
NoDuplicateServices == \A i, j \in 1..Len(out) : i < j => ~IEqual(out[i], out[j])

=============================================================================
