----------------------------- MODULE ProcessPaths -----------------------------
(***************************************************************************)
(* The path lists of a process and the access class of a path             *)
(* (process_util.c): Process_GetPaths (lines 457-503), Process_AddPath and *)
(* Process_AddPath_2 (605-812), Process_MatchPath (827-921) and            *)
(* Process_MatchPathEx (929-1075), for the file lists.                     *)
(*                                                                         *)
(* A path or pattern is a sequence of lower-case characters; "*" is the    *)
(* wildcard, "|" the no-suffix-star marker of a setting.  Pattern_Create,  *)
(* Pattern_Match and Pattern_MatchPathListEx live in pattern.c, which is   *)
(* not among the sources; they are modelled from the specification (4.4): *)
(* a glob match, and a running best (level, specificity, wildcards) that a *)
(* matching pattern replaces when it is strictly better.  Conf_Expand is   *)
(* the identity (no variables), File_TranslateReparsePoints finds no       *)
(* reparse point and the "*:" drive expansion is not used.                 *)
(***************************************************************************)
EXTENDS ProcessImage, Integers

CONSTANTS
    ListConfs,      \* the configured values of each list, a set of [Kinds -> Seq(Rule)]
    QueryPaths      \* the paths a process asks about (non-empty)

\* The file lists, in the order Process_MatchPathEx consults them.
Kinds == <<"Closed", "Write", "Read", "Normal", "Open">>

KindSet == ToSet(Kinds)

KindIndex(k) == CHOOSE i \in 1..5 : Kinds[i] = k

\* The access classes: the mp_flags combinations Process_MatchPathEx returns.
ClassOf == [Closed |-> "closed", Write |-> "write", Read |-> "read",
            Normal |-> "normal", Open |-> "open"]

\* USHORT -1, the initial wildc of Process_MatchPathEx.
WildcNone == 65535

(***************************************************************************)
(* Pattern_Match (from the specification): "*" matches any sequence.      *)
(***************************************************************************)
RECURSIVE Glob(_, _)
Glob(p, s) ==
    IF p = <<>> THEN s = <<>>
    ELSE IF Head(p) = "*" THEN Glob(Tail(p), s) \/ (s # <<>> /\ Glob(p, Tail(s)))
    ELSE s # <<>> /\ Head(s) = Head(p) /\ Glob(Tail(p), Tail(s))

Specificity(p) == Len(SelectSeq(p, LAMBDA c : c # "*"))

Wildcards(p) == Len(SelectSeq(p, LAMBDA c : c = "*"))

(***************************************************************************)
(* Process_AddPath_2 with RemoveBackslashes: a backslash followed by a     *)
(* backslash is dropped, and a star is appended when AddStar holds and     *)
(* the text has none.                                                      *)
(***************************************************************************)
RECURSIVE RemoveDoubleBackslashes(_)
RemoveDoubleBackslashes(s) ==
    IF Len(s) < 2 THEN s
    ELSE IF s[1] = "\\" /\ s[2] = "\\" THEN RemoveDoubleBackslashes(Tail(s))
    ELSE <<s[1]>> \o RemoveDoubleBackslashes(Tail(s))

Process_AddPath_2(text, addStar, level) ==
    LET star == addStar /\ ~Contains(text, "*")
    IN  [src |-> RemoveDoubleBackslashes(text) \o (IF star THEN <<"*">> ELSE <<>>),
         level |-> level]

(***************************************************************************)
(* Process_AddPath for a file setting with AddStar: the image matcher      *)
(* decides whether the value applies and at which level (level0 is the    *)
(* uninitialised Level variable); a leading "|" suppresses the star.       *)
(* The result is the list with the pattern appended, or unchanged.        *)
(***************************************************************************)
Process_AddPath(groups, image, list, r, level0) ==
    LET v == Process_MatchImageAndGetValue(groups, r, image, level0)
    IN  IF v = None THEN list
        ELSE IF Head(v.val) = "|"
        THEN Append(list, Process_AddPath_2(Tail(v.val), FALSE, v.level))
        ELSE Append(list, Process_AddPath_2(v.val, TRUE, v.level))

(***************************************************************************)
(* Process_GetPaths: every value in order.  A negated value of a Closed   *)
(* list applies to every image when the process runs an image from inside *)
(* the box and always_close_for_boxed is set: the image matcher is cut    *)
(* off (or the value skipped when it has no comma).                       *)
(***************************************************************************)
ClosedForBoxed(r) == [img |-> NoImg, inv |-> FALSE, val |-> r.val]

Process_GetPaths(groups, image, fromBox, alwaysClose, kind, values, level0) ==
    LET step(list, r) ==
            IF kind = "Closed" /\ r.inv /\ fromBox /\ alwaysClose
            THEN IF r.img = NoImg THEN list
                 ELSE Process_AddPath(groups, image, list, ClosedForBoxed(r), level0)
            ELSE Process_AddPath(groups, image, list, r, level0)
    IN  FoldLeft(step, <<>>, values)

(***************************************************************************)
(* Pattern_MatchPathListEx (from the specification): every matching       *)
(* pattern of the list in order replaces the running best when its level  *)
(* is lower, or its level equal and specificity higher, or both equal and *)
(* it has fewer wildcards.  Returns the new best and whether it changed.  *)
(***************************************************************************)
Better(pat, best) ==
    \/ pat.level < best.level
    \/ pat.level = best.level /\ Specificity(pat.src) > best.len
    \/ pat.level = best.level /\ Specificity(pat.src) = best.len /\ Wildcards(pat.src) < best.wildc

Pattern_MatchPathListEx(path, list, best) ==
    LET step(acc, pat) ==
            IF Glob(pat.src, path) /\ Better(pat, acc.best)
            THEN [best |-> [level |-> pat.level, len |-> Specificity(pat.src),
                            wildc |-> Wildcards(pat.src)],
                  hit  |-> TRUE]
            ELSE acc
    IN  FoldLeft(step, [best |-> best, hit |-> FALSE], list)

\* Mutant: the Closed list ends the search even with rule specificity.
RECURSIVE MatchLists_ClosedFinal(_, _, _, _, _)
MatchLists_ClosedFinal(path, lists, specific, i, acc) ==
    IF i > 5 THEN acc.class
    ELSE LET r == Pattern_MatchPathListEx(path, lists[Kinds[i]], acc.best)
             a == IF r.hit THEN [best |-> r.best, class |-> ClassOf[Kinds[i]]] ELSE acc
         IN  IF r.hit /\ (~specific \/ i = 1) /\ i <= 3 THEN a.class
             ELSE MatchLists_ClosedFinal(path, lists, specific, i + 1, a)

(***************************************************************************)
(* Process_MatchPathEx: the default class (closed for a network path when *)
(* file_block_network_files is set, else normal), then the Closed, Write, *)
(* Read, Normal and Open lists in turn.  A list that improves the running *)
(* best sets the class; without rule specificity the Closed, Write and    *)
(* Read lists end the search when they do.                                *)
(***************************************************************************)
RECURSIVE MatchLists(_, _, _, _, _)
MatchLists(path, lists, specific, i, acc) ==
    IF i > 5 THEN acc.class
    ELSE LET r == Pattern_MatchPathListEx(path, lists[Kinds[i]], acc.best)
             a == IF r.hit THEN [best |-> r.best, class |-> ClassOf[Kinds[i]]] ELSE acc
         IN  IF r.hit /\ ~specific /\ i <= 3 THEN a.class
             ELSE MatchLists(path, lists, specific, i + 1, a)

\* Mutant: no default class when no list matches (mp_flags left 0).
Process_MatchPathEx_NoDefault(path, lists, specific, network) ==
    MatchLists(path, lists, specific, 1,
               [best |-> [level |-> 3, len |-> 0, wildc |-> WildcNone], class |-> "none"])

Process_MatchPathEx(path, lists, specific, network) ==
    MatchLists(path, lists, specific, 1,
               [best  |-> [level |-> 3, len |-> 0, wildc |-> WildcNone],
                class |-> IF network THEN "closed" ELSE "normal"])

(***************************************************************************)
(* Process_MatchPath (the classic matcher): the first Closed pattern that  *)
(* matches the path, or the path with a backslash appended when it does   *)
(* not end in one; only then the Open list the same way.                  *)
(***************************************************************************)
MatchesWithSlash(pat, path) ==
    \/ Glob(pat.src, path)
    \/ Last(path) # "\\" /\ Glob(pat.src, Append(path, "\\"))

Process_MatchPath(path, openList, closedList) ==
    CASE \E i \in 1..Len(closedList) : MatchesWithSlash(closedList[i], path) -> "closed"
      [] \E i \in 1..Len(openList) : MatchesWithSlash(openList[i], path)     -> "open"
      [] OTHER                                                                -> "none"

-----------------------------------------------------------------------------
(***************************************************************************)
(* One process: its five file lists are built one after the other         *)
(* (Process_GetPaths per list), then it asks for the class of a path,     *)
(* through Process_MatchPathEx or through the classic matcher on the       *)
(* Closed and Open lists.                                                  *)
(***************************************************************************)
CONSTANTS GroupConfs

VARIABLES
    groups, image,
    fromBox,        \* proc->image_from_box
    alwaysClose,    \* proc->always_close_for_boxed
    specific,       \* proc->use_rule_specificity
    conf,           \* the configured values of each list
    lists,          \* the built pattern lists
    next,           \* index in Kinds of the next list to build; 6 when all are
    qpath, network, \* the query: the path and whether it is a network path
    result,         \* the class returned
    matcher         \* "ex" or "classic", None before the query

vars == <<groups, image, fromBox, alwaysClose, specific, conf, lists, next,
          qpath, network, result, matcher>>

Pattern == [src : Seq(STRING), level : 0..LevelNone]

TypeOK ==
    /\ lists \in [KindSet -> Seq(Pattern)]
    /\ next \in 1..6
    /\ result \in {"closed", "write", "read", "normal", "open", "none", None}
    /\ matcher = "ex" => result \in Range(ClassOf)
    /\ matcher \in {"ex", "classic", None}

Init ==
    /\ groups \in GroupConfs
    /\ image \in Images
    /\ fromBox \in BOOLEAN
    /\ alwaysClose \in BOOLEAN
    /\ specific \in BOOLEAN
    /\ conf \in ListConfs
    /\ lists = [k \in KindSet |-> <<>>]
    /\ next = 1
    /\ qpath = None /\ network = FALSE /\ result = None /\ matcher = None

\* Process_GetPaths for the next list; Level in Process_AddPath is read
\* uninitialised for a value with an empty image matcher, any ULONG.
BuildList ==
    /\ next <= 5
    /\ \E level0 \in 0..LevelNone :
          lists' = [lists EXCEPT ![Kinds[next]] =
                       Process_GetPaths(groups, image, fromBox, alwaysClose, Kinds[next],
                                        conf[Kinds[next]], level0)]
    /\ next' = next + 1
    /\ UNCHANGED <<groups, image, fromBox, alwaysClose, specific, conf, qpath, network, result, matcher>>

MatchPathEx ==
    /\ next = 6 /\ matcher = None
    /\ \E q \in QueryPaths, n \in BOOLEAN :
          /\ qpath' = q /\ network' = n
          /\ result' = Process_MatchPathEx(q, lists, specific, n)
    /\ matcher' = "ex"
    /\ UNCHANGED <<groups, image, fromBox, alwaysClose, specific, conf, lists, next>>

MatchPath ==
    /\ next = 6 /\ matcher = None
    /\ \E q \in QueryPaths :
          /\ qpath' = q
          /\ result' = Process_MatchPath(q, lists["Open"], lists["Closed"])
    /\ matcher' = "classic"
    /\ UNCHANGED <<groups, image, fromBox, alwaysClose, specific, conf, lists, next, network>>

Next == BuildList \/ MatchPathEx \/ MatchPath \/ (matcher # None /\ UNCHANGED vars)

Spec == Init /\ [][Next]_vars

-----------------------------------------------------------------------------
\* The matching patterns of the built lists, as <<list index, position>>.
Hits(q) == {h \in UNION {{<<i, j>> : j \in 1..Len(lists[Kinds[i]])} : i \in 1..5} :
                Glob(lists[Kinds[h[1]]][h[2]].src, q)}

PatAt(h) == lists[Kinds[h[1]]][h[2]]

\* The tie-break order of the specification: lower level, then higher
\* specificity, then fewer wildcards, then the earlier list and position.
Precedes(h1, h2) ==
    LET a == PatAt(h1)  b == PatAt(h2)
    IN  \/ a.level < b.level
        \/ a.level = b.level /\ Specificity(a.src) > Specificity(b.src)
        \/ a.level = b.level /\ Specificity(a.src) = Specificity(b.src)
            /\ \/ Wildcards(a.src) < Wildcards(b.src)
               \/ Wildcards(a.src) = Wildcards(b.src)
                  /\ (h1[1] < h2[1] \/ (h1[1] = h2[1] /\ h1[2] <= h2[2]))

DefaultClass == IF network THEN "closed" ELSE "normal"

RankedClass(q) ==
    IF Hits(q) = {} THEN DefaultClass
    ELSE ClassOf[Kinds[(CHOOSE h \in Hits(q) : \A g \in Hits(q) : Precedes(h, g))[1]]]

(***************************************************************************)
(* With rule specificity Process_MatchPathEx returns the class of the     *)
(* best rule over all five lists: a rule for the exact image beats one    *)
(* for "*" or a global one whatever list it is in, then the rule matching *)
(* more literal characters wins, then the one with fewer wildcards, and   *)
(* only then the list order closed, write, read, normal, open.            *)
(***************************************************************************)
MatchPathExRanked ==
    matcher = "ex" /\ specific => result = RankedClass(qpath)

(***************************************************************************)
(* Without rule specificity the first list in the order closed, write,    *)
(* read, normal, open that has a matching rule decides (specification,    *)
(* section 4.4).                                                          *)
(***************************************************************************)
FirstListClass(q) ==
    IF Hits(q) = {} THEN DefaultClass
    ELSE ClassOf[Kinds[CHOOSE i \in 1..5 : \E h \in Hits(q) : h[1] = i /\ \A g \in Hits(q) : i <= g[1]]]

MatchPathExFirstList ==
    matcher = "ex" /\ ~specific => result = FirstListClass(qpath)

(***************************************************************************)
(* Every rule of a list carries one of the four match levels of the       *)
(* specification (exact, negated, "*", global default), as computed by   *)
(* Process_MatchImageAndGetValue for the value Process_AddPath adds.      *)
(***************************************************************************)
PatternLevelsDefined ==
    \A k \in KindSet : \A j \in 1..Len(lists[k]) : lists[k][j].level \in 0..3

=============================================================================
