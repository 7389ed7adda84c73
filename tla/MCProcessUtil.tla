---------------------------- MODULE MCProcessUtil -----------------------------
(***************************************************************************)
(* The process code of the driver (process_util.c) checked in one run: a  *)
(* behaviour either looks up a per-image setting (ProcessPolicy), builds   *)
(* the file lists of a process and classifies a path (ProcessPaths), or    *)
(* terminates a sandboxed process with kill threads (ScheduleKill).  The   *)
(* variable check says which; the other parts keep their initial values.   *)
(***************************************************************************)
EXTENDS Integers, Sequences, TLC

CONSTANTS
    Star, NoImg, EmptyImg, Empty, None,
    Images,
    SetGroupNames, SetVals, SetGroupConfs, SettingConfs,         \* the setting lookup
    PathGroupNames, PathVals, PathGroupConfs, ListConfs, QueryPaths, \* the file lists
    NameImages, NameSettings, Fail                              \* the process-name check

VARIABLES
    sgroups, values, simage, answer, flag, pc,                  \* ProcessPolicy
    groups, image, fromBox, alwaysClose, specific, conf, lists, \* ProcessPaths
    next, qpath, network, result, matcher,
    occupant, nextGen, killed, thread, calls, reason, logged, unload, \* ScheduleKill
    nid, nreported, npaths, nk, nptr, nlookups, nresult, nsetting, npc, \* ProcessName
    check                                                       \* "setting", "paths", "kill" or "name"

Policy == INSTANCE ProcessPolicy
    WITH GroupNames <- SetGroupNames, Vals <- SetVals, GroupConfs <- SetGroupConfs,
         groups <- sgroups, image <- simage

Paths == INSTANCE ProcessPaths
    WITH GroupNames <- PathGroupNames, Vals <- PathVals, GroupConfs <- PathGroupConfs

\* The kill threads: two process ids, three process generations (an id can
\* be freed and reused), delays of 0 and 100 ms (two waits), the reasons 0,
\* a numbered reason and -1 (SBIE1308 logged), two terminate requests.
KillPids == {1, 2}
KillDelays == {0, 100}
KillReasons == {0, 3, -1}

Kill == INSTANCE ScheduleKill
    WITH Pids <- KillPids, TargetPid <- 1, Delays <- KillDelays, Reasons <- KillReasons,
         MaxGen <- 3, MaxKills <- 2

\* The process-name check over the characters a, A, backslash, ?, *, $ and :.
NameChars == {"a", "A", "\\", "?", "*", "$", ":"}
NameLowerOf == [c \in NameChars |-> IF c = "A" THEN "a" ELSE c]

Name == INSTANCE ProcessName
    WITH Images <- NameImages, Settings <- NameSettings, LowerOf <- NameLowerOf, Null <- None,
         idProcess <- nid, reported <- nreported, paths <- npaths, k <- nk,
         lookups <- nlookups, result <- nresult, setting <- nsetting, pc <- npc

policyVars == <<sgroups, values, simage, answer, flag, pc>>

pathVars == <<groups, image, fromBox, alwaysClose, specific, conf, lists, next,
              qpath, network, result, matcher>>

killVars == <<occupant, nextGen, killed, thread, calls, reason, logged, unload>>

nameVars == <<nid, nreported, npaths, nk, nptr, nlookups, nresult, nsetting, npc>>

vars == <<policyVars, pathVars, killVars, nameVars, check>>

PolicyIdle ==
    /\ sgroups = <<>> /\ values = <<>> /\ simage = None
    /\ answer = None /\ flag = None /\ pc = "call"

PathsIdle ==
    /\ groups = <<>> /\ image = None /\ fromBox = FALSE /\ alwaysClose = FALSE
    /\ specific = FALSE /\ conf = <<>> /\ lists = <<>> /\ next = 1
    /\ qpath = None /\ network = FALSE /\ result = None /\ matcher = None

KillIdle == Kill!Init /\ reason = 0

NameIdle ==
    /\ nid = 0 /\ nreported = Fail /\ npaths = <<>> /\ nk = 1 /\ nptr = None
    /\ nlookups = 0 /\ nresult = FALSE /\ nsetting = None /\ npc = "call"

Init ==
    \/ check = "setting" /\ Policy!Init /\ PathsIdle /\ KillIdle /\ NameIdle
    \/ check = "paths" /\ Paths!Init /\ PolicyIdle /\ KillIdle /\ NameIdle
    \/ check = "kill" /\ Kill!Init /\ PolicyIdle /\ PathsIdle /\ NameIdle
    \/ check = "name" /\ Name!Init /\ PolicyIdle /\ PathsIdle /\ KillIdle

KillRetry(i) == check = "kill" /\ Kill!KillRetry(i) /\ UNCHANGED <<policyVars, pathVars, nameVars, check>>

Next ==
    \/ check = "setting" /\ Policy!Next /\ UNCHANGED <<pathVars, killVars, nameVars, check>>
    \/ check = "paths" /\ Paths!Next /\ UNCHANGED <<policyVars, killVars, nameVars, check>>
    \/ check = "kill" /\ Kill!Next /\ UNCHANGED <<policyVars, pathVars, nameVars, check>>
    \/ check = "name" /\ Name!Next /\ UNCHANGED <<policyVars, pathVars, killVars, check>>

\* A kill thread is a system thread: once started it keeps being scheduled.
Spec == Init /\ [][Next]_vars /\ \A i \in 1..2 : WF_vars(KillRetry(i))

\* The part being checked keeps its types.
TypeOK ==
    /\ check = "setting" => Policy!TypeOK
    /\ check = "paths" => Paths!TypeOK
    /\ check = "kill" => Kill!TypeOK
    /\ check = "name" => Name!TypeOK

\* ProcessPolicy!GetConfMostSpecific: Process_GetConfEx returns a value of
\* the most specific kind that applies to the image.
GetConfMostSpecific == check = "setting" => Policy!GetConfMostSpecific

\* ProcessPolicy!GetConfFirstOnTie: among values of equal match level the
\* first in configuration order wins.
GetConfFirstOnTie == check = "setting" => Policy!GetConfFirstOnTie

\* ProcessPolicy!GroupMatchWithinDepth: Process_MatchImage on a group holds
\* exactly when the image is a member up to the nesting bound.
GroupMatchWithinDepth == check = "setting" => Policy!GroupMatchWithinDepth

\* ProcessPaths!MatchPathExRanked: with rule specificity the best rule over
\* all five lists decides the class.
MatchPathExRanked == check = "paths" => Paths!MatchPathExRanked

\* ProcessPaths!MatchPathExFirstList: without rule specificity the first
\* list with a matching rule decides.
MatchPathExFirstList == check = "paths" => Paths!MatchPathExFirstList

\* ProcessPaths!PatternLevelsDefined: every rule of a list carries one of
\* the four match levels.
PatternLevelsDefined == check = "paths" => Paths!PatternLevelsDefined

\* ScheduleKill!LogAtMostOnce: MSG_2314 is logged at most once for a
\* process, and never after SBIE1308.
LogAtMostOnce == check = "kill" => Kill!LogAtMostOnce

\* ScheduleKill!KillThreadsEnd: every kill thread ends.  The other parts
\* keep every kill thread stopped.
KillThreadsEnd == Kill!KillThreadsEnd

\* ScheduleKill!TargetKilled: a started kill thread kills the sandboxed
\* process unless it exits by itself or the driver unloads first.
TargetKilled == Kill!TargetKilled

\* ProcessName!NameCheckMatchesReference: Process_CheckProcessName admits
\* a process exactly when a "$:" entry names it or is "$:*", reports the
\* first such entry, and fetches the name once.
NameCheckMatchesReference == check = "name" => Name!NameCheckMatchesReference

-----------------------------------------------------------------------------
MCImages == {"a.exe", "b.exe"}

(***************************************************************************)
(* Settings: six group names and the three texts y, n, x.  The group      *)
(* configurations split a group over two ProcessGroup values, make two    *)
(* groups name each other, nest groups five deep (the deepest member is   *)
(* reached) and six deep (it is not).  A setting has up to two values of  *)
(* every kind.                                                            *)
(***************************************************************************)
G(i) == "<g" \o ToString(i) \o ">"

MCSetGroupNames == {G(i) : i \in 1..6}

MCSetVals == {"y", "n", "x"}

Entry(g, ms) == [name |-> g, members |-> ms]

\* g1 .. g(n-1) each name the next group; gn holds a.exe.
Chain(n) == [i \in 1..n |-> IF i < n THEN Entry(G(i), <<G(i + 1)>>) ELSE Entry(G(i), <<"a.exe">>)]

MCSetGroupConfs ==
    { <<>>,
      << Entry(G(1), <<"b.exe">>), Entry(G(1), <<G(2)>>), Entry(G(2), <<"a.exe">>) >>,
      << Entry(G(1), <<G(2)>>), Entry(G(2), <<G(1), "b.exe">>) >>,
      << Entry(G(1), <<>>), Entry(G(2), <<Star>>) >>,
      Chain(5),
      Chain(6) }

\* A rule as Conf_Get returns it; a negation needs an image matcher.
MCRules ==
    {r \in [img : {NoImg, EmptyImg, "a.exe", Star, G(1)}, inv : BOOLEAN, val : MCSetVals \cup {Empty}] :
        r.img = NoImg => ~r.inv}

MCSettingConfs == {<<>>} \cup {<<r>> : r \in MCRules} \cup {<<r, q>> : r, q \in MCRules}

(***************************************************************************)
(* File rules over the characters c, d and backslash.  The values cover   *)
(* a suffix star added, an explicit "|" exact rule, a doubled backslash   *)
(* that is collapsed, a leading wildcard, a negated Closed rule and rules *)
(* for an image, for "*" and for a group.  The queries are a directory    *)
(* with and without its backslash, a file in it and a longer name.        *)
(***************************************************************************)
MCPathGroupNames == {"<g1>"}

P1 == <<"c">>
P2 == <<"c", "\\">>
P3 == <<"c", "\\", "d">>
P4 == <<"|", "c", "\\", "d">>
P5 == <<"c", "\\", "\\", "d">>
P6 == <<"*", "\\", "d">>

MCPathVals == {P1, P2, P3, P4, P5, P6}

R(img, inv, val) == [img |-> img, inv |-> inv, val |-> val]

MCPathGroupConfs == { <<>>, << [name |-> "<g1>", members |-> <<"a.exe">>] >> }

MCListConfs ==
    [Closed : { <<>>, <<R(NoImg, FALSE, P2)>>, <<R("a.exe", TRUE, P3)>> },
     Write  : { <<>>, <<R(Star, FALSE, P3)>> },
     Read   : { <<>>, <<R(NoImg, FALSE, P6)>> },
     Normal : { <<>>, <<R("a.exe", FALSE, P1)>> },
     Open   : { <<>>, <<R(NoImg, FALSE, P4)>>, <<R("a.exe", FALSE, P5)>>,
                <<R(NoImg, FALSE, P3), R("<g1>", FALSE, P1)>> }]

\* A Closed value with an empty image matcher, ",c\".
MCListConfsEmptyImg ==
    [Closed : { <<R(EmptyImg, FALSE, P2)>> },
     Write  : { <<>> }, Read : { <<>> }, Normal : { <<>> },
     Open   : { <<>>, <<R(NoImg, FALSE, P3)>> }]

(***************************************************************************)
(* Process names: every reported image file name of up to three of the    *)
(* characters a, A and backslash (the empty one, one ending in a          *)
(* backslash, and names differing only in case among them).  The open      *)
(* lists hold up to two entries: "$:" entries for a, A, "*", "*a", "?",    *)
(* "a\", the too-short "$:", and entries that are not "$:" rules.          *)
(***************************************************************************)
MCNameImages == UNION {[1..n -> {"a", "A", "\\"}] : n \in 0..3}

NameEntries ==
    { <<"$", ":">>, <<"$", ":", "a">>, <<"$", ":", "A">>, <<"$", ":", "*">>,
      <<"$", ":", "*", "a">>, <<"$", ":", "?">>, <<"$", ":", "a", "\\">>,
      <<"a">>, <<"$", "a", "a">> }

MCNameSettings == {<<>>} \cup {<<e>> : e \in NameEntries} \cup {<<e, f>> : e, f \in NameEntries}

MCQueryPaths == {<<"c">>, <<"c", "\\">>, P3, <<"c", "\\", "d", "d">>}

=============================================================================
