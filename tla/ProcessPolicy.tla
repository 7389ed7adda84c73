---------------------------- MODULE ProcessPolicy ----------------------------
(***************************************************************************)
(* Process_GetConf and Process_GetConf_bool (process_util.c, lines         *)
(* 407-449) for one process: which value of a per-image setting applies.   *)
(***************************************************************************)
EXTENDS ProcessImage

(***************************************************************************)
(* One lookup: a configuration (the ProcessGroup values and the values of  *)
(* one setting) and the image of the calling process.                      *)
(***************************************************************************)
CONSTANTS GroupConfs, SettingConfs

VARIABLES groups, values, image, answer, flag, pc

vars == <<groups, values, image, answer, flag, pc>>

TypeOK ==
    /\ answer \in [val : Vals, level : 0..LevelNone] \cup {None}
    /\ flag \in BOOLEAN \cup {None}
    /\ pc \in {"call", "done"}

Init ==
    /\ groups \in GroupConfs
    /\ values \in SettingConfs
    /\ image \in Images
    /\ answer = None
    /\ flag = None
    /\ pc = "call"

\* Process_GetConf and Process_GetConf_bool (default FALSE) for the caller.
GetConf ==
    /\ pc = "call"
    /\ answer' = Process_GetConfEx(groups, values, image)
    /\ flag' = Process_GetConfEx_bool(groups, values, image, FALSE)
    /\ pc' = "done"
    /\ UNCHANGED <<groups, values, image>>

Next == GetConf \/ (pc = "done" /\ UNCHANGED vars)

Spec == Init /\ [][Next]_vars

-----------------------------------------------------------------------------
\* The candidates of the lookup: the values that apply to the image.
Candidates ==
    {i \in 1..Len(values) : Process_MatchImageAndGetValue(groups, values[i], image, LevelNone) # None}

LevelOf(i) == Process_MatchImageAndGetValue(groups, values[i], image, LevelNone).level

MostSpecific == {i \in Candidates : \A j \in Candidates : LevelOf(i) <= LevelOf(j)}

(***************************************************************************)
(* Process_GetConfEx returns a value of the most specific kind that        *)
(* applies to the image (exact before negated before "*" before global),   *)
(* and nothing only when no value applies.                                 *)
(***************************************************************************)
GetConfMostSpecific ==
    pc = "done" =>
        IF Candidates = {} THEN answer = None
        ELSE \E i \in MostSpecific : answer = [val |-> values[i].val, level |-> LevelOf(i)]

(***************************************************************************)
(* Among values of equal match level the first in configuration order     *)
(* wins (specification, section 4.4: "ties keep the first-seen").          *)
(***************************************************************************)
GetConfFirstOnTie ==
    pc = "done" /\ Candidates # {} =>
        LET i == CHOOSE i \in MostSpecific : \A j \in MostSpecific : i <= j
        IN  answer.val = values[i].val

(***************************************************************************)
(* Reference for process groups: the groups reached from g through at     *)
(* most MaxGroupDepth - 2 nested references (g is searched at depth 2, a   *)
(* group it names at depth 3, ...), each ProcessGroup value naming a group *)
(* adding to its members.                                                  *)
(***************************************************************************)
Members(g) == UNION {ToSet(e.members) : e \in {e \in ToSet(groups) : e.name = g}}

RECURSIVE Reach(_, _)
Reach(g, k) ==
    IF k = 0 THEN {g}
    ELSE Reach(g, k - 1) \cup UNION {Members(h) \cap GroupNames : h \in Reach(g, k - 1)}

InGroup(g, img) == \E h \in Reach(g, MaxGroupDepth - 2) : Members(h) \cap {img, Star} # {}

(***************************************************************************)
(* Process_MatchImage on "<group>" holds exactly when the image, or "*",   *)
(* is a member of the group or of a group nested in it up to the depth     *)
(* bound, whatever cycles the group definitions contain and however the   *)
(* members are split over several ProcessGroup values.                     *)
(***************************************************************************)
GroupMatchWithinDepth ==
    \A g \in GroupNames : Process_MatchImage(groups, g, image, 1) <=> InGroup(g, image)

=============================================================================
