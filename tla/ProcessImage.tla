---------------------------- MODULE ProcessImage -----------------------------
(***************************************************************************)
(* The per-image configuration lookup of the driver (process_util.c):      *)
(* Process_MatchImage, Process_MatchImageGroup (lines 152-310),            *)
(* Process_MatchImageAndGetValue (318-369), Process_GetConfEx (377-399)    *)
(* and Process_GetConfEx_bool (418-438).                                   *)
(*                                                                         *)
(* A setting is the sequence of its values in configuration order          *)
(* (Conf_Get with index 0, 1, ...).  A value is a record: the image        *)
(* matcher before the comma (NoImg when there is no comma, EmptyImg when   *)
(* the comma comes first), whether it is negated with '!', and the text    *)
(* after the comma (Empty when there is none).  An image pattern is an     *)
(* image name, Star (the pattern "*") or a group name "<...>".  Variable   *)
(* expansion and wildcard patterns other than "*" are left out; so are the *)
(* allocation failures, which make a match fail.                           *)
(***************************************************************************)
EXTENDS Naturals, Sequences, SequencesExt

CONSTANTS
    Images,         \* process image names
    GroupNames,     \* process group names, "<name>"
    Vals,           \* setting texts
    Star, NoImg, EmptyImg, Empty, None

\* An image matcher, and a rule as Conf_Get returns it.
ImgPat == Images \cup {Star} \cup GroupNames

Rule == [img : ImgPat \cup {NoImg, EmptyImg}, inv : BOOLEAN, val : Vals \cup {Empty}]

\* One ProcessGroup=<name>,member,member,... value.
GroupEntry == [name : GroupNames, members : Seq(ImgPat)]

\* The depth at which Process_MatchImageGroup stops descending into groups.
MaxGroupDepth == 6

\* ULONG -1, the "no level" of Process_GetConfEx: above every match level.
LevelNone == 4

(***************************************************************************)
(* Process_MatchImage and Process_MatchImageGroup.  A group is tested by   *)
(* every ProcessGroup value that names it (the loop runs until a match),   *)
(* and each member is either an image pattern (Process_MatchImage at       *)
(* depth + 1) or a nested group, followed only while depth < 6.  A         *)
(* ProcessGroup value with no members is skipped (value_len <= group_len   *)
(* + 1).                                                                   *)
(***************************************************************************)
RECURSIVE Process_MatchImageGroup(_, _, _, _), Process_MatchImage(_, _, _, _)

\* Mutant: only the first ProcessGroup value naming the group is searched.
Process_MatchImageGroup_FirstEntry(groups, g, image, depth) ==
    LET es == SelectSeq(groups, LAMBDA e : e.name = g /\ Len(e.members) > 0)
    IN  /\ Len(es) > 0
        /\ \E i \in 1..Len(es[1].members) :
              LET m == es[1].members[i]
              IN  IF m \in GroupNames
                  THEN depth < MaxGroupDepth /\ Process_MatchImageGroup(groups, m, image, depth + 1)
                  ELSE Process_MatchImage(groups, m, image, depth + 1)

Process_MatchImageGroup(groups, g, image, depth) ==
    \E e \in ToSet(groups) :
        /\ e.name = g
        /\ Len(e.members) > 0
        /\ \E i \in 1..Len(e.members) :
              LET m == e.members[i]
              IN  IF m \in GroupNames
                  THEN depth < MaxGroupDepth /\ Process_MatchImageGroup(groups, m, image, depth + 1)
                  ELSE Process_MatchImage(groups, m, image, depth + 1)

Process_MatchImage(groups, pat, image, depth) ==
    IF pat \in GroupNames THEN Process_MatchImageGroup(groups, pat, image, depth + 1)
    ELSE pat = Star \/ pat = image

\* Mutant: the test for an empty text after the comma is missing.
Process_MatchImageAndGetValue_AllowsEmpty(groups, r, image, level0) ==
    LET matched == r.img \in {NoImg, EmptyImg}
                   \/ (Process_MatchImage(groups, r.img, image, 1) # r.inv)
        level   == CASE r.img = NoImg    -> 3
                     [] r.img = EmptyImg -> level0
                     [] r.img = Star     -> 2
                     [] OTHER            -> IF r.inv THEN 1 ELSE 0
    IN  IF ~matched THEN None ELSE [val |-> r.val, level |-> level]

(***************************************************************************)
(* Process_MatchImageAndGetValue: None when an image matcher is present    *)
(* and does not match (after negation) or when nothing follows the comma; *)
(* else the text and the match level: 0 exact, 1 by negation, 2 for "*",  *)
(* 3 without a matcher.  With an empty matcher (",text") *pLevel is not   *)
(* written, so the level is whatever the caller's variable held: level0.  *)
(***************************************************************************)
Process_MatchImageAndGetValue(groups, r, image, level0) ==
    LET matched == r.img \in {NoImg, EmptyImg}
                   \/ (Process_MatchImage(groups, r.img, image, 1) # r.inv)
        level   == CASE r.img = NoImg    -> 3
                     [] r.img = EmptyImg -> level0
                     [] r.img = Star     -> 2
                     [] OTHER            -> IF r.inv THEN 1 ELSE 0
    IN  IF ~matched \/ r.val = Empty THEN None
        ELSE [val |-> r.val, level |-> level]

(***************************************************************************)
(* Process_GetConfEx: every value of the setting in order; one with a      *)
(* level not above the best so far replaces it.                            *)
(***************************************************************************)
\* Mutant: the comparison is reversed, the worst level wins.
Process_GetConfEx_Reversed(groups, values, image) ==
    LET step(found, r) ==
            LET v == Process_MatchImageAndGetValue(groups, r, image, LevelNone)
            IN  IF v = None \/ (found # None /\ v.level < found.level) THEN found ELSE v
    IN  FoldLeft(step, None, values)

Process_GetConfEx(groups, values, image) ==
    LET step(found, r) ==
            LET v == Process_MatchImageAndGetValue(groups, r, image, LevelNone)
            IN  IF v = None \/ (found # None /\ v.level > found.level) THEN found ELSE v
    IN  FoldLeft(step, None, values)

\* Process_GetConfEx_bool: 'y' or 'n' as the first character, else def.
Process_GetConfEx_bool(groups, values, image, def) ==
    LET v == Process_GetConfEx(groups, values, image)
    IN  CASE v = None       -> def
          [] v.val = "y"    -> TRUE
          [] v.val = "n"    -> FALSE
          [] OTHER          -> def

=============================================================================
