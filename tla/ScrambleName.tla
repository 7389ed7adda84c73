---------------------------- MODULE ScrambleName ----------------------------
(***************************************************************************)
(* A short name scrambled by File_ScrambleShortName with a snapshot's      *)
(* ScramKey and later unscrambled by File_UnScrambleShortName with the     *)
(* same key.                                                               *)
(***************************************************************************)
EXTENDS ShortNameScrambler

CONSTANTS
    Names,      \* legal 8.3 short names (sequences of WCHARs)
    KeyBytes    \* values tried for each of the four bytes of ScramKey

VARIABLES
    orig,       \* the name the file system reported
    key,        \* ScramKey as its four bytes
    name,       \* the name now in the buffer
    scrambled,  \* the scrambled name, as stored in the snapshot (history)
    stage       \* "input", "scrambled" or "restored"

vars == <<orig, key, name, scrambled, stage>>

TypeOK ==
    /\ name \in Seq(0..65535)
    /\ Len(name) <= 12
    /\ stage \in {"input", "scrambled", "restored"}

Init ==
    /\ orig \in Names
    /\ key \in [0..3 -> KeyBytes]
    /\ name = orig
    /\ scrambled = <<>>
    /\ stage = "input"

ScrambleShortName ==
    /\ stage = "input"
    /\ name' = File_ScrambleShortName(name, key)
    /\ scrambled' = name'
    /\ stage' = "scrambled"
    /\ UNCHANGED <<orig, key>>

UnScrambleShortName ==
    /\ stage = "scrambled"
    /\ name' = File_UnScrambleShortName(name, key)
    /\ stage' = "restored"
    /\ UNCHANGED <<orig, key, scrambled>>

Done == stage = "restored" /\ UNCHANGED vars

Next == ScrambleShortName \/ UnScrambleShortName \/ Done

Spec == Init /\ [][Next]_vars

\* 1-based index of the separator the scrambler used: the last dot of the
\* name, or the one it appended.
SeparatorIndex(n) == IF LastDotPos(n) = -1 THEN Len(n) + 1 ELSE LastDotPos(n) + 1

\* A scrambled suffix character came out as a dot.
DotInScrambledSuffix ==
    \E i \in 1..Len(scrambled) : i > SeparatorIndex(orig) /\ scrambled[i] = Dot

(***************************************************************************)
(* The specification's contract (section 4.1): unscrambling a scrambled    *)
(* name with the same key gives the name back, for every legal short name  *)
(* and every key.                                                          *)
(***************************************************************************)
NameRoundTrip == stage = "restored" => name = orig

(***************************************************************************)
(* The round trip holds whenever no scrambled suffix character is a dot:   *)
(* the appended separator, the space padding and its removal, and the      *)
(* character before the separator are all undone correctly, so a dot in   *)
(* the suffix is the only way the contract fails.                          *)
(***************************************************************************)
NameRoundTripUnlessDotInSuffix ==
    stage = "restored" /\ ~DotInScrambledSuffix => name = orig

=============================================================================
