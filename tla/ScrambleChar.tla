---------------------------- MODULE ScrambleChar ----------------------------
(***************************************************************************)
(* One character through File_Scramble_Char forward, as                   *)
(* File_ScrambleShortName does, and back, as File_UnScrambleShortName      *)
(* does, with the same key byte.                                           *)
(***************************************************************************)
EXTENDS ShortNameScrambler

CONSTANTS
    Chars,      \* WCHAR values to try
    KeyBytes    \* key bytes to try (unsigned, 0..255)

VARIABLES
    wch,        \* the character of the short name
    keyByte,    \* the byte of ScramKey used for its position
    out,        \* the character now in the buffer
    stage       \* "input", "scrambled" or "restored"

vars == <<wch, keyByte, out, stage>>

TypeOK ==
    /\ out \in 0..65535
    /\ stage \in {"input", "scrambled", "restored"}

Init ==
    /\ wch \in Chars
    /\ keyByte \in KeyBytes
    /\ out = wch
    /\ stage = "input"

\* File_ScrambleShortName, lines 154-156.
Scramble ==
    /\ stage = "input"
    /\ out' = File_Scramble_Char(out, SignedChar(keyByte), TRUE)
    /\ stage' = "scrambled"
    /\ UNCHANGED <<wch, keyByte>>

\* File_UnScrambleShortName, lines 175-177.
UnScramble ==
    /\ stage = "scrambled"
    /\ out' = File_Scramble_Char(out, SignedChar(keyByte), FALSE)
    /\ stage' = "restored"
    /\ UNCHANGED <<wch, keyByte>>

Done == stage = "restored" /\ UNCHANGED vars

Next == Scramble \/ UnScramble \/ Done

Spec == Init /\ [][Next]_vars

(***************************************************************************)
(* File_Scramble_Char is the specification's scrambleChar: after the      *)
(* forward call the character is the one the key byte moves it to in the  *)
(* 85-character alphabet (and unchanged when it is not in the alphabet),  *)
(* and the reverse call gives the original character back.  This checks  *)
(* the compaction and re-expansion loops over reserved_ch and both        *)
(* wrap-arounds against a direct definition.                              *)
(***************************************************************************)
CharMatchesReference ==
    /\ stage = "scrambled" => out = RefScrambleChar(wch, keyByte, TRUE)
    /\ stage = "restored" => out = wch

=============================================================================
