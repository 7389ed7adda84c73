------------------------- MODULE ShortNameScrambler -------------------------
(***************************************************************************)
(* file_snapshots.c, lines 75-183: the reversible scrambling of the 8.3    *)
(* short names of files copied into a snapshot.  A WCHAR is an integer in  *)
(* 0..65535, a short name a sequence of them (without its terminating      *)
(* NUL) and a scramble key the four bytes of the 32-bit ScramKey in memory *)
(* order (little endian): key[i] is byte i of ScramKey, read unsigned.   *)
(***************************************************************************)
EXTENDS Integers, SequencesExt

Space == 32     \* L' '
Dot   == 46     \* L'.'

\* reserved_ch[]: " * / : < > ? \ |
Reserved == <<34, 42, 47, 58, 60, 62, 63, 92, 124>>

ReservedCount == 9

\* max_ch = 0x7E - reserved_count - 0x20
MaxCh == 126 - ReservedCount - 32

\* The key byte is passed as a (signed) char into an int parameter.
SignedChar(b) == IF b >= 128 THEN b - 256 ELSE b

(***************************************************************************)
(* The two loops of File_Scramble_Char over reserved_ch: the first walks   *)
(* the list from its end and steps the value down past each reserved      *)
(* character below it, the second walks it from the start and steps the   *)
(* value up past each reserved character at or below it.                  *)
(***************************************************************************)
RECURSIVE CompactReserved(_, _)
CompactReserved(u, i) ==
    IF i > ReservedCount THEN u
    ELSE CompactReserved(IF u > Reserved[ReservedCount - i + 1] THEN u - 1 ELSE u, i + 1)

RECURSIVE ExpandReserved(_, _)
ExpandReserved(u, i) ==
    IF i > ReservedCount THEN u
    ELSE ExpandReserved(IF u >= Reserved[i] THEN u + 1 ELSE u, i + 1)

\* Mutant: the wrap-around test uses > instead of >=.
File_Scramble_Char_WrapOffByOne(wValue, Key, scram) ==
    LET uValue == wValue % 128
        k      == IF scram THEN (Key % 128) % MaxCh ELSE -((Key % 128) % MaxCh)
        v      == CompactReserved(uValue, 1) - 32 + k
        w      == IF v > MaxCh THEN v - MaxCh ELSE IF v < 0 THEN v + MaxCh ELSE v
    IN  IF uValue < 32 \/ uValue >= 126 \/ uValue \in ToSet(Reserved) THEN wValue
        ELSE ExpandReserved(w + 32, 1)

\* Mutant: a negative sum is not wrapped back into the alphabet.
File_Scramble_Char_NoNegativeWrap(wValue, Key, scram) ==
    LET uValue == wValue % 128
        k      == IF scram THEN (Key % 128) % MaxCh ELSE -((Key % 128) % MaxCh)
        v      == CompactReserved(uValue, 1) - 32 + k
        w      == IF v >= MaxCh THEN v - MaxCh ELSE v
    IN  IF uValue < 32 \/ uValue >= 126 \/ uValue \in ToSet(Reserved) THEN wValue
        ELSE ExpandReserved(w + 32, 1)

(***************************************************************************)
(* File_Scramble_Char.  wValue & 0x7F keeps the low seven bits; Key &=     *)
(* 0x7F on the two's complement int is Key % 128; the while loop reduces   *)
(* it modulo max_ch.  The result is the re-expanded uValue, so the high    *)
(* bits of wValue are not carried over.                                    *)
(***************************************************************************)
File_Scramble_Char(wValue, Key, scram) ==
    LET uValue == wValue % 128
        k      == IF scram THEN (Key % 128) % MaxCh ELSE -((Key % 128) % MaxCh)
        v      == CompactReserved(uValue, 1) - 32 + k
        w      == IF v >= MaxCh THEN v - MaxCh ELSE IF v < 0 THEN v + MaxCh ELSE v
    IN  IF uValue < 32 \/ uValue >= 126 \/ uValue \in ToSet(Reserved) THEN wValue
        ELSE ExpandReserved(w + 32, 1)

\* wcsrchr(ShortName, L'.') as a 0-based position, -1 when there is none.
LastDotPos(s) == SelectLastInSeq(s, LAMBDA c : c = Dot) - 1

\* Scramble (or unscramble) the character before the dot at 0-based dot_pos
\* with key byte 0 and the three after it with key bytes 1..3; positions at
\* or past the end of s are left alone (they hold the NUL or lie beyond it).
ScrambleAround(s, dotPos, key, scram) ==
    [i \in 1..Len(s) |->
        IF i = dotPos /\ dotPos > 0
            THEN File_Scramble_Char(s[i], SignedChar(key[0]), scram)
        ELSE IF i - 1 - dotPos \in 1..3
            THEN File_Scramble_Char(s[i], SignedChar(key[i - 1 - dotPos]), scram)
        ELSE s[i]]

(***************************************************************************)
(* File_ScrambleShortName: append a dot when there is none, pad the suffix *)
(* with spaces to three characters, then scramble.  When the 12-character  *)
(* buffer runs out first the function returns without updating the        *)
(* length, so the visible name is unchanged.                               *)
(***************************************************************************)
File_ScrambleShortName(name, key) ==
    LET dp      == LastDotPos(name)
        dotPos  == IF dp = -1 THEN Len(name) ELSE dp
        withDot == IF dp = -1 THEN Append(name, Dot) ELSE name
        padLen  == IF dotPos + 4 > Len(withDot) THEN dotPos + 4 - Len(withDot) ELSE 0
        padded  == withDot \o [i \in 1..padLen |-> Space]
    IN  IF \/ dp = -1 /\ Len(name) >= 12
           \/ padLen > 0 /\ dotPos + 4 > 12
        THEN name
        ELSE ScrambleAround(padded, dotPos, key, TRUE)

RECURSIVE StripTrailingSpaces(_)
StripTrailingSpaces(s) ==
    IF Len(s) > 0 /\ Last(s) = Space THEN StripTrailingSpaces(Front(s)) ELSE s

\* Mutant: the dot added by the scrambler is not removed again.
File_UnScrambleShortName_KeepsDot(name, key) ==
    LET dp == LastDotPos(name)
    IN  IF dp = -1 THEN name
        ELSE StripTrailingSpaces(ScrambleAround(name, dp, key, FALSE))

(***************************************************************************)
(* File_UnScrambleShortName: find the last dot, unscramble the four        *)
(* characters around it, strip trailing spaces, then one trailing dot.     *)
(***************************************************************************)
File_UnScrambleShortName(name, key) ==
    LET dp       == LastDotPos(name)
        stripped == StripTrailingSpaces(ScrambleAround(name, dp, key, FALSE))
    IN  IF dp = -1 THEN name
        ELSE IF Len(stripped) > 0 /\ Last(stripped) = Dot THEN Front(stripped)
        ELSE stripped

-----------------------------------------------------------------------------
(***************************************************************************)
(* Reference: the specification's scrambleChar (section 4.1).  The legal  *)
(* alphabet is [0x20, 0x7E) without the reserved characters; a legal      *)
(* character moves by the key byte modulo its size, any other character   *)
(* is returned unchanged.                                                 *)
(***************************************************************************)
Alphabet == SelectSeq([i \in 1..94 |-> 31 + i], LAMBDA c : c \notin ToSet(Reserved))

AlphabetSet == ToSet(Alphabet)

RankOf(c) == CHOOSE i \in 1..Len(Alphabet) : Alphabet[i] = c

RefScrambleChar(c, keyByte, forward) ==
    LET k == (keyByte % 128) % Len(Alphabet)
    IN  IF c \notin AlphabetSet THEN c
        ELSE Alphabet[((RankOf(c) - 1 + (IF forward THEN k ELSE -k)) % Len(Alphabet)) + 1]

=============================================================================
