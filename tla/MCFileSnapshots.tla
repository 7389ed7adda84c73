---------------------------- MODULE MCFileSnapshots ----------------------------
(***************************************************************************)
(* The snapshot code of the DLL (file_snapshots.c) checked in one run: a   *)
(* behaviour either sends one character through File_Scramble_Char and     *)
(* back (ScrambleChar), one short name through File_ScrambleShortName and  *)
(* File_UnScrambleShortName (ScrambleName), or runs File_InitSnapshots and *)
(* one path lookup over the chain it built (SnapshotChain).  The variable  *)
(* check says which; the other parts keep fixed values.                    *)
(***************************************************************************)
EXTENDS Naturals, Sequences

CONSTANTS
    CharSet, CharKeys,      \* the characters and key bytes of the character check
    NameSet, NameKeys,      \* the short names and key bytes of the name check
    SnapIni,                \* the Snapshots.ini files start-up may read
    NoId, NoReloc           \* model values of SnapshotChain

VARIABLES
    wch, keyByte, out, cstage,              \* ScrambleChar
    orig, key, name, scrambled, nstage,     \* ScrambleName
    ini, chain, snapshot, pc, v2, active, snapTree, present,
    truePath, hasCopy, stop, result, found, call,   \* SnapshotChain
    check                                   \* "char", "name" or "snap"

Char == INSTANCE ScrambleChar WITH Chars <- CharSet, KeyBytes <- CharKeys, stage <- cstage

Name == INSTANCE ScrambleName WITH Names <- NameSet, KeyBytes <- NameKeys, stage <- nstage

(***************************************************************************)
(* Snapshots: two ids, so chains of length 0, 1 and 2 in either order,    *)
(* one of 16 characters (what FILE_SNAPSHOT.ID holds) and one of 15,      *)
(* over the paths D, D\f, E, E\f.  The trees delete a directory, delete a *)
(* file under the name a relocation gives it, or relocate D to E and E to *)
(* D, so relocations chain across layers and deletions meet relocated     *)
(* names.                                                                 *)
(***************************************************************************)
MCIds == {[name |-> "s1", len |-> 16], [name |-> "s2", len |-> 15]}

\* Any Snapshots.ini over MCIds, including a hand-edited or damaged one
\* whose Parent entries form a cycle.
AnyFile == [current : MCIds \cup {NoId}, parent : [MCIds -> MCIds \cup {NoId}]]

\* Files whose Parent entries never lead back to an id already on the way.
Acyclic(f) ==
    \A id \in MCIds : ~\E k \in 1..2 :
        LET Up[n \in 0..k] == IF n = 0 THEN id
                              ELSE IF Up[n - 1] = NoId THEN NoId
                              ELSE f.parent[Up[n - 1]]
        IN  Up[k] = id

\* Snapshots.ini files as Sandboxie-Plus writes them: every Parent chain
\* ends at a snapshot without parent.
AcyclicFiles == {f \in AnyFile : Acyclic(f)}

\* Acyclic files whose Parent entries name ids of at most 15 characters.
ShortParentFiles == {f \in AcyclicFiles : \A id \in MCIds : f.parent[id] = NoId \/ f.parent[id].len <= 15}

MCPaths == {<<"D">>, <<"D", "f">>, <<"E">>, <<"E", "f">>}

MCFilePaths == {<<"D", "f">>, <<"E", "f">>}

NoTree == [del |-> {}, reloc |-> [q \in MCPaths |-> NoReloc]]

RelocTo(from, to) == [NoTree EXCEPT !.reloc[from] = to]

MCTrees ==
    { NoTree,
      [NoTree EXCEPT !.del = {<<"D">>}],
      [NoTree EXCEPT !.del = {<<"E", "f">>}],
      RelocTo(<<"D">>, <<"E">>),
      RelocTo(<<"E">>, <<"D">>) }

Snap == INSTANCE SnapshotChain
    WITH Ids <- MCIds, MaxChain <- 2, IniChoices <- SnapIni, Paths <- MCPaths,
         TreeChoices <- MCTrees, FilePaths <- MCFilePaths

charVars == <<wch, keyByte, out, cstage>>

nameVars == <<orig, key, name, scrambled, nstage>>

snapVars == <<ini, chain, snapshot, pc, v2, active, snapTree, present,
              truePath, hasCopy, stop, result, found, call>>

vars == <<charVars, nameVars, snapVars, check>>

CharIdle == wch = 0 /\ keyByte = 0 /\ out = 0 /\ cstage = "input"

NameIdle == orig = <<>> /\ key = <<>> /\ name = <<>> /\ scrambled = <<>> /\ nstage = "input"

SnapIdle == Snap!Init /\ ini = CHOOSE f \in SnapIni : TRUE

Init ==
    \/ check = "char" /\ Char!Init /\ NameIdle /\ SnapIdle
    \/ check = "name" /\ Name!Init /\ CharIdle /\ SnapIdle
    \/ check = "snap" /\ Snap!Init /\ CharIdle /\ NameIdle

StartUpStep == check = "snap" /\ Snap!StartUpStep /\ UNCHANGED <<charVars, nameVars, check>>

FirstCall == check = "snap" /\ Snap!FirstCall /\ UNCHANGED <<charVars, nameVars, check>>

Next ==
    \/ check = "char" /\ Char!Next /\ UNCHANGED <<nameVars, snapVars, check>>
    \/ check = "name" /\ Name!Next /\ UNCHANGED <<charVars, snapVars, check>>
    \/ check = "snap" /\ Snap!Next /\ UNCHANGED <<charVars, nameVars, check>>

\* Start-up is sequential code of the process's first thread.
Spec == Init /\ [][Next]_vars /\ WF_vars(StartUpStep) /\ WF_vars(FirstCall)

\* The part being checked keeps its types.
TypeOK ==
    /\ check = "char" => Char!TypeOK
    /\ check = "name" => Name!TypeOK
    /\ check = "snap" => Snap!TypeOK

\* ScrambleChar!CharMatchesReference: File_Scramble_Char is the
\* specification's scrambleChar and its reverse call restores the character.
CharMatchesReference == check = "char" => Char!CharMatchesReference

\* ScrambleName!NameRoundTrip: File_UnScrambleShortName undoes
\* File_ScrambleShortName for every short name and key.
NameRoundTrip == check = "name" => Name!NameRoundTrip

\* ScrambleName!NameRoundTripUnlessDotInSuffix: the round trip holds
\* whenever no scrambled suffix character came out as a dot.
NameRoundTripUnlessDotInSuffix == check = "name" => Name!NameRoundTripUnlessDotInSuffix

\* SnapshotChain!InitTerminates: File_InitSnapshots returns, so the process
\* gets to its first file access.
InitTerminates == <>(check # "snap" \/ call # "boot")

\* SnapshotChain!ChainMatchesIni: start-up lists the snapshots Snapshots.ini
\* names, with their ids as written.
ChainMatchesIni == check = "snap" => Snap!ChainMatchesIni

\* SnapshotChain!ResolveMatchesLayeredView: over the chain start-up built,
\* File_GetPathFlagsEx answers what the layered view of the active box and
\* its snapshots gives.
ResolveMatchesLayeredView == check = "snap" => Snap!ResolveMatchesLayeredView

-----------------------------------------------------------------------------
\* Every 7-bit character and every key byte.
AsciiChars == 0..127

AllKeyBytes == 0..255

\* WCHARs above 0x7F whose low seven bits are legal characters:
\* E with acute (0xC9), L with stroke (0x141), fullwidth A (0xFF21).
WideChars == {201, 321, 65313}

\* "A", "AB.C", "A~1.CBA", "ABCDEFGH" and "ABCDEF~1.TXT": no dot, short and
\* full suffixes, a full 8-character base without dot (padded to 12) and a
\* full 12-character name.
ShortNames ==
    { <<65>>,
      <<65, 66, 46, 67>>,
      <<65, 126, 49, 46, 67, 66, 65>>,
      <<65, 66, 67, 68, 69, 70, 71, 72>>,
      <<65, 66, 67, 68, 69, 70, 126, 49, 46, 84, 88, 84>> }

\* 0; 12 and 225 (a negative char) move a space onto the dot; 69 moves C onto
\* it; 52 moves T onto it; 255 the largest byte.
NameKeyBytes == {0, 12, 52, 69, 225, 255}

=============================================================================
