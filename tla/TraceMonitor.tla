---------------------------- MODULE TraceMonitor ----------------------------
(***************************************************************************)
(* The trace view of SandMan: trace entries (CTraceEntry, SbieTrace.cpp)   *)
(* collected in the API's trace log, and the list model that mirrors that  *)
(* log in the GUI (CResMonModel::Sync, ResMonModel.cpp).                   *)
(*                                                                         *)
(* An entry is its uid: every column value the model shows is a function  *)
(* of the entry (process id, uid, type, status, message), so a cell is     *)
(* abstracted to <<column, uid>>.  The trace log itself lives in CSbieAPI, *)
(* outside the sources; it is the environment here: entries are appended   *)
(* in creation order, and the log can be cleared or lose its oldest entry. *)
(* CListItemModel::Sync(New, Old), also outside the sources, removes the   *)
(* nodes still left in Old and appends the nodes of New.                   *)
(***************************************************************************)
EXTENDS Naturals, Sequences, SequencesExt

CONSTANTS
    MaxEntries,     \* bound on the entries created (the uid counter)
    ToggleCols,     \* columns the user may show or hide
    Null            \* a cell never filled (QVariant())

\* eProcess, eTimeStamp, eType, eStatus, eValue; columnCount() is eCount.
ColumnCount == 5

Cols == 0..ColumnCount - 1

VARIABLES
    uid,        \* the static atomic<quint64> uid of the CTraceEntry constructor
    log,        \* the API's trace log, a sequence of uids
    columns,    \* m_Columns: the visible sections
    rows,       \* m_List: the nodes of the model, [id, raw : [Cols -> cell]]
    synced,     \* no change of the log or the columns since the last Sync
    touched,    \* cells of existing rows whose raw value the last Sync changed
    signalled,  \* cells of existing rows covered by its dataChanged ranges
    listed      \* entries whose process theAPI->GetProcessById finds

vars == <<uid, log, columns, rows, synced, touched, signalled, listed>>

\* eProcess: its cell is also formatted, with the process name or "Unknown".
eProcess == 0

\* The value the switch at lines 79-86 reads for a section.
Value(id, c) == <<c, id>>

Cell == {Null} \cup (Cols \X (0..MaxEntries))

\* Every variable holds a value of its kind.
TypeOK ==
    /\ uid \in 0..MaxEntries
    /\ log \in Seq(0..MaxEntries - 1)
    /\ columns \subseteq Cols
    /\ \A k \in 1..Len(rows) : /\ rows[k].id \in 0..MaxEntries - 1
                              /\ rows[k].raw \in [Cols -> Cell]
                              /\ rows[k].name \in {Null, "name", "Unknown"}
    /\ touched \subseteq (0..MaxEntries) \X Cols
    /\ signalled \subseteq (0..MaxEntries) \X Cols
    /\ listed \subseteq 0..MaxEntries - 1

Init ==
    /\ uid = 0
    /\ log = <<>>
    /\ columns = Cols
    /\ rows = <<>>
    /\ synced = TRUE
    /\ touched = {} /\ signalled = {}
    /\ listed = {}

(***************************************************************************)
(* A new CTraceEntry takes m_uid = uid.fetch_add(1) and is appended to the *)
(* log.                                                                    *)
(***************************************************************************)
NewTraceEntry ==
    /\ uid < MaxEntries
    /\ uid' = uid + 1
    /\ log' = Append(log, uid)
    /\ synced' = FALSE
    /\ UNCHANGED <<columns, rows, touched, signalled, listed>>

\* The user clears the trace log.
ClearLog ==
    /\ log # <<>>
    /\ log' = <<>>
    /\ synced' = FALSE
    /\ UNCHANGED <<uid, columns, rows, touched, signalled, listed>>

\* The log drops its oldest entry.
TrimLog ==
    /\ log # <<>>
    /\ log' = Tail(log)
    /\ synced' = FALSE
    /\ UNCHANGED <<uid, columns, rows, touched, signalled, listed>>

\* The user shows or hides a column of the view.
SetColumn ==
    /\ \E c \in ToggleCols : columns' = IF c \in columns THEN columns \ {c} ELSE columns \cup {c}
    /\ synced' = FALSE
    /\ UNCHANGED <<uid, log, rows, touched, signalled, listed>>

\* The API's process list (refreshed on its own timer) learns the process
\* of an entry in the log.
ProcessListed ==
    /\ \E k \in 1..Len(log) : log[k] \notin listed /\ listed' = listed \cup {log[k]}
    /\ synced' = FALSE
    /\ UNCHANGED <<uid, log, columns, rows, touched, signalled>>

(***************************************************************************)
(* The column loop of lines 59-121 for an existing row: Changed != 0 marks *)
(* a visible section whose raw value changed, State the open range that   *)
(* starts at Col.  A range is closed at the next visible section that did *)
(* not change (ending at section - 1) or at the last column.               *)
(***************************************************************************)
RECURSIVE ColumnLoop(_, _, _, _, _)
ColumnLoop(chg, vis, section, state, col) ==
    IF section = ColumnCount
    THEN IF state THEN {<<col, ColumnCount - 1>>} ELSE {}
    ELSE IF section \notin vis
    THEN ColumnLoop(chg, vis, section + 1, state, col)
    ELSE IF state # (section \in chg)
    THEN (IF state THEN {<<col, section - 1>>} ELSE {})
            \cup ColumnLoop(chg, vis, section + 1, section \in chg, section)
    ELSE ColumnLoop(chg, vis, section + 1, state, col)

\* Mutant: the dataChanged after the loop (line 120-121) is missing.
RECURSIVE ColumnLoop_NoFinalEmit(_, _, _, _, _)
ColumnLoop_NoFinalEmit(chg, vis, section, state, col) ==
    IF section = ColumnCount
    THEN {}
    ELSE IF section \notin vis
    THEN ColumnLoop_NoFinalEmit(chg, vis, section + 1, state, col)
    ELSE IF state # (section \in chg)
    THEN (IF state THEN {<<col, section - 1>>} ELSE {})
            \cup ColumnLoop_NoFinalEmit(chg, vis, section + 1, section \in chg, section)
    ELSE ColumnLoop_NoFinalEmit(chg, vis, section + 1, state, col)

\* The visible sections of a node whose raw value differs from the entry's.
ChangedCols(node) == {c \in columns : node.raw[c] # Value(node.id, c)}

\* Mutant: the process cell is formatted on every visit.
Refresh_AlwaysFormat(node) ==
    [node EXCEPT !.raw = [c \in Cols |-> IF c \in columns THEN Value(node.id, c) ELSE @[c]],
                 !.name = IF eProcess \in columns
                          THEN IF node.id \in listed THEN "name" ELSE "Unknown"
                          ELSE @]

\* The node after the loop: visible cells take the entry's values; a process
\* cell whose raw value changed is formatted with the name of the process
\* GetProcessById finds, or "Unknown" (lines 96-103).
Refresh(node) ==
    [node EXCEPT !.raw = [c \in Cols |-> IF c \in columns THEN Value(node.id, c) ELSE @[c]],
                 !.name = IF eProcess \in columns /\ node.raw[eProcess] # Value(node.id, eProcess)
                          THEN IF node.id \in listed THEN "name" ELSE "Unknown"
                          ELSE @]

\* Mutant: the dataChanged after the loop is missing.
DataChanged_NoFinalEmit(node) == ColumnLoop_NoFinalEmit(ChangedCols(node), columns, 0, FALSE, 0)

\* The dataChanged ranges Sync emits for an existing node.
DataChanged(node) == ColumnLoop(ChangedCols(node), columns, 0, FALSE, 0)

RowIds == {rows[k].id : k \in 1..Len(rows)}

\* Mutant: the fast path trusts the counts and skips the uid comparison.
Incremental_CountOnly ==
    Len(log) >= Len(rows) /\ Len(rows) > 0

\* The fast path of lines 22-32: the log still holds the last row at its index.
Incremental ==
    /\ Len(log) >= Len(rows) /\ Len(rows) > 0
    /\ rows[Len(rows)].id = log[Len(rows)]

\* Mutant: the fast path does not clear Old (line 28).
SyncOld_NotCleared == RowIds

\* Old after the fast-path test: the map of all rows, emptied on the fast path.
SyncOld == IF Incremental THEN {} ELSE RowIds

(***************************************************************************)
(* CResMonModel::Sync(List) and the CListItemModel::Sync(New, Old) it     *)
(* ends with.  On the fast path only the entries past the last row are    *)
(* visited and Old is emptied, so no row is removed; otherwise every      *)
(* entry is visited and the rows whose entry was not seen are removed.    *)
(* A visited entry with a row gets its visible cells refreshed and a      *)
(* dataChanged over the changed ranges; one without gets a new node,      *)
(* appended in log order.                                                 *)
(***************************************************************************)
CResMonModel_Sync ==
    LET start   == IF Incremental THEN Len(rows) + 1 ELSE 1
        visited == SubSeq(log, start, Len(log))
        old     == SyncOld
        kept    == SelectSeq(rows, LAMBDA n : n.id \notin old \/ n.id \in ToSet(visited))
        seen    == {n \in ToSet(kept) : n.id \in ToSet(visited)}
        new     == SelectSeq(visited, LAMBDA id : id \notin old)
    IN  /\ rows' = [k \in 1..Len(kept) |-> IF kept[k].id \in ToSet(visited) THEN Refresh(kept[k]) ELSE kept[k]]
                   \o [k \in 1..Len(new) |-> Refresh([id |-> new[k], raw |-> [c \in Cols |-> Null], name |-> Null])]
        /\ touched' = UNION {{n.id} \X ChangedCols(n) : n \in seen}
        /\ signalled' = UNION {{n.id} \X UNION {a..b : <<a, b>> \in DataChanged(n)} : n \in seen}

\* The GUI timer calls Sync with the current log.
Sync ==
    /\ CResMonModel_Sync
    /\ synced' = TRUE
    /\ UNCHANGED <<uid, log, columns, listed>>

Next == NewTraceEntry \/ ClearLog \/ TrimLog \/ SetColumn \/ ProcessListed \/ Sync

\* The GUI timer keeps firing.
Spec == Init /\ [][Next]_vars /\ WF_vars(Sync)

-----------------------------------------------------------------------------
(***************************************************************************)
(* After a Sync, the rows of the model are the entries of the log in log   *)
(* order, one row per entry: the fast path that compares only the last     *)
(* row's uid must not keep rows of a cleared or trimmed log, drop rows, or *)
(* duplicate them.                                                         *)
(***************************************************************************)
RowsMatchLog == synced => [k \in 1..Len(rows) |-> rows[k].id] = log

(***************************************************************************)
(* The dataChanged ranges the column loop emits for an existing row cover *)
(* every visible cell the Sync changed and no visible cell it left alone.  *)
(***************************************************************************)
ChangedCellsSignalled ==
    \A id \in 0..MaxEntries : \A c \in columns :
        (<<id, c>> \in touched) <=> (<<id, c>> \in signalled)

(***************************************************************************)
(* After a Sync every visible cell of every row holds its entry's value.   *)
(***************************************************************************)
VisibleCellsFilled ==
    synced => \A k \in 1..Len(rows) : \A c \in columns : rows[k].raw[c] = Value(rows[k].id, c)

(***************************************************************************)
(* After a Sync, the process column of every row whose process the API     *)
(* knows shows the process name: a row first shown while its process was  *)
(* not yet listed must not keep "Unknown".                                 *)
(***************************************************************************)
ProcessColumnNamed ==
    synced => \A k \in 1..Len(rows) :
                  eProcess \in columns /\ rows[k].id \in listed => rows[k].name = "name"

=============================================================================
