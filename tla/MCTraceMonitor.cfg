\* Four entries; columns 1 and 4 may be shown and hidden.
CONSTANTS
    MaxEntries = 4
    ToggleCols <- MCToggleCols
    Null = Null
SPECIFICATION Spec
INVARIANT RowsMatchLog
INVARIANT ChangedCellsSignalled
