\* Does a column shown after rows were synced get filled for those rows?
CONSTANTS
    MaxEntries = 4
    ToggleCols <- MCToggleCols
    Null = Null
SPECIFICATION Spec
INVARIANT VisibleCellsFilled
