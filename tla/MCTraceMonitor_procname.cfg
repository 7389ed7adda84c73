\* Does a row first shown before its process was listed get its name?
CONSTANTS
    MaxEntries = 4
    ToggleCols <- MCToggleCols
    Null = Null
SPECIFICATION Spec
INVARIANT ProcessColumnNamed
