\* A service name of 76 characters: 52 + 76 + 1 WCHARs do not fit keyname[128].
CONSTANTS
    SvcLens = {8, 76}
    SvcValues <- ShortValues
    NULL = NULL
    MGR = MGR
    Free = Free
    HookFails <- PassFails
SPECIFICATION Spec
INVARIANT NoKeyNameOverrun
