\* SbieDll_Hook fails on sechost's RegisterServiceCtrlHandlerW: is a hook installed twice?
CONSTANTS
    SvcLens = {8, 75}
    SvcValues <- ShortValues
    NULL = NULL
    MGR = MGR
    Free = Free
    HookFails <- RegWFails
SPECIFICATION Spec
INVARIANT NoHookLost
