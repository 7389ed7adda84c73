\* SbieDll_CheckProcessLocalSystem on processes whose token can or cannot be opened.
CONSTANTS
    SvcLens = {8}
    SvcValues <- ShortValues
    NULL = NULL
    MGR = MGR
    Free = Free
    HookFails <- PassFails
SPECIFICATION Spec
INVARIANT LocalSystemAnswered
