\* Two names differing only in case, one in each list.
CONSTANTS
    SvcLens = {8}
    SvcValues <- ShortValues
    NULL = NULL
    MGR = MGR
    Free = Free
    HookFails <- PassFails
SPECIFICATION Spec
INVARIANT NoDuplicateServices
