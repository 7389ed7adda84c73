\* A box with eight services of 75 characters: the SandboxedServices value is longer than the 500 bytes Scm_GetBoxedServices reads.
CONSTANTS
    SvcLens = {75}
    SvcValues <- LongValues
    NULL = NULL
    MGR = MGR
    Free = Free
    HookFails <- PassFails
SPECIFICATION Spec
INVARIANT ListedServicesBoxed
