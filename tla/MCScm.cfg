\* The merge over lists of up to two short names; the service handles with
\* names of 8 and 75 characters (the longest whose key name fits) and the
\* SandboxedServices values a box with one service writes; the hooks of
\* Windows XP, 7 and 8 with the hook failures of PassFails.
CONSTANTS
    SvcLens = {8, 75}
    SvcValues <- ShortValues
    NULL = NULL
    MGR = MGR
    Free = Free
    HookFails <- PassFails
SPECIFICATION Spec
INVARIANT TypeOK
INVARIANT MergedInOrder
INVARIANT LastErrorMatchesResult
INVARIANT HandlesNameExistingServices
INVARIANT ListedServicesBoxed
INVARIANT HookedAtImplementation
INVARIANT NoHookLost
PROPERTY MergeTerminates
