\* Every grant of the target and both OS generations.
CONSTANTS
    NULL = NULL
    InvalidHandle = InvalidHandle
SPECIFICATION Spec
INVARIANT InitFailsOnlyWhenUnopenable
