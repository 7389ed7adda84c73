CONSTANTS
    Pids = {1, 2}
    TargetPid = 1
    Delays = {0, 100}
    Reasons = {0}
    MaxGen = 3
    MaxKills = 1
SPECIFICATION Spec
INVARIANT KillOnlyTarget
