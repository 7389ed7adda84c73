\* Setting lookups over nested and cyclic groups, file-list classification,
\* kill threads racing process exit, pid reuse and unload, and the
\* "$:name" check of open lists.
CONSTANTS
    Star = Star
    NoImg = NoImg
    EmptyImg = EmptyImg
    Empty = Empty
    None = None
    Images <- MCImages
    SetGroupNames <- MCSetGroupNames
    SetVals <- MCSetVals
    SetGroupConfs <- MCSetGroupConfs
    SettingConfs <- MCSettingConfs
    PathGroupNames <- MCPathGroupNames
    PathVals <- MCPathVals
    PathGroupConfs <- MCPathGroupConfs
    QueryPaths <- MCQueryPaths
    ListConfs <- MCListConfs
    NameImages <- MCNameImages
    NameSettings <- MCNameSettings
    Fail = Fail
SPECIFICATION Spec
INVARIANT TypeOK
INVARIANT GetConfMostSpecific
INVARIANT GroupMatchWithinDepth
INVARIANT MatchPathExRanked
INVARIANT LogAtMostOnce
INVARIANT NameCheckMatchesReference
PROPERTY KillThreadsEnd
PROPERTY TargetKilled
