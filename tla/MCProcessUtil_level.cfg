\* A value with an empty image matcher: is its level defined?
CONSTANTS
    Star = Star
    NoImg = NoImg
    EmptyImg = EmptyImg
    Empty = Empty
    None = None
    Images <- MCImages
    SetGroupNames <- MCSetGroupNames
    SetVals <- MCSetVals
    SetGroupConfs <- MCSetGroupConfs
    SettingConfs <- MCSettingConfs
    PathGroupNames <- MCPathGroupNames
    PathVals <- MCPathVals
    PathGroupConfs <- MCPathGroupConfs
    QueryPaths <- MCQueryPaths
    ListConfs <- MCListConfsEmptyImg
SPECIFICATION Spec
INVARIANT PatternLevelsDefined
