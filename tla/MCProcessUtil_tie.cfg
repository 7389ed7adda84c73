\* Ties between setting values of equal level: does the first one win?
CONSTANTS
    Star = Star
    NoImg = NoImg
    EmptyImg = EmptyImg
    Empty = Empty
    None = None
    Images <- MCImages
    SetGroupNames <- MCSetGroupNames
    SetVals <- MCSetVals
    SetGroupConfs <- MCSetGroupConfs
    SettingConfs <- MCSettingConfs
    PathGroupNames <- MCPathGroupNames
    PathVals <- MCPathVals
    PathGroupConfs <- MCPathGroupConfs
    QueryPaths <- MCQueryPaths
    ListConfs <- MCListConfs
SPECIFICATION Spec
INVARIANT GetConfFirstOnTie
