\* Without rule specificity: does the first list with a match decide?
CONSTANTS
    Star = Star
    NoImg = NoImg
    EmptyImg = EmptyImg
    Empty = Empty
    None = None
    Images <- MCImages
    SetGroupNames <- MCSetGroupNames
    SetVals <- MCSetVals
    SetGroupConfs <- MCSetGroupConfs
    SettingConfs <- MCSettingConfs
    PathGroupNames <- MCPathGroupNames
    PathVals <- MCPathVals
    PathGroupConfs <- MCPathGroupConfs
    QueryPaths <- MCQueryPaths
    ListConfs <- MCListConfs
SPECIFICATION Spec
INVARIANT MatchPathExFirstList
