SPECIFICATION GateSpec
CONSTANTS
    HasPrefix <- MCHasPrefix
    Glob <- MCGlob
    EndsInStars <- MCEndsInStars
    TrimStars <- MCTrimStars
    HasWildcard <- MCHasWildcard
    Compiles <- MCCompiles
    MatchString <- MCMatchString
    NumSubexp <- MCNumSubexp
    FindSubmatch <- MCFindSubmatch
    SplitValue <- MCSplitValue
    Configs <- MCConfigs
    Requests <- MCRequests
    Responses <- MCResponses
    MaxBodySize = 2
    MaxLines = 2
INVARIANT MemoryBounded
