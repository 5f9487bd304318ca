SPECIFICATION GateSpec
CONSTANTS
    HasPrefix <- MCHasPrefix
    Glob <- MCGlob
    EndsInStars <- MCEndsInStars
    TrimStars <- MCTrimStars
    HasWildcard <- MCHasWildcard
    Compiles <- MCCompiles
    MatchString <- MCMatchString
    NumSubexp <- MCNumSubexp
    FindSubmatch <- MCFindSubmatch
    SplitValue <- MCSplitValue
    Configs <- MCConfigs
    Requests <- MCRequests
    Responses <- MCResponses
    MaxBodySize = 2
    MaxLines = 3
INVARIANTS
    GateTypeOK
    MatchesAsConfigured
    BodyForwardedIntact
    SubjectsKeptApart
    SettledOnce
    StreamCountsWhenWritten
    FramesStayWhole
    OneAnswer
