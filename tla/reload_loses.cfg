SPECIFICATION ReloadSpec
CONSTANTS
    s1 = s1
    s2 = s2
    p1 = p1
    p2 = p2
    r1 = r1
    HasPrefix <- MCNever2
    Glob <- MCNever2
    EndsInStars <- MCNever
    TrimStars <- MCSame
    HasWildcard <- MCNever
    Compiles <- MCCompiles
    MatchString <- MCNever2
    NumSubexp <- MCNumSubexp
    FindSubmatch <- MCNothingFound
    SplitValue <- MCWhole
    ParseURL <- MCParseURL
    Defaults <- MCDefaults
    Env <- MCEnv
    FirstDoc <- MCFirstDoc
    Changes <- MCChanges
    HandDocs <- MCHandDocs
    Savers <- NoCalls
    Reloaders <- OneReloader
    Reqs <- OneReq
    Delay = 1
    MaxCrashes = 1
INVARIANT SuccessIsCounted
