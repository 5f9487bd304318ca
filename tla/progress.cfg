SPECIFICATION FairSpec
CONSTANTS
    r1 = r1
    r2 = r2
    r3 = r3
    alice = alice
    Reqs <- TwoReqs
    Idents <- OneIdent
    Rules = {"chat"}
    RuleConf <- Single
    Instants <- LongAfter
    MaxRetries = 1
    FailOpen = FALSE
    Faults <- AllFaults
    Second <- MCSecond
    Epoch = 0
    BaseOffset <- EightHours
    ZoneTable <- NoZoneTable
PROPERTIES
    RedisNeverBlocks
    SeatsGivenBack
