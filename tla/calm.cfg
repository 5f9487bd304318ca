SPECIFICATION Spec
CONSTANTS
    r1 = r1
    r2 = r2
    r3 = r3
    alice = alice
    Reqs <- ThreeReqs
    Idents <- OneIdent
    Rules = {"chat", "burst"}
    RuleConf <- Sharing
    Instants <- TwoInstants
    MaxRetries = 0
    FailOpen = TRUE
    Faults <- NoFaults
    Second <- MCSecond
    Epoch = 0
    BaseOffset <- EightHours
    ZoneTable <- NoZoneTable
PROPERTY IsASeatPool
INVARIANT NeverOverLimit
