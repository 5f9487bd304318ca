SPECIFICATION Spec
CONSTANTS
    r1 = r1
    r2 = r2
    r3 = r3
    alice = alice
    Reqs <- TwoReqs
    Idents <- OneIdent
    Rules = {"chat"}
    RuleConf <- Single
    Instants <- MinuteEnd
    MaxRetries = 0
    FailOpen = TRUE
    Faults <- NoFaults
    Second <- MCSecond
    Epoch = 0
    BaseOffset <- EightHours
    ZoneTable <- NoZoneTable
SYMMETRY Symmetry
INVARIANTS
    NeverOverLimit
