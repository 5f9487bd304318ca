SPECIFICATION Spec
CONSTANTS
    r1 = r1
    r2 = r2
    r3 = r3
    alice = alice
    Reqs <- TwoReqs
    Idents <- OneIdent
    Rules = {"chat", "batch"}
    RuleConf <- TwoUnits
    Instants <- HourEnd
    MaxRetries = 1
    FailOpen = TRUE
    Faults <- AllFaults
    Second <- MCSecond
    Epoch = 0
    BaseOffset <- EightHours
    ZoneTable <- NoZoneTable
SYMMETRY Symmetry
INVARIANTS
    TypeOK
    OvershootBounded
    SeatsCounted
    NoForgottenSeat
    KeptToLastSecond
    RulesHaveTheirOwnKeys
