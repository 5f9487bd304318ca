SPECIFICATION Spec
CONSTANTS
    r1 = r1
    r2 = r2
    r3 = r3
    alice = alice
    Reqs <- ThreeReqs
    Idents <- OneIdent
    Rules = {"chat", "burst"}
    RuleConf <- Sharing
    Instants <- Rollover
    MaxRetries = 0
    FailOpen = TRUE
    Faults <- NoFaults
    Second <- MCSecond
    Epoch = 0
    BaseOffset <- EightHours
    ZoneTable <- NoZoneTable
SYMMETRY Symmetry
INVARIANTS
    OvershootBounded
    PendingBacked
    NoForgottenSeat
    KeptToLastSecond
PROPERTIES
    RefusedOnlyWhenFull
