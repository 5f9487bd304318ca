SPECIFICATION AdminSpec
CONSTANTS
    r1 = r1
    r2 = r2
    a1 = a1
    alice = alice
    Reqs <- TwoReqs
    Idents <- OneIdent
    Rules = {"chat"}
    RuleConf <- Single
    Calls <- OneCall
    Asked <- EveryAsk
    RuleOrder <- OneRule
    Rank <- MCRanks
    Instants <- MinuteEnd
    MaxRetries = 0
    FailOpen = FALSE
    Faults <- AllFaults
    Second <- MCSecond
    Epoch = 0
    MaxInt = 7
    BaseOffset <- EightHours
    ZoneTable <- NoZoneTable
SYMMETRY Symmetry
INVARIANTS
    AdminTypeOK
    OvershootBounded
    RejectionStands
    OnlyStraysNeverExpire
    StatusMatchesAdmission
    PagesPartition
PROPERTIES
    ScanMissesNothing
