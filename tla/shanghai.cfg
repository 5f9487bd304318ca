SPECIFICATION Spec
CONSTANTS
    RuleSet <- AllRules
    Samples <- Week
    Second <- MCSecond
    Epoch = 0
    BaseOffset <- EightHours
    ZoneTable <- NoZone
INVARIANTS
    InsideItsWindow
    ExpiryMeetsWindowEnd
    CutsOnLocalTime
PROPERTY
    KeyNamesTheWindow
