------------------------------ MODULE WindowProofs -----------------------------
(***************************************************************************)
(* Proofs about WindowWalk, for any rules and instants: in a timezone      *)
(* whose offset has settled, windows contain the instants they are         *)
(* computed at, have names of their own and end when their keys expire.    *)
(***************************************************************************)
EXTENDS WindowWalk, WindowLemmas, WellFoundedInduction

Types == rule \in RuleSet /\ now \in Samples

(* The rules whose windows depend on the timezone. *)
DayRules == {r \in RuleSet : r.window = "day"}

(* The first of some instants is one of them. *)
LEMMA FirstInstant ==
    ASSUME NEW S \in SUBSET Samples, S # {}
    PROVE  Min(S) \in S
<1> DEFINE T == {t - Reference : t \in S}
           less == OpToRel(<, Nat)
<1>1. Reference \in Int /\ \A t \in S : t \in Int /\ t - Reference \in Nat
  BY WalkAssumption, DateType
<1>2. T \subseteq Nat /\ T # {}
  BY <1>1
<1>3. less = {p \in Nat \X Nat : p[1] < p[2]}
  BY DEF OpToRel
<1>4. IsWellFoundedOn(less, Nat)
  BY NatLessThanWellFounded
<1> HIDE DEF less
<1>5. PICK x \in T : \A y \in T : ~(<<y, x>> \in less)
  BY <1>2, <1>4, WFMin
<1>6. \A y \in T : x <= y
  <2>1. \A y, z \in Nat : y < z => <<y, z>> \in less
    BY <1>3
  <2>2. ASSUME NEW y \in T PROVE ~(y < x)
    <3>1. y \in Nat /\ x \in Nat /\ ~(<<y, x>> \in less)
      BY <1>2, <1>5
    <3> QED BY <2>1, <3>1
  <2>3. x \in Nat /\ \A y \in T : y \in Nat
    BY <1>2, <1>5
  <2> HIDE DEF T
  <2> QED BY <2>2, <2>3
<1>7. PICK t \in S : x = t - Reference
  BY <1>5
<1>8. \A u \in S : t <= u
  BY <1>1, <1>6, <1>7
<1> QED BY <1>7, <1>8 DEF Min

LEMMA TypesInit == Init => Types
BY WalkAssumption, FirstInstant DEF Init, Types

LEMMA TypesStep == Types /\ [Next]_<<rule, now>> => Types' /\ rule' = rule /\ now <= now'
<1> SUFFICES ASSUME Types, [Next]_<<rule, now>> PROVE Types' /\ rule' = rule /\ now <= now'
  OBVIOUS
<1>1. CASE Tick
  <2>1. Later \in SUBSET Samples /\ Later # {}
    BY <1>1 DEF Tick, Later
  <2>2. now' \in Later /\ rule' = rule
    BY <1>1, <2>1, FirstInstant DEF Tick
  <2> QED BY <2>2, WalkAssumption DEF Later, Types
<1>2. CASE UNCHANGED <<rule, now>>
  BY <1>2, WalkAssumption DEF Types
<1> QED BY <1>1, <1>2 DEF Next, Finished

(* Where day windows are on the grid, so are all: at every instant visited *)
(* the window is the one around it.                                        *)
LEMMA VisitedOnGrid ==
    ASSUME OffsetSettled(DayRules, Samples), Types
    PROVE  OnGrid(rule, now)
<1>1. rule \in QuotaRule /\ now \in Int /\ DayRules \in SUBSET QuotaRule /\ Samples \in SUBSET Int
  BY WalkAssumption DEF Types, DayRules
<1>2. CASE rule.window = "day"
  BY <1>1, <1>2, DayWindowOnGrid DEF Types, DayRules
<1>3. CASE rule.window # "day"
  BY <1>1, <1>3, ShortWindowOnGrid
<1> QED BY <1>2, <1>3

(* The window the manager computes for an instant contains the instant:    *)
(* for minutes and hours in every timezone, for days in a settled one.     *)
THEOREM WindowContainsNow ==
    ASSUME OffsetSettled(DayRules, Samples)
    PROVE  Spec => []InsideItsWindow
<1>1. ASSUME Types PROVE InsideItsWindow
  BY <1>1, VisitedOnGrid DEF OnGrid, InsideItsWindow, End, Start
<1>2. Types /\ [Next]_<<rule, now>> => Types'
  BY TypesStep
<1> QED BY <1>1, <1>2, TypesInit, PTL DEF Spec

(* The expiry asked of Redis falls in the window's last second, or, when   *)
(* asked during that second, less than a second after it.                  *)
THEOREM ExpiryFits ==
    ASSUME OffsetSettled(DayRules, Samples)
    PROVE  Spec => []ExpiryMeetsWindowEnd
<1>1. ASSUME Types PROVE ExpiryMeetsWindowEnd
  <2>1. rule \in QuotaRule /\ now \in Int
    BY <1>1, WalkAssumption DEF Types
  <2> QED BY <1>1, <2>1, VisitedOnGrid, ExpiryAtEnd DEF ExpiryMeetsWindowEnd, End, Start
<1>2. Types /\ [Next]_<<rule, now>> => Types'
  BY TypesStep
<1> QED BY <1>1, <1>2, TypesInit, PTL DEF Spec

(* Successive instants have one key name exactly when they are in one      *)
(* window, and a window begins only where the last one has ended.          *)
THEOREM NamesTellWindows ==
    ASSUME OffsetSettled(RuleSet, Samples)
    PROVE  Spec => KeyNamesTheWindow
<1> DEFINE Follow == /\ Name' = Name <=> Start' = Start
                     /\ Start' = Start \/ End <= Start'
<1>1. ASSUME Types, Types', rule' = rule, now <= now' PROVE Follow
  <2>1. /\ rule \in RuleSet /\ rule \in QuotaRule /\ RuleSet \in SUBSET QuotaRule
        /\ now \in Samples /\ now' \in Samples /\ Samples \in SUBSET Int
    BY <1>1, WalkAssumption DEF Types
  <2>2. /\ Start = WindowStart(rule, now) /\ Start' = WindowStart(rule, now')
        /\ Name = PeriodKey(rule, now) /\ Name' = PeriodKey(rule, now')
        /\ End = WindowEnd(rule, WindowStart(rule, now))
    BY <1>1 DEF Start, Name, End
  <2>3. OnGrid(rule, now) /\ OnGrid(rule, now')
    BY <2>1, WindowOnGrid
  <2>4. Start' = Start \/ End <= Start'
    BY <1>1, <2>1, <2>2, <2>3, WindowsFollow
  <2>5. Name' = Name => Start' = Start
    BY <2>1, <2>2, NameOfWindow
  <2>6. Start' = Start => Name' = Name
    BY <2>2 DEF PeriodKey
  <2> QED BY <2>4, <2>5, <2>6
<1> HIDE DEF Follow
<1>2. Types /\ [Next]_<<rule, now>> => Types' /\ [Follow]_<<rule, now>>
  BY <1>1, TypesStep
<1>3. Spec => [][Follow]_<<rule, now>>
  BY <1>2, TypesInit, PTL DEF Spec
<1> QED BY <1>3 DEF KeyNamesTheWindow, Follow

(* In a settled timezone of whole hours days begin at local midnight and   *)
(* hours on the local hour (config.yaml.example:71 and 72).                *)
THEOREM LocalCuts ==
    ASSUME OffsetSettled(RuleSet, Samples), BaseOffset % Hour = 0
    PROVE  Spec => []CutsOnLocalTime
<1>1. ASSUME Types, rule.count = 1
      PROVE  /\ rule.window = "day" => WallClock(Start) = WallClock(now) - (WallClock(now) % Day)
             /\ rule.window = "hour" => WallClock(Start) % Hour = 0
  <2>1. /\ rule \in RuleSet /\ rule \in QuotaRule /\ RuleSet \in SUBSET QuotaRule
        /\ now \in Samples /\ now \in Int /\ Samples \in SUBSET Int
        /\ BaseOffset \in Int /\ Epoch \in Int
    BY <1>1, WalkAssumption, WindowAssumption DEF Types
  <2>2. OnGrid(rule, now)
    BY <2>1, WindowOnGrid
  <2>3. WallClock(Start) = Start + BaseOffset /\ WallClock(now) = now + BaseOffset
    BY <2>1, WallClockOfStart, WallClockOfInstant DEF Start
  <2>4. PICK k \in Int : Start = Origin(rule) + k * Length(rule)
    BY <2>2 DEF OnGrid, Start
  <2>5. NormalizedWindowCount(rule) = 1
    BY <1>1 DEF NormalizedWindowCount
  <2>6. CASE rule.window = "day"
    <3> DEFINE e == Epoch \div Day
               m == e + k
    <3>1. Length(rule) = Day /\ Origin(rule) = Epoch - BaseOffset
      BY <2>5, <2>6, UnitsType DEF Length, Unit, Origin
    <3>2. e \in Int /\ Epoch = e * Day
      BY <2>1, UnitsType, WindowAssumption, Quotient
    <3> HIDE DEF e
    <3>3. m \in Int /\ m * Day = Epoch + k * Day /\ k * Day \in Int
      BY <2>4, <3>2, UnitsType
    <3> HIDE DEF m
    <3>4. WallClock(Start) = m * Day
      BY <2>1, <2>3, <2>4, <3>1, <3>3
    <3>5. m * Day <= WallClock(now) /\ WallClock(now) < m * Day + Day /\ WallClock(now) \in Int
      <4>1. Start <= now /\ now < Start + Day /\ Start \in Int
        BY <2>1, <2>2, <3>1, WindowType DEF OnGrid, Start
      <4> QED BY <2>1, <2>3, <3>4, <4>1, UnitsType
    <3>6. WallClock(now) - (WallClock(now) % Day) = m * Day
      BY <3>3, <3>5, UnitsType, CutDown
    <3> QED BY <2>6, <3>4, <3>6
  <2>7. CASE rule.window = "hour"
    <3> DEFINE b == BaseOffset \div Hour
               m == b + k
    <3>1. Length(rule) = Hour /\ Origin(rule) = 0
      BY <2>5, <2>7, UnitsType DEF Length, Unit, Origin
    <3>2. b \in Int /\ BaseOffset = b * Hour
      BY <2>1, UnitsType, Quotient
    <3> HIDE DEF b
    <3>3. m \in Int /\ m * Hour = BaseOffset + k * Hour /\ k * Hour \in Int
      BY <2>4, <3>2, UnitsType
    <3> HIDE DEF m
    <3>4. WallClock(Start) = m * Hour /\ m * Hour \in Int
      BY <2>1, <2>3, <2>4, <3>1, <3>3, UnitsType
    <3>5. m * Hour - ((m * Hour) % Hour) = m * Hour
      BY <3>3, <3>4, UnitsType, CutDown
    <3>6. (m * Hour) % Hour \in Int
      BY <3>4, UnitsType
    <3> QED BY <2>7, <3>4, <3>5, <3>6
  <2> QED BY <2>6, <2>7
<1>2. Types => CutsOnLocalTime
  BY <1>1 DEF CutsOnLocalTime
<1>3. Types /\ [Next]_<<rule, now>> => Types'
  BY TypesStep
<1> QED BY <1>2, <1>3, TypesInit, PTL DEF Spec

===============================================================================
