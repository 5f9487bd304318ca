------------------------------ MODULE WindowLemmas -----------------------------
(***************************************************************************)
(* Lemmas about QuotaWindow: the windows of a rule lie on a grid, one      *)
(* after the other, each has a name of its own, and the expiry asked for   *)
(* meets the window's end.                                                 *)
(*                                                                         *)
(* The grid is proved for timezones whose offset has settled: whatever it  *)
(* was in the past, it has been the reference's offset for long enough     *)
(* that the windows in question began under it.                            *)
(***************************************************************************)
EXTENDS QuotaWindow, TLAPS

-------------------------------------------------------------------------------
(* Division. *)

LEMMA Quotient ==
    ASSUME NEW a \in Int, NEW d \in Nat, d > 0
    PROVE  /\ a \div d \in Int
           /\ (a \div d) * d <= a /\ a < (a \div d) * d + d
           /\ a % d = a - (a \div d) * d
OBVIOUS

(* Multiples of d that are less than d apart are the same. *)
LEMMA Multiples ==
    ASSUME NEW q \in Int, NEW r \in Int, NEW d \in Nat, q * d < r * d + d
    PROVE  q <= r
<1> SUFFICES ASSUME r + 1 <= q PROVE FALSE
  OBVIOUS
<1>1. (r + 1) * d <= q * d
  OBVIOUS
<1>2. (r + 1) * d = r * d + d
  OBVIOUS
<1> QED BY <1>1, <1>2

(* Adding multiples of d adds to the quotient. *)
LEMMA QuotientShift ==
    ASSUME NEW a \in Int, NEW k \in Int, NEW d \in Nat, d > 0
    PROVE  (a + k * d) \div d = (a \div d) + k
<1> DEFINE q == a \div d
           r == (a + k * d) \div d
<1>1. q \in Int /\ q * d <= a /\ a < q * d + d
  BY Quotient
<1>2. k * d \in Int /\ a + k * d \in Int
  OBVIOUS
<1>3. r \in Int /\ r * d <= a + k * d /\ a + k * d < r * d + d
  BY <1>2, Quotient
<1> HIDE DEF q, r
<1>4. (q + k) * d = q * d + k * d
  BY <1>1
<1>5. q + k \in Int /\ q * d \in Int /\ r * d \in Int
  BY <1>1, <1>3
<1>6. (q + k) * d < r * d + d /\ r * d < (q + k) * d + d
  BY <1>1, <1>2, <1>3, <1>4, <1>5
<1>7. q + k <= r /\ r <= q + k
  BY <1>3, <1>5, <1>6, Multiples
<1> QED BY <1>3, <1>5, <1>7 DEF q, r

(* The multiple of d that an instant is cut down to. *)
LEMMA CutDown ==
    ASSUME NEW a \in Int, NEW m \in Int, NEW d \in Nat, d > 0, m * d <= a, a < m * d + d
    PROVE  a - (a % d) = m * d
<1> DEFINE q == a \div d
<1>1. q \in Int /\ q * d <= a /\ a < q * d + d /\ a % d = a - q * d
  BY Quotient
<1> HIDE DEF q
<1>2. q * d \in Int /\ m * d \in Int
  BY <1>1
<1>3. q * d < m * d + d /\ m * d < q * d + d
  BY <1>1, <1>2
<1>4. q <= m /\ m <= q
  BY <1>1, <1>3, Multiples
<1>5. q = m
  BY <1>1, <1>4
<1> QED BY <1>1, <1>2, <1>5

-------------------------------------------------------------------------------
(* The window arithmetic stays within the integers.                        *)

LEMMA ZoneOffsetType == \A t \in Int : ZoneOffset(t) \in Int
BY WindowAssumption DEF ZoneOffset

LEMMA UnitsType ==
    /\ Second \in Nat /\ Second > 0
    /\ Minute \in Nat /\ Minute > 0
    /\ Hour \in Nat /\ Hour > 0
    /\ Day \in Nat /\ Day > 0
BY WindowAssumption DEF Minute, Hour, Day

LEMMA DateType ==
    /\ Reference \in Int
    /\ \A t, d \in Int : AddDate(t, d) \in Int
<1>1. \A w \in Int : Date(w) \in Int
  BY ZoneOffsetType DEF Date
<1>2. Reference \in Int
  BY <1>1, WindowAssumption DEF Reference
<1>3. ASSUME NEW t \in Int, NEW d \in Int PROVE AddDate(t, d) \in Int
  <2>1. WallClock(t) \in Int
    BY ZoneOffsetType DEF WallClock
  <2>2. d * Day \in Int
    BY UnitsType
  <2> QED BY <1>1, <2>1, <2>2 DEF AddDate
<1> QED BY <1>2, <1>3

LEMMA CountType ==
    \A rule \in QuotaRule :
        NormalizedWindowCount(rule) \in Nat /\ NormalizedWindowCount(rule) > 0
BY DEF QuotaRule, NormalizedWindowCount

LEMMA DurationType ==
    \A rule \in QuotaRule : Duration(rule) \in Nat /\ Duration(rule) > 0
<1> TAKE rule \in QuotaRule
<1> DEFINE count == NormalizedWindowCount(rule)
           unit == IF rule.window = "minute" THEN Minute ELSE Hour
<1>1. count \in Nat /\ count > 0 /\ unit \in Nat /\ unit > 0
  BY CountType, UnitsType
<1>2. count * unit \in Nat /\ count * unit > 0
  <2> HIDE DEF count, unit
  <2> QED BY <1>1
<1> QED BY <1>2 DEF Duration

(* The start and the end of a window are instants. *)
LEMMA WindowType ==
    ASSUME NEW rule \in QuotaRule, NEW t \in Int
    PROVE  /\ WindowStart(rule, t) \in Int
           /\ WindowEnd(rule, WindowStart(rule, t)) \in Int
<1> DEFINE count == NormalizedWindowCount(rule)
           bucket == (((t - Reference) \div Day) \div count) * count
<1>1. count \in Nat /\ count > 0
  BY CountType
<1>2. (t - Reference) \div Day \in Int
  BY DateType, UnitsType
<1>3. bucket \in Int
  <2>1. ((t - Reference) \div Day) \div count \in Int
    <3> HIDE DEF count
    <3> QED BY <1>1, <1>2
  <2> HIDE DEF count
  <2> QED BY <1>1, <2>1 DEF bucket
<1>4. BucketDay(rule, t) \in Int
  BY <1>3 DEF BucketDay
<1>5. t % Duration(rule) \in Int
  BY DurationType
<1>6. WindowStart(rule, t) \in Int
  <2>1. CASE rule.window = "day"
    BY <2>1, <1>4, DateType DEF WindowStart
  <2>2. CASE rule.window # "day"
    BY <2>2, <1>5 DEF WindowStart
  <2> QED BY <2>1, <2>2
<1>7. ASSUME NEW s \in Int PROVE WindowEnd(rule, s) \in Int
  <2>1. NormalizedWindowCount(rule) \in Int /\ Duration(rule) \in Int
    BY CountType, DurationType
  <2>2. CASE rule.window = "day"
    BY <2>1, <2>2, DateType DEF WindowEnd
  <2>3. CASE rule.window # "day"
    BY <2>1, <2>3 DEF WindowEnd
  <2> QED BY <2>2, <2>3
<1> QED BY <1>6, <1>7

(* The expiry asked of Redis is a positive number of seconds. *)
LEMMA PeriodTTLType ==
    ASSUME NEW rule \in QuotaRule, NEW t \in Int
    PROVE  PeriodTTL(rule, t) \in Int /\ PeriodTTL(rule, t) >= 1
<1> DEFINE end == WindowEnd(rule, WindowStart(rule, t))
<1>1. end \in Int
  BY WindowType
<1>2. (end - t) \div Second \in Int
  <2> HIDE DEF end
  <2> QED BY <1>1, UnitsType
<1> QED BY <1>2 DEF PeriodTTL

-------------------------------------------------------------------------------
(* The grid.                                                               *)

(* A timezone that has settled: its offset is BaseOffset at the reference, *)
(* and from some instant on that lies before all windows of rules R at     *)
(* instants T.  No offset is as long as a day.                             *)
OffsetSettled(R, T) ==
    /\ -Day < BaseOffset /\ BaseOffset < Day
    /\ \E s \in Int :
          /\ \A t \in Int : t \in {Epoch, Epoch - BaseOffset} \/ s <= t => ZoneOffset(t) = BaseOffset
          /\ \A rule \in R : \A t \in T : s <= t - (NormalizedWindowCount(rule) * Day + Day)

(* Above all, one whose offset never changes. *)
LEMMA FixedOffsetSettled ==
    ASSUME \A z \in ZoneTable : z.offset = BaseOffset,
           -Day < BaseOffset, BaseOffset < Day,
           NEW R \in SUBSET QuotaRule, NEW T \in SUBSET Int,
           NEW n \in Nat, \A rule \in R : NormalizedWindowCount(rule) <= n,
           NEW first \in Int, \A t \in T : first <= t
    PROVE  OffsetSettled(R, T)
<1>1. \A t \in Int : ZoneOffset(t) = BaseOffset
  BY DEF ZoneOffset, InForce
<1> DEFINE s == first - (n * Day + Day)
<1>2. s \in Int
  BY UnitsType
<1>3. ASSUME NEW rule \in R, NEW t \in T
      PROVE  s <= t - (NormalizedWindowCount(rule) * Day + Day)
  <2> DEFINE count == NormalizedWindowCount(rule)
  <2>1. count \in Nat /\ count <= n /\ t \in Int /\ first <= t
    BY CountType
  <2> HIDE DEF count
  <2>2. count * Day <= n * Day
    BY <2>1, UnitsType
  <2>3. count * Day \in Nat /\ n * Day \in Nat
    BY <2>1, UnitsType
  <2> QED BY <2>1, <2>2, <2>3, UnitsType DEF count
<1> HIDE DEF s
<1> QED BY <1>1, <1>2, <1>3 DEF OffsetSettled

(* The unit of a rule's window, its length, and where its windows begin to *)
(* be counted.                                                             *)
Unit(rule) == IF rule.window = "minute" THEN Minute
              ELSE IF rule.window = "hour" THEN Hour ELSE Day
Length(rule) == NormalizedWindowCount(rule) * Unit(rule)
Origin(rule) == IF rule.window = "day" THEN Epoch - BaseOffset ELSE 0

LEMMA LengthType ==
    ASSUME NEW rule \in QuotaRule
    PROVE  /\ Unit(rule) \in Nat /\ Unit(rule) > 0 /\ Unit(rule) <= Day
           /\ Length(rule) \in Nat /\ Length(rule) > 0
           /\ Length(rule) <= NormalizedWindowCount(rule) * Day
<1> DEFINE count == NormalizedWindowCount(rule)
           u == Unit(rule)
<1>1. u \in Nat /\ u > 0 /\ u <= Day
  BY UnitsType DEF Unit, Minute, Hour, Day
<1>2. count \in Nat /\ count > 0
  BY CountType
<1> HIDE DEF count, u
<1>3. count * u \in Nat /\ count * u > 0 /\ count * u <= count * Day
  BY <1>1, <1>2, UnitsType
<1> QED BY <1>1, <1>3 DEF count, u, Length

(* A window begins on the grid, contains the instant it is computed at,    *)
(* and ends where the next one begins.                                     *)
OnGrid(rule, t) ==
    LET start == WindowStart(rule, t)
    IN  /\ start <= t /\ t < start + Length(rule)
        /\ WindowEnd(rule, start) = start + Length(rule)
        /\ \E k \in Int : start = Origin(rule) + k * Length(rule)

(* Minutes and hours are on the grid in every timezone. *)
LEMMA ShortWindowOnGrid ==
    ASSUME NEW rule \in QuotaRule, rule.window # "day", NEW t \in Int
    PROVE  OnGrid(rule, t)
<1> DEFINE d == Length(rule)
           k == t \div d
<1>1. d \in Nat /\ d > 0
  BY LengthType
<1>2. Duration(rule) = d /\ Origin(rule) = 0
  BY DEF Duration, Length, Unit, Origin, QuotaRule
<1> HIDE DEF d
<1>3. k \in Int /\ k * d <= t /\ t < k * d + d /\ t % d = t - k * d
  BY <1>1, Quotient
<1> HIDE DEF k
<1>4. WindowStart(rule, t) = t - (t % d)
  BY <1>2 DEF WindowStart
<1>5. k * d \in Int
  BY <1>1, <1>3
<1>6. WindowStart(rule, t) = k * d /\ WindowStart(rule, t) = 0 + k * d
  BY <1>3, <1>4, <1>5
<1>7. WindowEnd(rule, k * d) = k * d + d
  BY <1>2 DEF WindowEnd
<1> QED BY <1>2, <1>3, <1>6, <1>7 DEF OnGrid, d

(* Days are on it where the offset has settled, and so are then the wall   *)
(* clocks of all windows.                                                  *)
LEMMA DayWindowOnGrid ==
    ASSUME NEW R \in SUBSET QuotaRule, NEW T \in SUBSET Int, OffsetSettled(R, T),
           NEW rule \in R, rule.window = "day", NEW t \in T
    PROVE  OnGrid(rule, t)
<1> DEFINE count == NormalizedWindowCount(rule)
           d == count * Day
           x == t - Reference
           a == x \div Day
           k == a \div count
           w == Epoch + k * d
<1>1. PICK s \in Int :
         /\ \A u \in Int : u \in {Epoch, Epoch - BaseOffset} \/ s <= u => ZoneOffset(u) = BaseOffset
         /\ s <= t - (count * Day + Day)
  BY DEF OffsetSettled
<1>2. /\ t \in Int /\ Epoch \in Int /\ BaseOffset \in Int
      /\ -Day < BaseOffset /\ BaseOffset < Day
      /\ Day \in Nat /\ Day > 0 /\ count \in Nat /\ count > 0
  BY WindowAssumption, UnitsType, CountType DEF OffsetSettled
<1>3. Length(rule) = d /\ Origin(rule) = Epoch - BaseOffset
  BY DEF Length, Unit, Origin
<1>4. Reference = Epoch - BaseOffset /\ WallClock(Reference) = Epoch
  <2>1. Epoch - BaseOffset \in Int
    BY <1>2
  <2>2. ZoneOffset(Epoch) = BaseOffset /\ ZoneOffset(Epoch - BaseOffset) = BaseOffset
    BY <1>1, <1>2, <2>1
  <2>3. Reference = Epoch - BaseOffset
    BY <2>2 DEF Reference, Date
  <2> QED BY <1>2, <2>2, <2>3 DEF WallClock
<1>5. BucketDay(rule, t) = k * count
  BY DEF BucketDay
<1> HIDE DEF count
<1>6. x \in Int
  BY <1>2, <1>4
<1> HIDE DEF x
<1>7. a \in Int /\ a * Day <= x /\ x < a * Day + Day
  BY <1>2, <1>6, Quotient
<1> HIDE DEF a
<1>8. k \in Int /\ k * count <= a /\ a < k * count + count
  BY <1>2, <1>7, Quotient
<1> HIDE DEF k
(* From the reference, k windows have passed and the next one has not. *)
<1>9. k * d \in Int /\ d \in Nat /\ k * d <= x /\ x < k * d + d /\ (k * count) * Day = k * d
  <2>1. k * count \in Int /\ k * count + count \in Int
    BY <1>2, <1>8
  <2>2. (k * count) * Day <= a * Day
    BY <1>2, <1>7, <1>8, <2>1
  <2>3. a + 1 <= k * count + count
    BY <1>7, <1>8, <2>1
  <2>4. (a + 1) * Day <= (k * count + count) * Day
    BY <1>2, <1>7, <2>1, <2>3
  <2>5. (a + 1) * Day = a * Day + Day
    BY <1>2, <1>7
  <2>6. (k * count + count) * Day = (k * count) * Day + count * Day
    BY <1>2, <2>1
  <2>7. (k * count) * Day = k * d
    BY <1>2, <1>8
  <2>8. d \in Nat /\ k * d \in Int /\ a * Day \in Int
    BY <1>2, <1>7, <1>8
  <2>9. d = count * Day
    OBVIOUS
  <2> HIDE DEF d
  <2>10. k * d <= a * Day /\ a * Day + Day <= k * d + d
    BY <2>2, <2>4, <2>5, <2>6, <2>7, <2>9
  <2> QED BY <1>2, <1>6, <1>7, <2>7, <2>8, <2>10
<1> HIDE DEF d
<1>10. w \in Int /\ w - BaseOffset <= t /\ t < w - BaseOffset + d
  BY <1>2, <1>4, <1>9 DEF x
<1> HIDE DEF w
<1>11. s <= w /\ s <= w - BaseOffset /\ s <= w + d /\ s <= w + d - BaseOffset
  <2>1. s <= t - (d + Day)
    BY <1>1 DEF d
  <2> QED BY <1>2, <1>9, <1>10, <2>1
<1>12. ASSUME NEW v \in Int, s <= v, s <= v - BaseOffset
       PROVE  Date(v) = v - BaseOffset
  <2>1. v - BaseOffset \in Int
    BY <1>2
  <2>2. ZoneOffset(v) = BaseOffset /\ ZoneOffset(v - BaseOffset) = BaseOffset
    BY <1>1, <1>12, <2>1
  <2> QED BY <2>2 DEF Date
<1>13. WindowStart(rule, t) = w - BaseOffset
  <2>1. WindowStart(rule, t) = Date(WallClock(Reference) + (k * count) * Day)
    BY <1>5 DEF WindowStart, AddDate
  <2>2. WallClock(Reference) + (k * count) * Day = w
    BY <1>4, <1>9 DEF w
  <2> QED BY <1>10, <1>11, <1>12, <2>1, <2>2
<1>14. WindowEnd(rule, w - BaseOffset) = w - BaseOffset + d
  <2>1. w - BaseOffset \in Int
    BY <1>2, <1>10
  <2>2. WallClock(w - BaseOffset) = w
    <3>1. ZoneOffset(w - BaseOffset) = BaseOffset
      BY <1>1, <1>11, <2>1
    <3> QED BY <1>2, <1>10, <3>1 DEF WallClock
  <2>3. WindowEnd(rule, w - BaseOffset) = Date(w + d)
    BY <2>2 DEF WindowEnd, AddDate, d, count
  <2>4. w + d \in Int
    BY <1>9, <1>10
  <2> QED BY <1>2, <1>9, <1>10, <1>11, <1>12, <2>3, <2>4
<1>15. w - BaseOffset = Origin(rule) + k * Length(rule)
  BY <1>2, <1>3, <1>9 DEF w
<1> QED BY <1>3, <1>8, <1>10, <1>13, <1>14, <1>15 DEF OnGrid

LEMMA WindowOnGrid ==
    ASSUME NEW R \in SUBSET QuotaRule, NEW T \in SUBSET Int, OffsetSettled(R, T),
           NEW rule \in R, NEW t \in T
    PROVE  OnGrid(rule, t)
BY ShortWindowOnGrid, DayWindowOnGrid

LEMMA WallClockOfStart ==
    ASSUME NEW R \in SUBSET QuotaRule, NEW T \in SUBSET Int, OffsetSettled(R, T),
           NEW rule \in R, NEW t \in T
    PROVE  WallClock(WindowStart(rule, t)) = WindowStart(rule, t) + BaseOffset
<1> DEFINE start == WindowStart(rule, t)
           count == NormalizedWindowCount(rule)
           long == count * Day
<1>1. PICK s \in Int :
         /\ \A u \in Int : u \in {Epoch, Epoch - BaseOffset} \/ s <= u => ZoneOffset(u) = BaseOffset
         /\ s <= t - (long + Day)
  BY DEF OffsetSettled
<1>2. start \in Int
  BY WindowType
<1>3. long \in Nat
  BY CountType, UnitsType
<1>4. t < start + Length(rule) /\ Length(rule) \in Nat /\ Length(rule) <= long
  BY WindowOnGrid, LengthType DEF OnGrid
<1> HIDE DEF start, long
<1>5. s <= start
  BY <1>1, <1>2, <1>3, <1>4, UnitsType
<1> QED BY <1>1, <1>2, <1>5 DEF WallClock, start

LEMMA WallClockOfInstant ==
    ASSUME NEW R \in SUBSET QuotaRule, NEW T \in SUBSET Int, OffsetSettled(R, T),
           NEW rule \in R, NEW t \in T
    PROVE  WallClock(t) = t + BaseOffset
<1> DEFINE long == NormalizedWindowCount(rule) * Day
<1>1. PICK s \in Int :
         /\ \A u \in Int : u \in {Epoch, Epoch - BaseOffset} \/ s <= u => ZoneOffset(u) = BaseOffset
         /\ s <= t - (long + Day)
  BY DEF OffsetSettled
<1>2. long \in Nat
  BY CountType, UnitsType
<1> HIDE DEF long
<1>3. s <= t
  BY <1>1, <1>2, UnitsType
<1> QED BY <1>1, <1>3 DEF WallClock

-------------------------------------------------------------------------------
(* How the windows of a rule follow one another.                           *)

(* The window of a later instant is the same, or begins after the end.     *)
LEMMA WindowsFollow ==
    ASSUME NEW rule \in QuotaRule, NEW t \in Int, NEW u \in Int, t <= u,
           OnGrid(rule, t), OnGrid(rule, u)
    PROVE  \/ WindowStart(rule, u) = WindowStart(rule, t)
           \/ WindowEnd(rule, WindowStart(rule, t)) <= WindowStart(rule, u)
<1> DEFINE d == Length(rule)
           o == Origin(rule)
<1>1. d \in Nat /\ d > 0 /\ o \in Int
  BY LengthType, WindowAssumption DEF Origin
<1>2. PICK k \in Int : WindowStart(rule, t) = o + k * d
  BY DEF OnGrid
<1>3. PICK j \in Int : WindowStart(rule, u) = o + j * d
  BY DEF OnGrid
<1>4. /\ WindowEnd(rule, WindowStart(rule, t)) = WindowStart(rule, t) + d
      /\ WindowStart(rule, t) <= t /\ u < WindowStart(rule, u) + d
  BY DEF OnGrid
<1> HIDE DEF d, o
<1>5. k * d \in Int /\ j * d \in Int
  BY <1>1
<1>6. k * d < j * d + d
  BY <1>1, <1>2, <1>3, <1>4, <1>5
<1>7. k <= j
  BY <1>1, <1>6, Multiples
<1>8. CASE k = j
  BY <1>2, <1>3, <1>8
<1>9. CASE k + 1 <= j
  <2>1. (k + 1) * d <= j * d
    BY <1>1, <1>9
  <2>2. (k + 1) * d = k * d + d
    BY <1>1
  <2> QED BY <1>1, <1>2, <1>3, <1>4, <1>5, <2>1, <2>2
<1> QED BY <1>7, <1>8, <1>9

(* Windows of one rule that have the same name are the same window.        *)
LEMMA NameOfWindow ==
    ASSUME NEW R \in SUBSET QuotaRule, NEW T \in SUBSET Int, OffsetSettled(R, T),
           NEW rule \in R, NEW t \in T, NEW u \in T,
           PeriodKey(rule, t) = PeriodKey(rule, u)
    PROVE  WindowStart(rule, t) = WindowStart(rule, u)
<1> DEFINE unit == Unit(rule)
           count == NormalizedWindowCount(rule)
           o == Origin(rule)
           c == o + BaseOffset
<1>1. /\ unit \in Nat /\ unit > 0 /\ count \in Nat
      /\ o \in Int /\ BaseOffset \in Int /\ c \in Int
  BY LengthType, CountType, WindowAssumption DEF Origin
<1>2. rule.window \in {"minute", "hour", "day"}
  BY DEF QuotaRule
<1>3. ASSUME NEW v \in T
      PROVE  PeriodKey(rule, v) = <<rule.window, WallClock(WindowStart(rule, v)) \div unit>>
  BY <1>2 DEF PeriodKey, Unit
<1>4. WallClock(WindowStart(rule, t)) \div unit = WallClock(WindowStart(rule, u)) \div unit
  BY <1>3
<1>5. ASSUME NEW v \in T
      PROVE  \E n \in Int : /\ WindowStart(rule, v) = o + n * unit
                            /\ WallClock(WindowStart(rule, v)) \div unit = c \div unit + n
  <2>1. PICK k \in Int : WindowStart(rule, v) = o + k * (count * unit)
    BY WindowOnGrid DEF OnGrid, Length
  <2>2. WallClock(WindowStart(rule, v)) = WindowStart(rule, v) + BaseOffset
    BY WallClockOfStart
  <2> HIDE DEF unit, count, o
  <2> DEFINE n == k * count
  <2>3. n \in Int /\ k * (count * unit) = n * unit
    BY <1>1
  <2> HIDE DEF n
  <2>4. n * unit \in Int
    BY <1>1, <2>3
  <2>5. WallClock(WindowStart(rule, v)) = c + n * unit
    BY <1>1, <2>1, <2>2, <2>3, <2>4
  <2> HIDE DEF c
  <2>6. (c + n * unit) \div unit = c \div unit + n
    BY <1>1, <2>3, QuotientShift
  <2> QED BY <2>1, <2>3, <2>5, <2>6
<1>6. PICK m \in Int : /\ WindowStart(rule, t) = o + m * unit
                       /\ WallClock(WindowStart(rule, t)) \div unit = c \div unit + m
  BY <1>5
<1>7. PICK n \in Int : /\ WindowStart(rule, u) = o + n * unit
                       /\ WallClock(WindowStart(rule, u)) \div unit = c \div unit + n
  BY <1>5
<1>8. c \div unit \in Int
  <2> HIDE DEF c, unit
  <2> QED BY <1>1, Quotient
<1> HIDE DEF c, unit, o
<1>9. m = n
  BY <1>4, <1>6, <1>7, <1>8
<1> QED BY <1>6, <1>7, <1>9

-------------------------------------------------------------------------------
(* The expiry.                                                             *)

(* Less than a second before the end of the window; in the window's last   *)
(* second, less than a second after it.                                    *)
LEMMA ExpiryAtEnd ==
    ASSUME NEW rule \in QuotaRule, NEW t \in Int, OnGrid(rule, t)
    PROVE  LET end    == WindowEnd(rule, WindowStart(rule, t))
               expiry == t + PeriodTTL(rule, t) * Second
           IN  IF t + Second <= end THEN end - Second < expiry /\ expiry <= end
                                    ELSE end <= expiry /\ expiry < end + Second
<1> DEFINE end == WindowEnd(rule, WindowStart(rule, t))
           x == end - t
           q == x \div Second
           ttl == PeriodTTL(rule, t)
<1>1. end \in Int /\ t < end
  BY WindowType DEF OnGrid
<1>2. ttl = IF q < 1 THEN 1 ELSE q
  BY DEF PeriodTTL
<1> HIDE DEF end
<1>3. x \in Int /\ x > 0
  BY <1>1
<1>4. Second \in Nat /\ Second > 0
  BY UnitsType
<1> HIDE DEF x, ttl
<1>5. q \in Int /\ q * Second <= x /\ x < q * Second + Second
  BY <1>3, <1>4, Quotient
<1> HIDE DEF q
<1>6. q * Second \in Int
  BY <1>4, <1>5
<1>7. CASE t + Second <= end
  <2>1. Second <= x
    BY <1>1, <1>4, <1>7 DEF x
  <2>2. q >= 1
    <3>1. 1 * Second < q * Second + Second
      BY <1>3, <1>4, <1>5, <1>6, <2>1
    <3> QED BY <1>4, <1>5, <3>1, Multiples
  <2>3. ttl = q
    BY <1>2, <1>5, <2>2
  <2>4. end - Second < t + q * Second /\ t + q * Second <= end
    BY <1>1, <1>4, <1>5, <1>6 DEF x
  <2> QED BY <1>7, <2>3, <2>4 DEF end, ttl
<1>8. CASE ~(t + Second <= end)
  <2>1. x < Second
    BY <1>1, <1>4, <1>8 DEF x
  <2>2. q < 1
    <3> SUFFICES ASSUME q >= 1 PROVE FALSE
      BY <1>5
    <3>1. q * Second >= 1 * Second
      BY <1>4, <1>5
    <3> QED BY <1>3, <1>4, <1>5, <1>6, <2>1, <3>1
  <2>3. ttl * Second = Second
    BY <1>2, <1>4, <2>2
  <2>4. end <= t + Second /\ t + Second < end + Second
    BY <1>1, <1>4, <1>8
  <2> QED BY <1>8, <2>3, <2>4 DEF end, ttl
<1> QED BY <1>7, <1>8

===============================================================================
