------------------------------ MODULE QuotaWindow ------------------------------
(***************************************************************************)
(* The time arithmetic of quota.Manager: when the window of a rule starts  *)
(* and ends, the name it gives to the Redis key, and the expiry in seconds *)
(* it asks Redis for.                                                      *)
(*                                                                         *)
(* An instant is a number of ticks, Second of them to the second, counted  *)
(* from the origin of Go's time.Time.Truncate, and Epoch is the instant    *)
(* 1970-01-01T00:00 UTC.  The configured timezone is its table of offset   *)
(* changes, in ticks ahead of UTC, and the offset before the first one.    *)
(***************************************************************************)
EXTENDS Integers

CONSTANTS Second, Epoch, BaseOffset, ZoneTable

Minute == 60 * Second
Hour   == 60 * Minute
Day    == 24 * Hour

(* Epoch is a whole number of days after the origin: time.Truncate to a    *)
(* minute or an hour lands on UTC minutes and hours.                       *)
ASSUME WindowAssumption ==
    /\ Second \in Nat \ {0}
    /\ Epoch \in Nat /\ Epoch % Day = 0
    /\ BaseOffset \in Int
    /\ ZoneTable \subseteq [from : Int, offset : Int]

-------------------------------------------------------------------------------
(* The calendar of Go's time package, in the configured timezone.          *)

InForce(z, t) == z.from <= t /\ \A y \in ZoneTable : y.from <= t => y.from <= z.from

ZoneOffset(t) == IF \E z \in ZoneTable : InForce(z, t)
                 THEN (CHOOSE z \in ZoneTable : InForce(z, t)).offset
                 ELSE BaseOffset

WallClock(t) == t + ZoneOffset(t)

(* time.Date: the offset is looked up at the wall-clock time first, then   *)
(* at the instant that offset leads to.                                    *)
Date(wall) == wall - ZoneOffset(wall - ZoneOffset(wall))

AddDate(t, days) == Date(WallClock(t) + days * Day)

Reference_InUTC == Epoch

Reference == Date(Epoch)

-------------------------------------------------------------------------------
(* A rule, reduced to the fields that the quota arithmetic reads. *)
QuotaRule == [window : {"minute", "hour", "day"}, count : Int, limit : Int]

NormalizedWindowCount(rule) == IF rule.count < 1 THEN 1 ELSE rule.count

Duration(rule) ==
    NormalizedWindowCount(rule) * (IF rule.window = "minute" THEN Minute ELSE Hour)

(* The day window's bucket: whole 24-hour spans since the 1970 reference,  *)
(* rounded down to a multiple of the window count.                         *)
BucketDay_NotScaled(rule, now) ==
    ((now - Reference) \div Day) \div NormalizedWindowCount(rule)

BucketDay(rule, now) ==
    LET count == NormalizedWindowCount(rule)
    IN  (((now - Reference) \div Day) \div count) * count

WindowStart(rule, now) ==
    IF rule.window = "day" THEN AddDate(Reference, BucketDay(rule, now))
                           ELSE now - (now % Duration(rule))

WindowEnd(rule, start) ==
    IF rule.window = "day" THEN AddDate(start, NormalizedWindowCount(rule))
                           ELSE start + Duration(rule)

(* Whole seconds until the window ends, and never less than one. *)
PeriodTTL_OneLess(rule, now) ==
    LET ttl == (WindowEnd(rule, WindowStart(rule, now)) - now) \div Second - 1
    IN  IF ttl < 1 THEN 1 ELSE ttl

PeriodTTL(rule, now) ==
    LET ttl == (WindowEnd(rule, WindowStart(rule, now)) - now) \div Second
    IN  IF ttl < 1 THEN 1 ELSE ttl

(* The window's start on the wall clock, cut to the unit the layout shows. *)
(* The three layouts have different lengths, so names of different units   *)
(* never collide.                                                          *)
PeriodKey_NoMinutes(rule, now) ==
    IF rule.window = "day" THEN <<"day", WallClock(WindowStart(rule, now)) \div Day>>
                           ELSE <<"hour", WallClock(WindowStart(rule, now)) \div Hour>>

PeriodKey(rule, now) ==
    <<rule.window, WallClock(WindowStart(rule, now)) \div
                       (CASE rule.window = "minute" -> Minute
                          [] rule.window = "hour"   -> Hour
                          [] rule.window = "day"    -> Day)>>

===============================================================================
