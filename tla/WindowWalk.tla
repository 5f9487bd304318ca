------------------------------ MODULE WindowWalk ------------------------------
(***************************************************************************)
(* A clock that moves through sampled instants under one rule: what the    *)
(* manager would answer, at each instant, for the rule's window, key name  *)
(* and expiry, and how the answers of successive instants fit together.    *)
(***************************************************************************)
EXTENDS QuotaWindow, FiniteSetsExt

CONSTANTS
    RuleSet,    \* the rules tried, each walked on its own
    Samples     \* the instants visited: bounds time

ASSUME WalkAssumption ==
    /\ RuleSet \subseteq QuotaRule
    /\ Samples # {} /\ Samples \subseteq Int
    /\ \A t \in Samples : t >= Reference

VARIABLES rule, now

Later == {t \in Samples : now < t}

Init == rule \in RuleSet /\ now = Min(Samples)

Tick == Later # {} /\ now' = Min(Later) /\ UNCHANGED rule

Finished == Later = {} /\ UNCHANGED <<rule, now>>

Next == Tick \/ Finished

Spec == Init /\ [][Next]_<<rule, now>>

Start == WindowStart(rule, now)
End == WindowEnd(rule, Start)
Name == PeriodKey(rule, now)

-------------------------------------------------------------------------------
(* The window the manager computes contains the instant it computed it at. *)
InsideItsWindow == Start <= now /\ now < End

(* The expiry asked for falls within the last second of the window, except *)
(* during that second, when it falls less than a second after the window.  *)
ExpiryMeetsWindowEnd ==
    LET expiry == now + PeriodTTL(rule, now) * Second
    IN  IF now + Second <= End THEN End - Second < expiry /\ expiry <= End
                               ELSE End <= expiry /\ expiry < End + Second

(* Two successive instants have the same key name exactly when they are in *)
(* the same window, and a window begins only where the last one has ended. *)
KeyNamesTheWindow ==
    [][/\ Name' = Name <=> Start' = Start
       /\ Start' = Start \/ End <= Start']_<<rule, now>>

(* config.yaml.example:71 and 72: a day is cut at 00:00 of the timezone,   *)
(* and an hour has the timezone's boundaries: both true as long as the     *)
(* offset is a fixed number of whole hours.                                *)
CutsOnLocalTime ==
    rule.count = 1 =>
        /\ rule.window = "day" => WallClock(Start) = WallClock(now) - (WallClock(now) % Day)
        /\ rule.window = "hour" => WallClock(Start) % Hour = 0

===============================================================================
