----------------------------- MODULE MCQuotaProxy -----------------------------
(***************************************************************************)
(* Instances of QuotaProxy for TLC.  Half a second is a tick, so that a    *)
(* request may fall between two whole seconds, and the timezone is eight   *)
(* hours ahead of UTC, as in config.yaml.example.                          *)
(***************************************************************************)
EXTENDS QuotaProxy, TLC

CONSTANTS r1, r2, r3, alice

TwoReqs   == {r1, r2}
ThreeReqs == {r1, r2, r3}
OneIdent  == {alice}

MCSecond     == 2
EightHours   == 8 * 60 * 60 * MCSecond
NoZoneTable  == {}

Rule(window, count, limit) == [window |-> window, count |-> count, limit |-> limit]

(* One rule; two rules on the same minutes; rules of two units. *)
Single   == [chat |-> Rule("minute", 1, 1)]
Sharing  == [chat |-> Rule("minute", 1, 1), burst |-> Rule("minute", 1, 2)]
TwoUnits == [chat |-> Rule("minute", 1, 1), batch |-> Rule("hour", 1, 2)]

(* 120 is a minute boundary, and 7200 an hour boundary. *)
MinuteEnd    == {119, 120}
Rollover     == {80, 119, 120}
HourEnd      == {7199, 7200}
LongAfter    == {119, 100000}

NoFaults  == {}
AllFaults == {"lose", "drop", "crash"}

Symmetry == Permutations(Reqs) \cup Permutations(Idents)

===============================================================================
