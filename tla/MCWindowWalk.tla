----------------------------- MODULE MCWindowWalk -----------------------------
(***************************************************************************)
(* Instances of WindowWalk for TLC: every half hour of a week and the      *)
(* instants around it, half a second apart, for windows of one and of      *)
(* several units, in a timezone of a fixed offset.                         *)
(***************************************************************************)
EXTENDS WindowWalk

MCSecond == 2
HalfHour == 30 * Minute

AllRules == [window : {"minute", "hour", "day"}, count : {1, 3, 7}, limit : {1}]

Week == {n * HalfHour + d : n \in 1..336, d \in {-3, -1, 0, 1, 61}}

EightHours == 8 * Hour              \* Asia/Shanghai
NoZone     == {}

===============================================================================
