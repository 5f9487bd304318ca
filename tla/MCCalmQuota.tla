------------------------------ MODULE MCCalmQuota -----------------------------
(***************************************************************************)
(* Instances of CalmQuota for TLC: two rules that share a key.            *)
(***************************************************************************)
EXTENDS CalmQuota

CONSTANTS r1, r2, r3, alice

ThreeReqs == {r1, r2, r3}
OneIdent  == {alice}

MCSecond    == 2
EightHours  == 8 * 60 * 60 * MCSecond
NoZoneTable == {}
NoFaults    == {}
TwoInstants == {3, 80}

Rule(window, count, limit) == [window |-> window, count |-> count, limit |-> limit]

Sharing == [chat |-> Rule("minute", 1, 1), burst |-> Rule("minute", 1, 2)]

===============================================================================
