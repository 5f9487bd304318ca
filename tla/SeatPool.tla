------------------------------- MODULE SeatPool -------------------------------
(***************************************************************************)
(* What the quota promises within one window: a pool of seats under each   *)
(* key.  A request takes a seat while the successes and the seats taken    *)
(* leave room under its limit, and gives it back by succeeding or failing; *)
(* it is refused only when there is no room.                               *)
(***************************************************************************)
EXTENDS Integers, FiniteSets

CONSTANTS
    Reqs,       \* the requests
    Keys,       \* the keys, one pool of seats each
    LimitsAt    \* the limits a request may come to each key with

VARIABLES
    seats,      \* the requests that hold a seat, at each key
    success,    \* the requests that succeeded, at each key
    phase       \* "out", "seated", "refused" or "done"

vars == <<seats, success, phase>>

Init == /\ seats = [k \in Keys |-> {}]
        /\ success = [k \in Keys |-> 0]
        /\ phase = [r \in Reqs |-> "out"]

Room(k, limit) == success[k] + Cardinality(seats[k]) < limit

Become(r, from, to) == phase[r] = from /\ phase' = [phase EXCEPT ![r] = to]

Take(r, k) ==
    /\ Become(r, "out", "seated")
    /\ \E limit \in LimitsAt[k] : Room(k, limit)
    /\ seats' = [seats EXCEPT ![k] = @ \cup {r}]
    /\ UNCHANGED success

Refuse(r, k) ==
    /\ Become(r, "out", "refused")
    /\ \E limit \in LimitsAt[k] : ~Room(k, limit)
    /\ UNCHANGED <<seats, success>>

Leave(r, k) ==
    /\ Become(r, "seated", "done")
    /\ r \in seats[k]
    /\ seats' = [seats EXCEPT ![k] = @ \ {r}]

Fail(r, k) == Leave(r, k) /\ UNCHANGED success

Succeed(r, k) == Leave(r, k) /\ success' = [success EXCEPT ![k] = @ + 1]

Next == \E r \in Reqs, k \in Keys :
            Take(r, k) \/ Refuse(r, k) \/ Fail(r, k) \/ Succeed(r, k)

Spec == Init /\ [][Next]_vars

===============================================================================
