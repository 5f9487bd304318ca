------------------------------- MODULE CalmQuota ------------------------------
(***************************************************************************)
(* In calm conditions the proxy's quota is a pool of seats: when no Redis  *)
(* call fails, the process does not die, and the modelled time stays in    *)
(* one window of every rule and short of the expiry of every key.          *)
(***************************************************************************)
EXTENDS QuotaProxy

ASSUME CalmAssumption ==
    /\ Faults = {}
    /\ \A rule \in Rules : \A t, u \in Instants :
          /\ PeriodKey(RuleConf[rule], t) = PeriodKey(RuleConf[rule], u)
          /\ u < t + PeriodTTL(RuleConf[rule], t) * Second

(* Where a request stands towards the pool. *)
Phase(r) == CASE pc[r] \in {"upstream", "settle", "eval"} -> "seated"
              [] pc[r] \in {"stream", "served", "failed"} -> "done"
              [] pc[r] = "limited"                        -> "refused"
              [] OTHER                                    -> "out"

Pool == INSTANCE SeatPool WITH
            Keys     <- Key,
            LimitsAt <- [k \in Key |-> {Limit(rule) : rule \in SharedBy(k)}],
            seats    <- held,
            success  <- [k \in Key |-> store[k].success],
            phase    <- [r \in Reqs |-> Phase(r)]

(* The three scripts and the handler around them implement the pool: the   *)
(* counter pending, which knows nothing of who holds a seat, grants and    *)
(* refuses as the set of seated requests would.                            *)
IsASeatPool == Pool!Spec

===============================================================================
