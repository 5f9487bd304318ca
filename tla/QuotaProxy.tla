------------------------------ MODULE QuotaProxy ------------------------------
(***************************************************************************)
(* Concurrent requests through QuotaMiddleware.Handler, the Redis calls of *)
(* quota.Manager they make, the store those calls share, and the clock.    *)
(*                                                                         *)
(* A request reserves a seat under the key of the window the clock is in,  *)
(* waits for the upstream, and settles: Confirm or Rollback, under a key   *)
(* computed again from the clock at that time.  Every clock reading, every *)
(* Redis round trip and the wait for the upstream is a step of its own, so *)
(* other requests and the clock move in between.                           *)
(***************************************************************************)
EXTENDS LuaScripts, QuotaWindow, FiniteSets

CONSTANTS
    Reqs,       \* the HTTP requests (one goroutine each)
    Idents,     \* what identity.Identifier may answer
    Rules,      \* names of the configured quota rules
    RuleConf,   \* the configuration of each rule
    Instants,   \* the instants at which something may happen: bounds time
    MaxRetries, \* redis.Options.MaxRetries
    FailOpen,   \* quota.fail_open
    Faults      \* which of "lose", "drop" and "crash" may happen

ASSUME ProxyAssumption ==
    /\ IsFiniteSet(Reqs)
    /\ RuleConf \in [Rules -> QuotaRule]
    /\ Instants \subseteq Nat /\ Instants # {}
    /\ \A t \in Instants : t >= Reference
    /\ MaxRetries \in Nat
    /\ FailOpen \in BOOLEAN
    /\ Faults \subseteq {"lose", "drop", "crash"}

VARIABLES
    now,    \* the clock, shared by the proxy and Redis
    store,  \* Redis: the hash under each key
    pc,     \* where each request is in the handler
    req,    \* the locals of each request
    held,   \* history: the requests whose reservation a key still counts
    stray   \* history: settlements a key took from requests it did not count

vars == <<now, store, pc, req, held, stray>>

Limit(rule) == RuleConf[rule].limit

(* The names the windows of a rule can have, and the keys.                 *)
(* buildKey joins the window's name and the identity, and nothing else.    *)
Periods(rule) == {PeriodKey(RuleConf[rule], t) : t \in Instants}
BuildKey(period, ident) == <<period, ident>>
Key == {BuildKey(p, i) : p \in UNION {Periods(rule) : rule \in Rules}, i \in Idents}

NoKey == <<>>
NoReq == [rule |-> "", ident |-> NoKey, key |-> NoKey, ttl |-> 0, try |-> 0,
          op |-> "none", sse |-> FALSE, hurt |-> FALSE]

InFlight == {"ttl", "reserve", "upstream", "settle", "eval", "stream", "forward"}
Final == {"served", "failed", "limited", "unavailable", "passed", "crashed"}

Init ==
    /\ now \in Instants
    /\ \A t \in Instants : now <= t
    /\ store = [k \in Key |-> NoHash]
    /\ pc = [r \in Reqs |-> "new"]
    /\ req = [r \in Reqs |-> NoReq]
    /\ held = [k \in Key |-> {}]
    /\ stray = [k \in Key |-> 0]

redis == <<store, held, stray>>

At(r, from) == pc[r] = from
Goto(r, to) == pc' = [pc EXCEPT ![r] = to]

-------------------------------------------------------------------------------
(* Script executions.  held and stray follow the reservations: a grant     *)
(* seats the request at the key, a settlement frees its seat there, and a  *)
(* settlement at a key that does not seat the request is a stray.          *)

ReserveExecuted(r) ==
    LET k == req[r].key
        limit == Limit(req[r].rule)
    IN  /\ store' = [store EXCEPT ![k] =
               TryReserveScript(@, req[r].rule, limit, now + req[r].ttl * Second)]
        /\ held' = [held EXCEPT ![k] =
               IF Granted(store[k], limit) THEN @ \cup {r} ELSE @]
        /\ UNCHANGED stray

SettleExecuted(r) ==
    LET k == req[r].key
    IN  /\ store' = [store EXCEPT ![k] =
               IF req[r].op = "confirm" THEN ConfirmScript(@) ELSE RollbackScript(@)]
        /\ held' = [held EXCEPT ![k] = @ \ {r}]
        /\ stray' = [stray EXCEPT ![k] = IF r \in held[k] THEN @ ELSE @ + 1]

Executed(r) == \/ At(r, "reserve") /\ ReserveExecuted(r)
               \/ At(r, "eval") /\ SettleExecuted(r)

-------------------------------------------------------------------------------
(* Entering the handler.                                                   *)

(* Quota disabled, excluded path or no matching rule: not counted. *)
Pass(r) ==
    /\ At(r, "new")
    /\ Goto(r, "forward")
    /\ UNCHANGED <<now, req, redis>>

(* A rule matches, the identity is extracted and getPeriodKey reads the clock. *)
Match(r) ==
    /\ At(r, "new")
    /\ \E rule \in Rules, ident \in Idents :
          req' = [req EXCEPT ![r] = [NoReq EXCEPT
                    !.rule = rule, !.ident = ident,
                    !.key = BuildKey(PeriodKey(RuleConf[rule], now), ident)]]
    /\ Goto(r, "ttl")
    /\ UNCHANGED <<now, redis>>

(* getPeriodTTL reads the clock a second time. *)
ReadTTL(r) ==
    /\ At(r, "ttl")
    /\ req' = [req EXCEPT ![r].ttl = PeriodTTL(RuleConf[req[r].rule], now)]
    /\ Goto(r, "reserve")
    /\ UNCHANGED <<now, redis>>

ReserveReply(r) ==
    /\ At(r, "reserve")
    /\ ReserveExecuted(r)
    /\ Goto(r, IF Granted(store[req[r].key], Limit(req[r].rule))
               THEN "upstream" ELSE "limited")
    /\ UNCHANGED <<now, req>>

-------------------------------------------------------------------------------
(* The upstream's answer, and the settlement it leads to.                  *)

Settle(r, op, sse) ==
    /\ req' = [req EXCEPT ![r].op = op, ![r].sse = sse]
    /\ Goto(r, "settle")
    /\ UNCHANGED <<now, redis>>

(* No answer, an unreadable or oversized body, an answer the judge refuses, *)
(* or an SSE stream that is refused, fails or ends before its first event.  *)
UpstreamFails_NoRollback(r) ==
    At(r, "upstream") /\ Goto(r, "failed") /\ UNCHANGED <<now, req, redis>>

UpstreamFails(r) == At(r, "upstream") /\ Settle(r, "rollback", FALSE)

UpstreamSucceeds(r) == At(r, "upstream") /\ Settle(r, "confirm", FALSE)

(* The first SSE event has been written to the client and flushed. *)
FirstEvent(r) == At(r, "upstream") /\ Settle(r, "confirm", TRUE)

(* Confirm and Rollback compute the key again, from the clock as it is now. *)
SettleKey(r) ==
    /\ At(r, "settle")
    /\ req' = [req EXCEPT ![r].try = 0, ![r].key =
                  BuildKey(PeriodKey(RuleConf[req[r].rule], now), req[r].ident)]
    /\ Goto(r, "eval")
    /\ UNCHANGED <<now, redis>>

(* Where the handler goes on once its settlement has been answered. *)
AfterSettle(r) == IF req[r].op = "rollback" THEN "failed"
                  ELSE IF req[r].sse THEN "stream" ELSE "served"

SettleReply(r) ==
    /\ At(r, "eval")
    /\ SettleExecuted(r)
    /\ Goto(r, AfterSettle(r))
    /\ UNCHANGED <<now, req>>

StreamEnds(r) ==
    /\ At(r, "stream")
    /\ Goto(r, "served")
    /\ UNCHANGED <<now, req, redis>>

(* forwardRequest: whatever the upstream answers, no counter moves. *)
Forwarded(r) ==
    /\ At(r, "forward")
    /\ Goto(r, "passed")
    /\ UNCHANGED <<now, req, redis>>

-------------------------------------------------------------------------------
(* Redis calls that fail.  The client sends the same script again until    *)
(* MaxRetries is used up; then the manager's caller sees the error.        *)

(* A failed TryReserve lets the request through or answers 503; a failed   *)
(* Confirm is only logged, except on a stream, where StreamSSE returns     *)
(* unconfirmed and handleSSE rolls back; a failed Rollback is only logged. *)
GiveUp_ConfirmAgain(r) ==
    /\ req' = [req EXCEPT ![r].hurt = TRUE]
    /\ Goto(r, IF At(r, "reserve") THEN "unavailable"
               ELSE IF req[r].op = "confirm" THEN "settle" ELSE "failed")

GiveUp(r) ==
    \/ /\ At(r, "reserve")
       /\ Goto(r, IF FailOpen THEN "forward" ELSE "unavailable")
       /\ req' = [req EXCEPT ![r].hurt = TRUE]
    \/ /\ At(r, "eval")
       /\ IF req[r].op = "confirm" /\ req[r].sse
          THEN /\ Goto(r, "settle")
               /\ req' = [req EXCEPT ![r].hurt = TRUE, ![r].op = "rollback"]
          ELSE /\ Goto(r, AfterSettle(r))
               /\ req' = [req EXCEPT ![r].hurt = TRUE]

NoReply(r) ==
    IF req[r].try < MaxRetries
    THEN /\ req' = [req EXCEPT ![r].hurt = TRUE, ![r].try = @ + 1]
         /\ UNCHANGED pc
    ELSE GiveUp(r)

(* The script ran, and its answer is lost or comes after the read timeout. *)
LoseReply(r) ==
    /\ "lose" \in Faults
    /\ Executed(r)
    /\ NoReply(r)
    /\ UNCHANGED now

(* The script never reached Redis. *)
LoseCall(r) ==
    /\ "drop" \in Faults
    /\ At(r, "reserve") \/ At(r, "eval")
    /\ NoReply(r)
    /\ UNCHANGED <<now, redis>>

-------------------------------------------------------------------------------
(* The process dies: every request in it is gone, the store stays. *)
Crash ==
    /\ "crash" \in Faults
    /\ \E r \in Reqs : pc[r] \in InFlight
    /\ pc' = [r \in Reqs |-> IF pc[r] \in InFlight THEN "crashed" ELSE pc[r]]
    /\ UNCHANGED <<now, req, redis>>

(* Time moves on, and Redis drops the keys whose expiry has come. *)
Expired(k, t) == store[k].live /\ store[k].expireAt # NoExpiry /\ store[k].expireAt <= t

Advance ==
    \E t \in Instants :
       /\ now < t
       /\ now' = t
       /\ store' = [k \in Key |-> IF Expired(k, t) THEN NoHash ELSE store[k]]
       /\ held'  = [k \in Key |-> IF Expired(k, t) THEN {} ELSE held[k]]
       /\ stray' = [k \in Key |-> IF Expired(k, t) THEN 0 ELSE stray[k]]
       /\ UNCHANGED <<pc, req>>

(* Every request has been answered and the last instant is reached. *)
Finished ==
    /\ \A r \in Reqs : pc[r] \in Final
    /\ \A t \in Instants : t <= now
    /\ UNCHANGED vars

-------------------------------------------------------------------------------
RedisCall(r) == ReserveReply(r) \/ SettleReply(r) \/ LoseReply(r) \/ LoseCall(r)

Handler(r) ==
    \/ Pass(r) \/ Match(r) \/ ReadTTL(r)
    \/ UpstreamFails(r) \/ UpstreamSucceeds(r) \/ FirstEvent(r)
    \/ SettleKey(r) \/ RedisCall(r)
    \/ StreamEnds(r) \/ Forwarded(r)

Next == (\E r \in Reqs : Handler(r)) \/ Crash \/ Advance \/ Finished

Spec == Init /\ [][Next]_vars

(* The manager's own steps are a few instructions, a Redis call ends at     *)
(* the latest with its timeouts, and time passes.  The upstream, the stream *)
(* and the clients owe nothing.                                             *)
Fairness ==
    /\ \A r \in Reqs : /\ WF_vars(ReadTTL(r))
                       /\ WF_vars(SettleKey(r))
                       /\ WF_vars(RedisCall(r))
    /\ WF_vars(Advance)

FairSpec == Spec /\ Fairness

-------------------------------------------------------------------------------
(* Safety.                                                                 *)

(* The locals of a request; rule, ident and key are set once it matches. *)
Locals == [rule  : Rules \cup {""},
           ident : Idents \cup {NoKey},
           key   : Key \cup {NoKey},
           ttl   : Int,
           try   : 0..MaxRetries,
           op    : {"none", "confirm", "rollback"},
           sse   : BOOLEAN,
           hurt  : BOOLEAN]

Typed ==
    /\ now \in Instants
    /\ store \in [Key -> Hash(Rules)]
    /\ pc \in [Reqs -> {"new"} \cup InFlight \cup Final]
    /\ req \in [Reqs -> Locals]
    /\ held \in [Key -> SUBSET Reqs]
    /\ stray \in [Key -> Nat]

(* The rules whose requests use a key. *)
SharedBy(k) == {rule \in Rules : k[1] \in Periods(rule)}

(* Where a request's next script, or the one under way, has its key. *)
Bound == {"ttl", "reserve", "upstream", "settle", "eval", "stream"}

HasKey(q) == /\ q.rule \in Rules
             /\ q.ident \in Idents
             /\ q.key \in Key
             /\ q.rule \in SharedBy(q.key)

Attached == \A r \in Reqs : pc[r] \in Bound => HasKey(req[r])

(* Every variable has its type, and every script runs on a key of its      *)
(* request's own rule: in particular no script drives the counter pending  *)
(* of a key below zero, and no retry count exceeds MaxRetries.             *)
TypeOK == Typed /\ Attached

(* A limit is not validated: a negative one admits as little as zero. *)
Admits(rule) == IF Limit(rule) < 0 THEN 0 ELSE Limit(rule)

(* What a key counts as successful, plus the requests it still has a seat  *)
(* for, exceeds the largest limit of the rules that share the key by no    *)
(* more than the settlements that came to it from elsewhere: through every *)
(* crash, resent script, give-up and window change, only a Confirm or      *)
(* Rollback that lands on a key without its reservation can let a request  *)
(* in above the limit.                                                     *)
OvershootBounded ==
    \A k \in Key : \E rule \in SharedBy(k) :
        store[k].success + Cardinality(held[k]) <= Admits(rule) + stray[k]

(* pending may miss seats only to the extent that strays took them: a     *)
(* reservation is forgotten by no retry, crash or other request's failure. *)
SeatsCounted ==
    \A k \in Key : Cardinality(held[k]) <= store[k].pending + stray[k]

(* Without failures pending counts no seat that nobody holds. *)
PendingBacked ==
    Faults = {} => \A k \in Key : store[k].pending <= Cardinality(held[k])

(* A request that is over and still has a seat was cut short by a crash,   *)
(* met a failed Redis call, or settled in another window than the one it   *)
(* reserved in: no path of the handler forgets to settle.                  *)
NoForgottenSeat ==
    \A k \in Key : \A r \in held[k] :
        pc[r] \in Final => pc[r] = "crashed" \/ req[r].hurt \/ req[r].key # k

(* Without failures a request is turned away only when as many requests as *)
(* its limit have succeeded, or may still succeed, under the key that it   *)
(* computed before the call.                                               *)
RefusedOnlyWhenFull ==
    [][Faults = {} =>
         \A r \in Reqs : (pc[r] = "reserve" /\ pc'[r] = "limited") =>
            LET k == req[r].key
            IN  store[k].success + Cardinality(held[k]) >= Limit(req[r].rule)]_vars

(* When the window of a key ends, for a rule that uses the key. *)
WindowEnds(k, rule) ==
    {WindowEnd(RuleConf[rule], WindowStart(RuleConf[rule], t)) :
        t \in {u \in Instants : PeriodKey(RuleConf[rule], u) = k[1]}}

(* A key that Redis will drop is dropped less than a second before its     *)
(* window ends, or later: neither a script that runs long after the clock  *)
(* was read, nor a window change between the two clock readings, cuts a    *)
(* window's counts shorter than that.                                      *)
KeptToLastSecond ==
    \A k \in Key : (store[k].live /\ store[k].expireAt # NoExpiry) =>
        \E rule \in SharedBy(k) : \A end \in WindowEnds(k, rule) :
            store[k].expireAt > end - Second

-------------------------------------------------------------------------------
(* Liveness, under FairSpec.                                               *)

(* No request waits on Redis for ever: TryReserve, Confirm and Rollback    *)
(* are answered or given up after the retries.                             *)
RedisWait == {"ttl", "reserve", "settle", "eval"}
RedisNeverBlocks ==
    \A r \in Reqs : pc[r] \in RedisWait ~> pc[r] \notin RedisWait

(* Every seat is given back: by the settlement, or when the key expires.   *)
(* Only an expiry that lies after the last modelled instant is not awaited. *)
SeatsGivenBack ==
    \A r \in Reqs, k \in Key :
        r \in held[k] ~> \/ r \notin held[k]
                         \/ \A t \in Instants : t < store[k].expireAt

-------------------------------------------------------------------------------
(* What the documentation promises: violated in a run that the README      *)
(* lists, and true under milder conditions.                                *)

(* README.md:518: concurrent requests, "the number of successes in the end *)
(* does not exceed the limit".                                             *)
NeverOverLimit ==
    \A k \in Key : \E rule \in SharedBy(k) : store[k].success <= Admits(rule)

(* README.md:160: different rules use different Redis keys. *)
RulesHaveTheirOwnKeys ==
    \A k \in Key : store[k].live =>
        \A r, s \in Reqs :
            (req[r].key = k /\ req[s].key = k) => req[r].rule = req[s].rule

===============================================================================
