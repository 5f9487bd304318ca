------------------------------- MODULE PoolProofs ------------------------------
(***************************************************************************)
(* Proof that in calm conditions the quota is a pool of seats: every step  *)
(* of QuotaProxy is a step of SeatPool or changes nothing there, for any   *)
(* requests, rules and instants within one window of every rule.           *)
(***************************************************************************)
EXTENDS CalmQuota, QuotaProxyProofs

(* The key of a request that has matched is that of the one window. *)
KeysFixed ==
    \A r \in Reqs : pc[r] \in Bound => \A t \in Instants :
        req[r].key = BuildKey(PeriodKey(RuleConf[req[r].rule], t), req[r].ident)

(* A request that has reserved holds its seat until it has settled. *)
Settling == {"upstream", "settle", "eval"}
Seated == \A r \in Reqs : pc[r] \in Settling => r \in held[req[r].key]

NoStrays == \A k \in Key : stray[k] = 0

(* No key expires within the instants, nor will one be written that does. *)
LongLived ==
    /\ \A k \in Key : store[k].expireAt = NoExpiry \/ \A u \in Instants : u < store[k].expireAt
    /\ \A r \in Reqs : pc[r] = "reserve" => \A u \in Instants : u < now + req[r].ttl * Second

CalmInv == /\ SeatsInv /\ SeatInv /\ Backed
           /\ KeysFixed /\ Seated /\ NoStrays /\ LongLived

-------------------------------------------------------------------------------
(* What the steps do in calm conditions.                                   *)

LEMMA NothingFails == ~Crash /\ \A r \in Reqs : ~LoseReply(r) /\ ~LoseCall(r)
BY CalmAssumption DEF Crash, LoseReply, LoseCall

-------------------------------------------------------------------------------
(* The invariant.                                                          *)

LEMMA CalmInit == Init => CalmInv
<1> SUFFICES ASSUME Init PROVE CalmInv
  OBVIOUS
<1>1. SeatsInv /\ SeatInv /\ Backed
  BY SeatsInvInit, SeatInvInit, BackedInit
<1>2. KeysFixed /\ Seated
  BY DEF Init, KeysFixed, Seated, Bound, Settling
<1>3. NoStrays /\ LongLived
  BY DEF Init, NoStrays, LongLived, NoHash
<1> QED BY <1>1, <1>2, <1>3 DEF CalmInv

LEMMA KeysFixedStep ==
    ASSUME TypeInv, KeysFixed, NEW r \in Reqs, Handler(r) PROVE KeysFixed'
<1>1. /\ req \in [Reqs -> Locals] /\ now \in Instants
      /\ pc \in [Reqs -> {"new"} \cup InFlight \cup Final]
  BY DEF TypeInv, Typed
<1> SUFFICES ASSUME NEW q \in Reqs, pc'[q] \in Bound, NEW t \in Instants
             PROVE  req'[q].key = BuildKey(PeriodKey(RuleConf[req'[q].rule], t), req'[q].ident)
  BY DEF KeysFixed
<1>2. CASE q # r
  BY <1>2, OthersUntouched DEF KeysFixed
<1>3. CASE q = r /\ Match(r)
  <2>1. PICK rule \in Rules, ident \in Idents :
           req' = [req EXCEPT ![r] = [NoReq EXCEPT
              !.rule = rule, !.ident = ident,
              !.key = BuildKey(PeriodKey(RuleConf[rule], now), ident)]]
    BY <1>3 DEF Match
  <2> DEFINE k == BuildKey(PeriodKey(RuleConf[rule], now), ident)
             new == [NoReq EXCEPT !.rule = rule, !.ident = ident, !.key = k]
  <2>2. req'[r] = new
    BY <1>1, <2>1
  <2>3. new.key = k /\ new.rule = rule /\ new.ident = ident
    <3> HIDE DEF k
    <3> QED BY DEF NoReq
  <2>4. k = BuildKey(PeriodKey(RuleConf[rule], t), ident)
    BY <1>1, CalmAssumption
  <2> HIDE DEF k, new
  <2> QED BY <1>3, <2>2, <2>3, <2>4
<1>4. CASE q = r /\ ~Match(r)
  <2>1. ~LoseReply(r) /\ ~LoseCall(r)
    BY NothingFails
  <2>2. /\ req'[r].rule = req[r].rule /\ req'[r].ident = req[r].ident
        /\ pc[r] # "settle" => req'[r].key = req[r].key
    BY <1>4, <2>1, LocalsKept
  <2>3. CASE pc[r] = "settle"
    <3>1. SettleKey(r)
      BY <2>1, <2>3 DEF Handler, RedisCall, Pass, Match, ReadTTL, UpstreamFails,
         UpstreamSucceeds, FirstEvent, ReserveReply, SettleReply, StreamEnds, Forwarded, At
    <3> DEFINE k == BuildKey(PeriodKey(RuleConf[req[r].rule], now), req[r].ident)
    <3>2. req' = [req EXCEPT ![r].try = 0, ![r].key = k]
      BY <3>1 DEF SettleKey
    <3>3. req'[r].key = k
      <4> HIDE DEF k
      <4> QED BY <1>1, <3>2 DEF Locals
    <3>4. k = req[r].key /\ k = BuildKey(PeriodKey(RuleConf[req[r].rule], t), req[r].ident)
      BY <1>1, <2>3 DEF KeysFixed, Bound
    <3> HIDE DEF k
    <3> QED BY <1>4, <2>2, <3>3, <3>4
  <2>4. CASE pc[r] # "settle"
    <3>1. pc[r] \in Bound
      BY <1>1, <1>4, <2>1, <2>4 DEF Handler, RedisCall, Pass, ReadTTL, UpstreamFails,
         UpstreamSucceeds, FirstEvent, Settle, SettleKey, ReserveReply, SettleReply,
         StreamEnds, Forwarded, At, Goto, Bound, AfterSettle
    <3> QED BY <1>4, <2>2, <2>4, <3>1 DEF KeysFixed
  <2> QED BY <2>3, <2>4
<1> QED BY <1>2, <1>3, <1>4

(* The seat of a settlement is there, so none is a stray. *)
LEMMA SeatKeptStep ==
    ASSUME TypeInv, KeysFixed, Seated, NoStrays, NEW r \in Reqs, Handler(r)
    PROVE  Seated' /\ NoStrays'
<1>1. /\ req \in [Reqs -> Locals] /\ now \in Instants
      /\ pc \in [Reqs -> {"new"} \cup InFlight \cup Final]
      /\ held \in [Key -> SUBSET Reqs] /\ stray \in [Key -> Nat]
  BY DEF TypeInv, Typed
<1>2. ~LoseReply(r) /\ ~LoseCall(r)
  BY NothingFails
<1>3. \A q \in Reqs : pc[q] \in Settling => req[q].key \in Key
  BY DEF TypeInv, Attached, HasKey, Bound, Settling
<1>4. NoStrays'
  <2>1. CASE At(r, "reserve") /\ ReserveExecuted(r)
    BY <2>1 DEF ReserveExecuted, NoStrays
  <2>2. CASE At(r, "eval") /\ SettleExecuted(r)
    BY <1>1, <2>2 DEF SettleExecuted, NoStrays, Seated, Settling, At
  <2>3. CASE UNCHANGED redis
    BY <2>3 DEF redis, NoStrays
  <2> QED BY <2>1, <2>2, <2>3, HandlerOnRedis DEF Executed
<1>5. Seated'
  <2> SUFFICES ASSUME NEW q \in Reqs, pc'[q] \in Settling PROVE q \in held'[req'[q].key]
    BY DEF Seated
  <2>1. CASE q # r
    <3>1. req'[q] = req[q] /\ pc'[q] = pc[q] /\ q \in held[req[q].key] /\ req[q].key \in Key
      BY <1>3, <2>1, OthersUntouched DEF Seated
    <3>2. \A k \in Key : q \in held[k] => q \in held'[k]
      <4>1. CASE At(r, "reserve") /\ ReserveExecuted(r)
        BY <1>1, <4>1 DEF ReserveExecuted
      <4>2. CASE At(r, "eval") /\ SettleExecuted(r)
        BY <1>1, <2>1, <4>2 DEF SettleExecuted
      <4>3. CASE UNCHANGED redis
        BY <4>3 DEF redis
      <4> QED BY <4>1, <4>2, <4>3, HandlerOnRedis DEF Executed
    <3> QED BY <3>1, <3>2
  <2>2. CASE q = r /\ ReserveReply(r)
    <3>1. /\ pc'[r] = IF Granted(store[req[r].key], Limit(req[r].rule)) THEN "upstream"
                                                                        ELSE "limited"
          /\ req' = req /\ ReserveExecuted(r) /\ pc[r] = "reserve"
      BY <1>1, <2>2 DEF ReserveReply, Goto, At
    <3>2. Granted(store[req[r].key], Limit(req[r].rule))
      BY <2>2, <3>1 DEF Settling
    <3>3. req[r].key \in Key
      BY <3>1 DEF TypeInv, Attached, HasKey, Bound
    <3> QED BY <1>1, <2>2, <3>1, <3>2, <3>3 DEF ReserveExecuted
  <2>3. CASE q = r /\ ~ReserveReply(r)
    <3>1. /\ pc[r] \in {"upstream", "settle"} /\ UNCHANGED redis
          /\ pc[r] = "settle" => SettleKey(r)
          /\ ~Match(r)
      BY <1>1, <1>2, <2>3 DEF Handler, RedisCall, Pass, Match, ReadTTL, UpstreamFails,
         UpstreamSucceeds, FirstEvent, Settle, SettleKey, SettleReply, StreamEnds,
         Forwarded, At, Goto, Settling, AfterSettle
    <3>2. req'[r].key = req[r].key
      <4>1. CASE pc[r] # "settle"
        BY <1>2, <3>1, <4>1, LocalsKept
      <4>2. CASE pc[r] = "settle"
        <5> DEFINE k == BuildKey(PeriodKey(RuleConf[req[r].rule], now), req[r].ident)
        <5>1. req' = [req EXCEPT ![r].try = 0, ![r].key = k]
          BY <3>1, <4>2 DEF SettleKey
        <5>2. k = req[r].key
          BY <1>1, <4>2 DEF KeysFixed, Bound
        <5> HIDE DEF k
        <5> QED BY <1>1, <5>1, <5>2 DEF Locals
      <4> QED BY <4>1, <4>2
    <3> QED BY <2>3, <3>1, <3>2 DEF Seated, Settling, redis
  <2> QED BY <2>1, <2>2, <2>3
<1> QED BY <1>4, <1>5

LEMMA LongLivedStep ==
    ASSUME TypeInv, LongLived, NEW r \in Reqs, Handler(r) PROVE LongLived'
<1>1. /\ req \in [Reqs -> Locals] /\ now \in Instants /\ Typed
      /\ pc \in [Reqs -> {"new"} \cup InFlight \cup Final]
      /\ store \in [Key -> Hash(Rules)]
  BY DEF TypeInv, Typed
<1>2. ~LoseReply(r) /\ ~LoseCall(r) /\ now' = now
  BY NothingFails, HandlerOnRedis
<1>3. ASSUME NEW k \in Key
      PROVE  store'[k].expireAt = NoExpiry \/ \A u \in Instants : u < store'[k].expireAt
  <2> DEFINE rule == req[r].rule
             deadline == now + req[r].ttl * Second
  <2>1. CASE At(r, "reserve") /\ ReserveExecuted(r)
    <3>1. rule \in Rules /\ Limit(rule) \in Int /\ deadline \in Int /\ req[r].key \in Key
      BY <1>1, <2>1, RuleType, DeadlineType DEF TypeInv, Attached, At, Bound, HasKey
    <3>2. /\ \/ store'[k] = store[k]
             \/ store'[k] = TryReserveScript(store[k], rule, Limit(rule), deadline)
          /\ \A u \in Instants : u < deadline
      BY <1>1, <2>1 DEF ReserveExecuted, LongLived, At
    <3> HIDE DEF rule, deadline
    <3>3. TryReserveScript(store[k], rule, Limit(rule), deadline).expireAt = deadline
      BY <1>1, <3>1, ExpiryEffect
    <3> QED BY <3>2, <3>3 DEF LongLived
  <2>2. CASE At(r, "eval") /\ SettleExecuted(r)
    <3>1. store'[k] \in {store[k], ConfirmScript(store[k]), RollbackScript(store[k])}
      BY <1>1, <2>2 DEF SettleExecuted
    <3>2. PICK rule2 \in Rules : TRUE
      BY <2>2 DEF TypeInv, Attached, At, Bound, HasKey
    <3>3. store'[k].expireAt = store[k].expireAt
      BY <1>1, <3>1, <3>2, ExpiryEffect
    <3> QED BY <3>3 DEF LongLived
  <2>3. CASE UNCHANGED redis
    BY <2>3 DEF redis, LongLived
  <2> QED BY <2>1, <2>2, <2>3, HandlerOnRedis DEF Executed
<1>4. ASSUME NEW q \in Reqs, pc'[q] = "reserve", NEW u \in Instants
      PROVE  u < now' + req'[q].ttl * Second
  <2>1. CASE q # r
    BY <1>2, <1>4, <2>1, OthersUntouched DEF LongLived
  <2>2. CASE q = r
    <3>1. ReadTTL(r)
      BY <1>1, <1>2, <1>4, <2>2 DEF Handler, RedisCall, Pass, Match, ReadTTL, UpstreamFails,
         UpstreamSucceeds, FirstEvent, Settle, SettleKey, ReserveReply, SettleReply,
         StreamEnds, Forwarded, At, Goto, AfterSettle
    <3> DEFINE n == PeriodTTL(RuleConf[req[r].rule], now)
    <3>2. req' = [req EXCEPT ![r].ttl = n] /\ req[r].rule \in Rules
      BY <3>1 DEF ReadTTL, At, TypeInv, Attached, Bound, HasKey
    <3>3. u < now + n * Second
      BY <1>1, <3>2, CalmAssumption
    <3> HIDE DEF n
    <3>4. req'[r].ttl = n
      BY <1>1, <3>2 DEF Locals
    <3> QED BY <1>2, <2>2, <3>3, <3>4
  <2> QED BY <2>1, <2>2
<1> QED BY <1>3, <1>4 DEF LongLived

(* Time changes nothing: no key expires. *)
LEMMA NothingExpires ==
    ASSUME TypeInv, LongLived, Advance PROVE UNCHANGED redis /\ LongLived'
<1>1. \A k \in Key, t \in Instants : ~Expired(k, t)
  <2> SUFFICES ASSUME NEW k \in Key, NEW t \in Instants, Expired(k, t) PROVE FALSE
    OBVIOUS
  <2>1. t < store[k].expireAt /\ store[k].expireAt <= t
    BY DEF LongLived, Expired
  <2>2. t \in Int /\ store[k].expireAt \in Int
    <3>1. store[k] \in Hash(Rules)
      BY DEF TypeInv, Typed
    <3>2. store[k].expireAt \in Int
      BY <3>1 DEF Hash
    <3> QED BY <3>2, ProxyAssumption
  <2> QED BY <2>1, <2>2
<1>2. UNCHANGED redis
  BY <1>1 DEF Advance, redis, TypeInv, Typed
<1>3. ASSUME NEW r \in Reqs, pc'[r] = "reserve", NEW u \in Instants
      PROVE  u < now' + req'[r].ttl * Second
  <2> DEFINE d == req[r].ttl * Second
  <2>1. u < now + d /\ now < now' /\ req' = req
    BY <1>3 DEF Advance, LongLived
  <2>2. now \in Int /\ now' \in Int /\ u \in Int /\ d \in Int
    <3>1. now' \in Instants /\ req[r].ttl \in Int
      BY DEF Advance, TypeInv, Typed, Locals
    <3> QED BY <3>1, UnitsType, ProxyAssumption DEF TypeInv, Typed
  <2>3. \A a, b, c, e \in Int : a < b + e /\ b < c => a < c + e
    OBVIOUS
  <2>4. u < now' + d
    <3> HIDE DEF d
    <3> QED BY <2>1, <2>2, <2>3
  <2> QED BY <2>1, <2>4
<1> QED BY <1>2, <1>3 DEF LongLived, redis

LEMMA CalmStep == CalmInv /\ [Next]_vars => CalmInv'
<1> SUFFICES ASSUME CalmInv, [Next]_vars PROVE CalmInv'
  OBVIOUS
<1>1. SeatsInv' /\ SeatInv' /\ Backed'
  BY SeatsInvStep, SeatInvStep, BackedStep DEF CalmInv
<1>2. TypeInv /\ KeysFixed /\ Seated /\ NoStrays /\ LongLived
  BY DEF CalmInv, SeatInv
<1>3. ASSUME NEW r \in Reqs, Handler(r)
      PROVE  KeysFixed' /\ Seated' /\ NoStrays' /\ LongLived'
  BY <1>2, <1>3, KeysFixedStep, SeatKeptStep, LongLivedStep
<1>4. CASE Advance
  <2>1. UNCHANGED <<redis, pc, req>> /\ LongLived'
    BY <1>2, <1>4, NothingExpires DEF Advance
  <2>2. KeysFixed' /\ Seated' /\ NoStrays'
    BY <1>2, <2>1 DEF redis, KeysFixed, Seated, NoStrays
  <2> QED BY <1>1, <2>1, <2>2 DEF CalmInv
<1>5. CASE UNCHANGED vars
  BY <1>1, <1>2, <1>5 DEF vars, CalmInv, KeysFixed, Seated, NoStrays, LongLived
<1> QED BY <1>1, <1>3, <1>4, <1>5, NothingFails DEF Next, Finished, CalmInv

-------------------------------------------------------------------------------
(* The steps, as steps of the pool.                                        *)

LEMMA PoolInit == Init => Pool!Init
<1> SUFFICES ASSUME Init PROVE Pool!Init
  OBVIOUS
<1>1. \A r \in Reqs : Phase(r) = "out"
  BY DEF Init, Phase
<1>2. \A k \in Key : store[k].success = 0
  BY DEF Init, NoHash
<1>3. held = [k \in Key |-> {}]
  BY DEF Init
<1> QED BY <1>1, <1>2, <1>3 DEF Pool!Init

(* The pool counts as FiniteSets does. *)
LEMMA SameCardinality == \A S : Pool!Cardinality(S) = Cardinality(S)
BY DEF Pool!Cardinality, Cardinality

(* What the pool sees of a step that moves one request. *)
LEMMA PhaseMoves ==
    ASSUME TypeInv, NEW r \in Reqs, Handler(r)
    PROVE  [q \in Reqs |-> Phase(q)]' = [[q \in Reqs |-> Phase(q)] EXCEPT ![r] = Phase(r)']
<1>1. \A q \in Reqs : q # r => Phase(q)' = Phase(q)
  BY OthersUntouched DEF Phase
<1> QED BY <1>1

LEMMA GrantTakesSeat ==
    ASSUME CalmInv, NEW r \in Reqs, ReserveReply(r)
    PROVE  Pool!Next
<1> DEFINE k == req[r].key
           rule == req[r].rule
           limit == Limit(rule)
           deadline == now + req[r].ttl * Second
           g == TryReserveScript(store[k], rule, limit, deadline)
<1>1. /\ TypeInv /\ Typed /\ pc[r] = "reserve" /\ ReserveExecuted(r) /\ Handler(r)
      /\ pc'[r] = IF Granted(store[k], limit) THEN "upstream" ELSE "limited"
  BY DEF CalmInv, SeatInv, TypeInv, Typed, ReserveReply, At, Goto, Handler, RedisCall
<1>2. /\ k \in Key /\ rule \in Rules /\ rule \in SharedBy(k)
      /\ limit \in Int /\ deadline \in Int
      /\ store \in [Key -> Hash(Rules)] /\ held \in [Key -> SUBSET Reqs]
  BY <1>1, RuleType, DeadlineType DEF TypeInv, Typed, Attached, HasKey, Bound
<1>3. /\ store' = [store EXCEPT ![k] = g]
      /\ held' = [held EXCEPT ![k] = IF Granted(store[k], limit) THEN @ \cup {r} ELSE @]
  BY <1>1 DEF ReserveExecuted
<1>4. store[k].pending = Cardinality(held[k])
  <2>1. Cardinality(held[k]) <= store[k].pending + 0
    BY <1>2 DEF CalmInv, SeatsInv, Covered, NoStrays
  <2>2. store[k].pending <= Cardinality(held[k])
    BY <1>2, CalmAssumption DEF CalmInv, Backed
  <2>3. store[k].pending \in Nat /\ Cardinality(held[k]) \in Nat
    BY <1>2, CountersType, SeatsFinite
  <2> HIDE DEF k
  <2> QED BY <2>1, <2>2, <2>3
<1>5. Granted(store[k], limit) <=> store[k].success + Cardinality(held[k]) < limit
  BY <1>4 DEF Granted
<1>6. /\ Phase(r) = "out"
      /\ Phase(r)' = IF Granted(store[k], limit) THEN "seated" ELSE "refused"
  BY <1>1 DEF Phase
<1>7. [q \in Reqs |-> Phase(q)]' = [[q \in Reqs |-> Phase(q)] EXCEPT ![r] = Phase(r)']
  BY <1>1, PhaseMoves
<1>8. \A x \in Key : store'[x].success = store[x].success
  <2> HIDE DEF k, rule, limit, deadline
  <2>1. g.success = store[k].success
    BY <1>2, TryReserveEffect
  <2> HIDE DEF g
  <2> QED BY <1>2, <1>3, <2>1
<1>9. limit \in [x \in Key |-> {Limit(s) : s \in SharedBy(x)}][k]
  BY <1>2
<1>10. [x \in Key |-> store[x].success]' = [x \in Key |-> store[x].success]
  BY <1>8
<1> HIDE DEF k, rule, limit, deadline, g
<1>11. CASE Granted(store[k], limit)
  <2>1. Pool!Take(r, k)
    BY <1>2, <1>3, <1>5, <1>6, <1>7, <1>9, <1>10, <1>11, SameCardinality
       DEF Pool!Take, Pool!Become, Pool!Room
  <2> QED BY <1>2, <2>1 DEF Pool!Next
<1>12. CASE ~Granted(store[k], limit)
  <2>1. held' = held
    BY <1>2, <1>3, <1>12
  <2>2. Pool!Refuse(r, k)
    BY <1>2, <1>5, <1>6, <1>7, <1>9, <1>10, <1>12, <2>1, SameCardinality
       DEF Pool!Refuse, Pool!Become, Pool!Room
  <2> QED BY <1>2, <2>2 DEF Pool!Next
<1> QED BY <1>11, <1>12

LEMMA SettlementLeavesSeat ==
    ASSUME CalmInv, NEW r \in Reqs, SettleReply(r)
    PROVE  Pool!Next
<1>1. /\ TypeInv /\ Typed /\ pc[r] = "eval" /\ SettleExecuted(r) /\ Handler(r)
      /\ pc'[r] \in {"failed", "stream", "served"}
  BY DEF CalmInv, SeatInv, TypeInv, Typed, SettleReply, At, Goto, AfterSettle,
         Handler, RedisCall
<1>2. PICK k \in Key : k = req[r].key
  BY <1>1 DEF TypeInv, Attached, HasKey, Bound
<1> DEFINE g == IF req[r].op = "confirm" THEN ConfirmScript(store[k]) ELSE RollbackScript(store[k])
           counts == [x \in Key |-> store[x].success]
<1>3. r \in held[k] /\ store \in [Key -> Hash(Rules)] /\ held \in [Key -> SUBSET Reqs]
  BY <1>1, <1>2 DEF CalmInv, Typed, Seated, Settling
<1>4. store' = [store EXCEPT ![k] = g] /\ held' = [held EXCEPT ![k] = @ \ {r}]
  BY <1>1, <1>2 DEF SettleExecuted
<1>5. /\ Phase(r) = "seated" /\ Phase(r)' = "done"
      /\ [q \in Reqs |-> Phase(q)]' = [[q \in Reqs |-> Phase(q)] EXCEPT ![r] = Phase(r)']
  BY <1>1, PhaseMoves DEF Phase
<1>6. g.success = IF req[r].op = "confirm" THEN store[k].success + 1 ELSE store[k].success
  BY <1>3, ConfirmEffect, ReleaseEffect DEF RollbackScript
<1> HIDE DEF g
<1>7. Pool!Leave(r, k)
  BY <1>3, <1>4, <1>5 DEF Pool!Leave, Pool!Become
<1>8. CASE req[r].op = "confirm"
  <2>1. counts' = [counts EXCEPT ![k] = @ + 1]
    BY <1>3, <1>4, <1>6, <1>8
  <2>2. Pool!Succeed(r, k)
    BY <1>7, <2>1 DEF Pool!Succeed
  <2> QED BY <2>2 DEF Pool!Next
<1>9. CASE req[r].op # "confirm"
  <2>1. counts' = counts
    BY <1>3, <1>4, <1>6, <1>9
  <2>2. Pool!Fail(r, k)
    BY <1>7, <2>1 DEF Pool!Fail
  <2> QED BY <2>2 DEF Pool!Next
<1> QED BY <1>8, <1>9

LEMMA PoolStep == CalmInv /\ [Next]_vars => [Pool!Next]_(Pool!vars)
<1> SUFFICES ASSUME CalmInv, [Next]_vars PROVE [Pool!Next]_(Pool!vars)
  OBVIOUS
<1>1. TypeInv /\ LongLived /\ pc \in [Reqs -> {"new"} \cup InFlight \cup Final]
  BY DEF CalmInv, SeatInv, TypeInv, Typed
<1>2. ASSUME UNCHANGED redis, \A q \in Reqs : Phase(q)' = Phase(q)
      PROVE  UNCHANGED Pool!vars
  BY <1>2 DEF redis, Pool!vars
<1>3. ASSUME NEW r \in Reqs, Handler(r), ~ReserveReply(r), ~SettleReply(r)
      PROVE  UNCHANGED Pool!vars
  <2>1. UNCHANGED redis /\ Phase(r)' = Phase(r)
    BY <1>1, <1>3, NothingFails DEF Handler, RedisCall, Pass, Match, ReadTTL, UpstreamFails,
       UpstreamSucceeds, FirstEvent, Settle, SettleKey, StreamEnds, Forwarded, At, Goto, Phase
  <2>2. \A q \in Reqs : q # r => Phase(q)' = Phase(q)
    BY <1>1, <1>3, OthersUntouched DEF Phase
  <2> QED BY <1>2, <2>1, <2>2
<1>4. CASE Advance
  <2>1. UNCHANGED <<redis, pc>>
    BY <1>1, <1>4, NothingExpires DEF Advance
  <2> QED BY <1>2, <2>1 DEF Phase
<1>5. CASE UNCHANGED vars
  BY <1>2, <1>5 DEF vars, redis, Phase
<1> QED BY <1>3, <1>4, <1>5, GrantTakesSeat, SettlementLeavesSeat, NothingFails
        DEF Next, Finished

(* In calm conditions, whatever the requests, rules and limits, TryReserve, *)
(* Confirm and Rollback and the handler around them are a pool of seats.    *)
THEOREM Implements == Spec => IsASeatPool
<1>1. Spec => Pool!Init /\ [][Pool!Next]_(Pool!vars)
  BY PoolInit, PoolStep, CalmInit, CalmStep, PTL DEF Spec
<1> QED BY <1>1 DEF IsASeatPool, Pool!Spec

(* Nor do successes exceed the limit then: the largest, where rules share   *)
(* a key.                                                                   *)
THEOREM LimitKept == Spec => []NeverOverLimit
<1>1. CalmInv => NeverOverLimit
  <2> SUFFICES ASSUME CalmInv, NEW k \in Key
               PROVE  \E rule \in SharedBy(k) : store[k].success <= Admits(rule)
    BY DEF NeverOverLimit
  <2>1. PICK rule \in SharedBy(k) :
           store[k].success + Cardinality(held[k]) <= Admits(rule) + 0
    BY DEF CalmInv, SeatsInv, Within, NoStrays
  <2>2. store[k] \in Hash(Rules) /\ held[k] \in SUBSET Reqs /\ rule \in Rules
    BY DEF CalmInv, SeatInv, TypeInv, Typed, SharedBy
  <2>3. /\ store[k].success \in Int /\ Cardinality(held[k]) \in Nat
        /\ Admits(rule) \in Nat
    BY <2>2, CountersType, SeatsFinite, AdmitsType
  <2> QED BY <2>1, <2>3
<1> QED BY <1>1, CalmInit, CalmStep, PTL DEF Spec

===============================================================================
