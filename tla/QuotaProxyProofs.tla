--------------------------- MODULE QuotaProxyProofs ---------------------------
(***************************************************************************)
(* Proofs about QuotaProxy, for every set of requests, rules, instants and *)
(* faults: type correctness; the bound on successes above the limit; that  *)
(* no path of the handler forgets a seat; that without failures pending    *)
(* counts exactly the seats that are held, so that nobody is refused while *)
(* there is room; that a key is kept as long as its window, and that rules *)
(* of different units have keys of their own.                              *)
(***************************************************************************)
EXTENDS QuotaProxy, WindowLemmas, FiniteSetTheorems

-------------------------------------------------------------------------------
(* What the scripts do to a hash.                                          *)

LEMMA NoHashType == NoHash \in Hash(Rules)
BY DEF NoHash, Hash, NoExpiry

LEMMA CountersType ==
    ASSUME NEW h \in Hash(Rules)
    PROVE  h.success \in Int /\ h.pending \in Nat /\ h.rejected \in Nat
BY DEF Hash

(* Writing one counter changes that counter and no other. *)
LEMMA PendingWritten ==
    ASSUME NEW h \in Hash(Rules), NEW n \in Nat
    PROVE  LET g == [h EXCEPT !.pending = n]
           IN  g \in Hash(Rules) /\ g.success = h.success /\ g.pending = n
BY DEF Hash

LEMMA RejectedWritten ==
    ASSUME NEW h \in Hash(Rules), NEW n \in Nat
    PROVE  LET g == [h EXCEPT !.rejected = n]
           IN  g \in Hash(Rules) /\ g.success = h.success /\ g.pending = h.pending
BY DEF Hash

LEMMA SuccessWritten ==
    ASSUME NEW h \in Hash(Rules), NEW i \in Int
    PROVE  LET g == [h EXCEPT !.live = TRUE, !.success = i]
           IN  g \in Hash(Rules) /\ g.success = i /\ g.pending = h.pending
BY DEF Hash

LEMMA TryReserveEffect ==
    ASSUME NEW h \in Hash(Rules), NEW rule \in Rules,
           NEW limit \in Int, NEW deadline \in Int
    PROVE  LET g == TryReserveScript(h, rule, limit, deadline)
           IN  /\ g \in Hash(Rules)
               /\ g.success = h.success
               /\ g.pending = IF Granted(h, limit) THEN h.pending + 1 ELSE h.pending
<1> DEFINE g == TryReserveScript(h, rule, limit, deadline)
           meta == [h EXCEPT !.live = TRUE, !.rule = rule, !.limit = limit,
                             !.expireAt = deadline]
           p == meta.pending + 1
           q == meta.rejected + 1
<1>1. /\ meta \in Hash(Rules)
      /\ meta.success = h.success
      /\ meta.pending = h.pending
  BY DEF Hash
<1>2. g = IF Granted(h, limit) THEN [meta EXCEPT !.pending = p]
                               ELSE [meta EXCEPT !.rejected = q]
  BY DEF TryReserveScript
<1> HIDE DEF meta, g
<1>3. p \in Nat /\ q \in Nat /\ p = h.pending + 1
  BY <1>1, CountersType
<1> HIDE DEF p, q
<1>4. LET x == [meta EXCEPT !.pending = p]
      IN  x \in Hash(Rules) /\ x.success = meta.success /\ x.pending = p
  BY <1>1, <1>3, PendingWritten
<1>5. LET x == [meta EXCEPT !.rejected = q]
      IN  x \in Hash(Rules) /\ x.success = meta.success /\ x.pending = meta.pending
  BY <1>1, <1>3, RejectedWritten
<1> QED BY <1>1, <1>2, <1>3, <1>4, <1>5 DEF g

LEMMA ReleaseEffect ==
    ASSUME NEW h \in Hash(Rules)
    PROVE  LET g == ReleasePending(h)
           IN  /\ g \in Hash(Rules)
               /\ g.success = h.success
               /\ g.pending = IF h.pending > 0 THEN h.pending - 1 ELSE 0
<1>1. h.pending \in Nat
  BY CountersType
<1>2. CASE h.pending > 0
  <2> DEFINE n == h.pending - 1
  <2>1. n \in Nat
    BY <1>1, <1>2
  <2>2. ReleasePending(h) = [h EXCEPT !.pending = n]
    BY <1>2 DEF ReleasePending
  <2> HIDE DEF n
  <2>3. LET g == [h EXCEPT !.pending = n]
        IN  g \in Hash(Rules) /\ g.success = h.success /\ g.pending = n
    BY <2>1, PendingWritten
  <2> QED BY <1>2, <2>2, <2>3 DEF n
<1>3. CASE ~(h.pending > 0)
  <2>1. h.pending = 0
    BY <1>1, <1>3
  <2> QED BY <1>3, <2>1 DEF ReleasePending
<1> QED BY <1>2, <1>3

LEMMA ConfirmEffect ==
    ASSUME NEW h \in Hash(Rules)
    PROVE  LET g == ConfirmScript(h)
           IN  /\ g \in Hash(Rules)
               /\ g.success = h.success + 1
               /\ g.pending = IF h.pending > 0 THEN h.pending - 1 ELSE 0
<1> DEFINE freed == ReleasePending(h)
           i == freed.success + 1
<1>1. /\ freed \in Hash(Rules)
      /\ freed.success = h.success
      /\ freed.pending = IF h.pending > 0 THEN h.pending - 1 ELSE 0
  BY ReleaseEffect
<1>2. ConfirmScript(h) = [freed EXCEPT !.live = TRUE, !.success = i]
  BY DEF ConfirmScript
<1> HIDE DEF freed
<1>3. i \in Int /\ i = h.success + 1
  BY <1>1, CountersType
<1> HIDE DEF i
<1>4. LET g == [freed EXCEPT !.live = TRUE, !.success = i]
      IN  g \in Hash(Rules) /\ g.success = i /\ g.pending = freed.pending
  BY <1>1, <1>3, SuccessWritten
<1> QED BY <1>1, <1>2, <1>3, <1>4

(* Only TryReserve sets an expiry. *)
LEMMA ExpiryEffect ==
    ASSUME NEW h \in Hash(Rules), NEW rule \in Rules, NEW limit \in Int, NEW deadline \in Int
    PROVE  /\ TryReserveScript(h, rule, limit, deadline).expireAt = deadline
           /\ ConfirmScript(h).expireAt = h.expireAt
           /\ RollbackScript(h).expireAt = h.expireAt
<1>1. ReleasePending(h).expireAt = h.expireAt /\ ReleasePending(h) \in Hash(Rules)
  <2>1. ReleasePending(h) \in Hash(Rules)
    BY ReleaseEffect
  <2> DEFINE n == h.pending - 1
  <2>2. ReleasePending(h) = h \/ ReleasePending(h) = [h EXCEPT !.pending = n]
    BY DEF ReleasePending
  <2> HIDE DEF n
  <2>3. [h EXCEPT !.pending = n].expireAt = h.expireAt
    BY DEF Hash
  <2> QED BY <2>1, <2>2, <2>3
<1>2. ConfirmScript(h).expireAt = h.expireAt
  <2> DEFINE freed == ReleasePending(h)
             i == freed.success + 1
  <2>1. ConfirmScript(h) = [freed EXCEPT !.live = TRUE, !.success = i]
    BY DEF ConfirmScript
  <2> HIDE DEF i, freed
  <2>2. [freed EXCEPT !.live = TRUE, !.success = i].expireAt = freed.expireAt
    BY <1>1 DEF Hash, freed
  <2> QED BY <1>1, <2>1, <2>2 DEF freed
<1>3. TryReserveScript(h, rule, limit, deadline).expireAt = deadline
  <2> DEFINE meta == [h EXCEPT !.live = TRUE, !.rule = rule, !.limit = limit,
                               !.expireAt = deadline]
             p == meta.pending + 1
             q == meta.rejected + 1
  <2>1. meta \in Hash(Rules) /\ meta.expireAt = deadline
    BY DEF Hash
  <2>2. TryReserveScript(h, rule, limit, deadline) =
            IF Granted(h, limit) THEN [meta EXCEPT !.pending = p]
                                 ELSE [meta EXCEPT !.rejected = q]
    BY DEF TryReserveScript
  <2> HIDE DEF meta, p, q
  <2> QED BY <2>1, <2>2 DEF Hash
<1> QED BY <1>1, <1>2, <1>3 DEF RollbackScript

-------------------------------------------------------------------------------
(* Type correctness.  A request past its match has a rule, an identity and *)
(* a key of that rule: without it the scripts could run on no key at all.  *)

LEMMA KeyOfRule ==
    ASSUME NEW rule \in Rules, NEW ident \in Idents, NEW t \in Instants
    PROVE  LET k == BuildKey(PeriodKey(RuleConf[rule], t), ident)
           IN  k \in Key /\ rule \in SharedBy(k)
<1> DEFINE p == PeriodKey(RuleConf[rule], t)
<1>1. p \in Periods(rule)
  BY DEF Periods
<1> HIDE DEF p
<1>2. BuildKey(p, ident) \in Key
  BY <1>1 DEF Key
<1>3. rule \in SharedBy(BuildKey(p, ident))
  BY <1>1 DEF SharedBy, BuildKey
<1> QED BY <1>2, <1>3 DEF p

LEMMA RuleType ==
    ASSUME NEW rule \in Rules
    PROVE  RuleConf[rule] \in QuotaRule /\ Limit(rule) \in Int
BY ProxyAssumption DEF Limit, QuotaRule

(* The types of the variables that the scripts change. *)
RedisTypes ==
    /\ store \in [Key -> Hash(Rules)]
    /\ held \in [Key -> SUBSET Reqs]
    /\ stray \in [Key -> Nat]

LEMMA DeadlineType ==
    ASSUME Typed, NEW r \in Reqs
    PROVE  now + req[r].ttl * Second \in Int
<1>1. now \in Int
  BY ProxyAssumption DEF Typed
<1>2. req[r].ttl \in Int
  BY DEF Typed, Locals
<1> QED BY <1>1, <1>2, UnitsType

LEMMA ReserveKeepsTypes ==
    ASSUME Typed, Attached, NEW r \in Reqs, pc[r] \in Bound, ReserveExecuted(r)
    PROVE  RedisTypes'
<1> DEFINE k == req[r].key
           rule == req[r].rule
           deadline == now + req[r].ttl * Second
           g == TryReserveScript(store[k], rule, Limit(rule), deadline)
<1>1. k \in Key /\ rule \in Rules /\ Limit(rule) \in Int
  BY RuleType DEF Attached, HasKey
<1>2. deadline \in Int
  BY DeadlineType
<1>3. store' = [store EXCEPT ![k] = g]
  BY DEF ReserveExecuted
<1>4. held' \in [Key -> SUBSET Reqs] /\ stray' \in [Key -> Nat]
  BY <1>1 DEF ReserveExecuted, Typed
<1> HIDE DEF k, rule, deadline
<1>5. store[k] \in Hash(Rules)
  BY <1>1 DEF Typed
<1>6. g \in Hash(Rules)
  BY <1>1, <1>2, <1>5, TryReserveEffect
<1> QED BY <1>1, <1>3, <1>4, <1>6 DEF Typed, RedisTypes

LEMMA SettleKeepsTypes ==
    ASSUME Typed, Attached, NEW r \in Reqs, pc[r] \in Bound, SettleExecuted(r)
    PROVE  RedisTypes'
<1> DEFINE k == req[r].key
           g == IF req[r].op = "confirm" THEN ConfirmScript(store[k])
                                         ELSE RollbackScript(store[k])
<1>1. k \in Key
  BY DEF Attached, HasKey
<1>2. store' = [store EXCEPT ![k] = g]
  BY DEF SettleExecuted
<1>3. held' \in [Key -> SUBSET Reqs] /\ stray' \in [Key -> Nat]
  BY <1>1 DEF SettleExecuted, Typed
<1>4. store[k] \in Hash(Rules)
  BY <1>1 DEF Typed
<1>5. g \in Hash(Rules)
  BY <1>4, ConfirmEffect, ReleaseEffect DEF RollbackScript
<1> QED BY <1>1, <1>2, <1>3, <1>5 DEF Typed, RedisTypes

LEMMA AdvanceKeepsTypes ==
    ASSUME Typed, Advance
    PROVE  Typed'
BY NoHashType DEF Typed, Advance

(* The part of the state that only a request's own steps change. *)
Control == /\ pc \in [Reqs -> {"new"} \cup InFlight \cup Final]
           /\ req \in [Reqs -> Locals]
           /\ Attached

(* A step of one request keeps it well formed if what it writes is. *)
LEMMA ControlWritten ==
    ASSUME Control, NEW r \in Reqs, NEW q \in Locals,
           NEW to \in {"new"} \cup InFlight \cup Final,
           to \in Bound => HasKey(q),
           req' = [req EXCEPT ![r] = q], pc' = [pc EXCEPT ![r] = to]
    PROVE  Control'
BY DEF Control, Attached

(* The same when the request only moves on and keeps its key. *)
LEMMA ControlMoved ==
    ASSUME Control, NEW r \in Reqs, pc[r] \in Bound,
           NEW to \in {"new"} \cup InFlight \cup Final,
           UNCHANGED req, pc' = [pc EXCEPT ![r] = to]
    PROVE  Control'
BY DEF Control, Attached

LEMMA NoRetryYet == 0 \in 0..MaxRetries
BY ProxyAssumption

LEMMA MatchKeepsControl ==
    ASSUME Typed, Control, NEW r \in Reqs, Match(r)
    PROVE  Control'
<1>1. PICK rule \in Rules, ident \in Idents :
        req' = [req EXCEPT ![r] = [NoReq EXCEPT
                    !.rule = rule, !.ident = ident,
                    !.key = BuildKey(PeriodKey(RuleConf[rule], now), ident)]]
  BY DEF Match
<1> DEFINE k == BuildKey(PeriodKey(RuleConf[rule], now), ident)
           q == [NoReq EXCEPT !.rule = rule, !.ident = ident, !.key = k]
<1>2. k \in Key /\ rule \in SharedBy(k)
  BY KeyOfRule DEF Typed
<1>3. req' = [req EXCEPT ![r] = q] /\ pc' = [pc EXCEPT ![r] = "ttl"]
  BY <1>1 DEF Match, Goto
<1> HIDE DEF k
<1>4. q \in Locals /\ HasKey(q)
  <2>1. NoReq \in Locals
    BY NoRetryYet DEF Locals, NoReq
  <2>2. q \in Locals
    BY <1>2, <2>1 DEF Locals
  <2>3. HasKey(q)
    BY <1>2, <2>1 DEF Locals, HasKey
  <2> QED BY <2>2, <2>3
<1> HIDE DEF q
<1> QED BY <1>3, <1>4, ControlWritten DEF InFlight

LEMMA SettleKeyKeepsControl ==
    ASSUME Typed, Control, NEW r \in Reqs, SettleKey(r)
    PROVE  Control'
<1> DEFINE rule == req[r].rule
           ident == req[r].ident
           k == BuildKey(PeriodKey(RuleConf[rule], now), ident)
           q == [req[r] EXCEPT !.try = 0, !.key = k]
<1>1. HasKey(req[r]) /\ req[r] \in Locals
  BY DEF SettleKey, At, Control, Attached, Bound
<1>2. k \in Key /\ rule \in SharedBy(k)
  BY <1>1, KeyOfRule DEF Typed, HasKey
<1>3. req' = [req EXCEPT ![r] = q] /\ pc' = [pc EXCEPT ![r] = "eval"]
  BY DEF SettleKey, Goto
<1> HIDE DEF k
<1>4. q \in Locals /\ HasKey(q)
  BY <1>1, <1>2, NoRetryYet DEF Locals, HasKey
<1> HIDE DEF q
<1> QED BY <1>3, <1>4, ControlWritten DEF InFlight

LEMMA NoReplyKeepsControl ==
    ASSUME Control, NEW r \in Reqs, pc[r] \in {"reserve", "eval"}, NoReply(r)
    PROVE  Control'
<1> DEFINE again == [req[r] EXCEPT !.hurt = TRUE, !.try = @ + 1]
           over == [req[r] EXCEPT !.hurt = TRUE]
           undo == [req[r] EXCEPT !.hurt = TRUE, !.op = "rollback"]
<1>1. HasKey(req[r]) /\ req[r] \in Locals
  BY DEF Control, Attached, Bound
<1>2. /\ over \in Locals /\ HasKey(over)
      /\ undo \in Locals /\ HasKey(undo)
  BY <1>1 DEF Locals, HasKey
<1>3. CASE req[r].try < MaxRetries
  <2>1. req[r].try + 1 \in 0..MaxRetries
    <3>1. req[r].try \in 0..MaxRetries
      BY <1>1 DEF Locals
    <3> QED BY <1>3, <3>1, ProxyAssumption
  <2>2. again \in Locals /\ HasKey(again)
    <3> DEFINE n == req[r].try + 1
    <3> HIDE DEF n
    <3>1. [req[r] EXCEPT !.hurt = TRUE, !.try = n] \in Locals
      BY <1>1, <2>1 DEF Locals, n
    <3>2. HasKey([req[r] EXCEPT !.hurt = TRUE, !.try = n])
      BY <1>1 DEF Locals, HasKey
    <3> QED BY <3>1, <3>2 DEF n
  <2>3. req' = [req EXCEPT ![r] = again] /\ UNCHANGED pc
    BY <1>3 DEF NoReply
  <2>4. pc' = [pc EXCEPT ![r] = pc[r]]
    BY <2>3 DEF Control
  <2> HIDE DEF again
  <2> QED BY <2>2, <2>3, <2>4, ControlWritten DEF Control, InFlight
<1>4. CASE ~(req[r].try < MaxRetries)
  <2>1. \/ req' = [req EXCEPT ![r] = over]
        \/ req' = [req EXCEPT ![r] = undo]
    BY <1>4 DEF NoReply, GiveUp
  <2>2. \E to \in InFlight \cup Final :
           pc' = [pc EXCEPT ![r] = to]
    BY <1>4 DEF NoReply, GiveUp, Goto, AfterSettle, InFlight, Final
  <2> HIDE DEF over, undo
  <2> QED BY <1>2, <2>1, <2>2, ControlWritten
<1> QED BY <1>3, <1>4

LEMMA ReadTTLKeepsControl ==
    ASSUME Typed, Control, NEW r \in Reqs, ReadTTL(r)
    PROVE  Control'
<1> DEFINE ttl == PeriodTTL(RuleConf[req[r].rule], now)
           q == [req[r] EXCEPT !.ttl = ttl]
<1>1. HasKey(req[r]) /\ req[r] \in Locals
  BY DEF ReadTTL, At, Control, Attached, Bound
<1>2. now \in Int
  BY ProxyAssumption DEF Typed
<1>3. RuleConf[req[r].rule] \in QuotaRule
  BY <1>1, RuleType DEF HasKey
<1>4. ttl \in Int
  BY <1>2, <1>3, PeriodTTLType
<1>5. req' = [req EXCEPT ![r] = q] /\ pc' = [pc EXCEPT ![r] = "reserve"]
  BY DEF ReadTTL, Goto
<1> HIDE DEF ttl
<1>6. q \in Locals /\ HasKey(q)
  BY <1>1, <1>4 DEF Locals, HasKey
<1> HIDE DEF q
<1> QED BY <1>5, <1>6, ControlWritten DEF InFlight

LEMMA SettleKeepsControl ==
    ASSUME Control, NEW r \in Reqs, pc[r] = "upstream",
           NEW op \in {"confirm", "rollback"}, NEW sse \in BOOLEAN, Settle(r, op, sse)
    PROVE  Control'
<1> DEFINE q == [req[r] EXCEPT !.op = op, !.sse = sse]
<1>1. HasKey(req[r]) /\ req[r] \in Locals
  BY DEF Control, Attached, Bound
<1>2. req' = [req EXCEPT ![r] = q] /\ pc' = [pc EXCEPT ![r] = "settle"]
  BY DEF Settle, Goto
<1>3. q \in Locals /\ HasKey(q)
  BY <1>1 DEF Locals, HasKey
<1> HIDE DEF q
<1> QED BY <1>2, <1>3, ControlWritten DEF InFlight

LEMMA HandlerKeepsControl ==
    ASSUME Typed, Control, NEW r \in Reqs, Handler(r)
    PROVE  Control'
<1>1. CASE Pass(r)
  <2>1. req[r] \in Locals /\ req' = [req EXCEPT ![r] = req[r]]
    BY <1>1 DEF Pass, Control
  <2>2. pc' = [pc EXCEPT ![r] = "forward"]
    BY <1>1 DEF Pass, Goto
  <2> QED BY <2>1, <2>2, ControlWritten DEF InFlight, Bound
<1>2. CASE Match(r)
  BY <1>2, MatchKeepsControl
<1>3. CASE ReadTTL(r)
  BY <1>3, ReadTTLKeepsControl
<1>4. CASE UpstreamFails(r)
  BY <1>4, SettleKeepsControl DEF UpstreamFails, At
<1>5. CASE UpstreamSucceeds(r)
  BY <1>5, SettleKeepsControl DEF UpstreamSucceeds, At
<1>6. CASE FirstEvent(r)
  BY <1>6, SettleKeepsControl DEF FirstEvent, At
<1>7. CASE SettleKey(r)
  BY <1>7, SettleKeyKeepsControl
<1>8. CASE ReserveReply(r)
  <2>1. pc' = [pc EXCEPT ![r] = "upstream"] \/ pc' = [pc EXCEPT ![r] = "limited"]
    BY <1>8 DEF ReserveReply, Goto
  <2>2. pc[r] \in Bound /\ UNCHANGED req
    BY <1>8 DEF ReserveReply, At, Bound
  <2> QED BY <2>1, <2>2, ControlMoved DEF InFlight, Final
<1>9. CASE SettleReply(r)
  <2>1. \E to \in {"failed", "stream", "served"} : pc' = [pc EXCEPT ![r] = to]
    BY <1>9 DEF SettleReply, Goto, AfterSettle
  <2>2. pc[r] \in Bound /\ UNCHANGED req
    BY <1>9 DEF SettleReply, At, Bound
  <2> QED BY <2>1, <2>2, ControlMoved DEF InFlight, Final
<1>10. CASE LoseReply(r) \/ LoseCall(r)
  BY <1>10, NoReplyKeepsControl DEF LoseReply, LoseCall, Executed, At
<1>11. CASE StreamEnds(r)
  <2>1. pc' = [pc EXCEPT ![r] = "served"] /\ pc[r] \in Bound /\ UNCHANGED req
    BY <1>11 DEF StreamEnds, Goto, At, Bound
  <2> QED BY <2>1, ControlMoved DEF Final
<1>12. CASE Forwarded(r)
  <2>1. req[r] \in Locals /\ req' = [req EXCEPT ![r] = req[r]]
    BY <1>12 DEF Forwarded, Control
  <2>2. pc' = [pc EXCEPT ![r] = "passed"]
    BY <1>12 DEF Forwarded, Goto
  <2> QED BY <2>1, <2>2, ControlWritten DEF Final, Bound
<1> QED BY <1>1, <1>2, <1>3, <1>4, <1>5, <1>6, <1>7, <1>8, <1>9, <1>10, <1>11, <1>12
        DEF Handler, RedisCall

(* Every step of a request either runs its script or leaves Redis alone.   *)
LEMMA HandlerOnRedis ==
    ASSUME NEW r \in Reqs, Handler(r)
    PROVE  /\ now' = now
           /\ \/ Executed(r)
              \/ UNCHANGED redis
BY DEF Handler, RedisCall, Pass, Match, ReadTTL, ReserveReply, Settle, UpstreamFails,
       UpstreamSucceeds, FirstEvent, SettleKey, SettleReply, StreamEnds, Forwarded,
       LoseReply, LoseCall, Executed

TypeInv == Typed /\ Attached

LEMMA TypeInvInit == Init => TypeInv
<1> SUFFICES ASSUME Init PROVE TypeInv
  OBVIOUS
<1>1. now \in Instants /\ pc \in [Reqs -> {"new"} \cup InFlight \cup Final]
  BY DEF Init
<1>2. store \in [Key -> Hash(Rules)] /\ held \in [Key -> SUBSET Reqs] /\ stray \in [Key -> Nat]
  BY NoHashType DEF Init
<1>3. req \in [Reqs -> Locals]
  <2>1. NoReq \in Locals
    BY NoRetryYet DEF Locals, NoReq
  <2> QED BY <2>1 DEF Init
<1>4. Attached
  BY DEF Init, Attached, Bound
<1> QED BY <1>1, <1>2, <1>3, <1>4 DEF TypeInv, Typed

LEMMA TypeInvStep == TypeInv /\ [Next]_vars => TypeInv'
<1> SUFFICES ASSUME TypeInv, [Next]_vars PROVE TypeInv'
  OBVIOUS
<1>1. Typed /\ Attached /\ Control
  BY DEF TypeInv, Typed, Control
<1>2. ASSUME NEW r \in Reqs, Handler(r) PROVE TypeInv'
  <2>1. Control'
    BY <1>1, <1>2, HandlerKeepsControl
  <2>2. now' \in Instants
    BY <1>1, <1>2, HandlerOnRedis DEF Typed
  <2>3. RedisTypes'
    <3>1. CASE At(r, "reserve") /\ ReserveExecuted(r)
      BY <1>1, <3>1, ReserveKeepsTypes DEF At, Bound
    <3>2. CASE At(r, "eval") /\ SettleExecuted(r)
      BY <1>1, <3>2, SettleKeepsTypes DEF At, Bound
    <3>3. CASE UNCHANGED redis
      BY <1>1, <3>3 DEF redis, RedisTypes, Typed
    <3> QED BY <1>2, <3>1, <3>2, <3>3, HandlerOnRedis DEF Executed
  <2> QED BY <2>1, <2>2, <2>3 DEF TypeInv, Typed, Control, RedisTypes
<1>3. CASE Crash
  BY <1>1, <1>3 DEF Crash, TypeInv, Typed, Attached, redis, Final, Bound, InFlight
<1>4. CASE Advance
  <2>1. Typed'
    BY <1>1, <1>4, AdvanceKeepsTypes
  <2>2. Attached'
    BY <1>1, <1>4 DEF Advance, Attached
  <2> QED BY <2>1, <2>2 DEF TypeInv
<1>5. CASE UNCHANGED vars
  BY <1>1, <1>5 DEF vars, TypeInv, Typed, Attached
<1> QED BY <1>2, <1>3, <1>4, <1>5 DEF Next, Finished

(* Type correctness of every reachable state; every script that runs runs  *)
(* on a key of its request's own rule.                                     *)
THEOREM TypeCorrect == Spec => []TypeOK
<1>1. TypeInv => TypeOK
  BY DEF TypeInv, TypeOK
<1> QED BY <1>1, TypeInvInit, TypeInvStep, PTL DEF Spec

-------------------------------------------------------------------------------
(* The bound on successes.  OvershootBounded alone is not inductive: that  *)
(* a script grants no seat too many rests on pending counting the seats    *)
(* that are held, which is SeatsCounted.                                   *)

LEMMA SeatsFinite ==
    ASSUME NEW S \in SUBSET Reqs
    PROVE  IsFiniteSet(S) /\ Cardinality(S) \in Nat
BY ProxyAssumption, FS_Subset, FS_CardinalityType

LEMMA SeatTaken ==
    ASSUME NEW S \in SUBSET Reqs, NEW r \in Reqs
    PROVE  Cardinality(S \cup {r}) <= Cardinality(S) + 1
<1> DEFINE c == Cardinality(S)
           d == Cardinality(S \cup {r})
<1>1. IsFiniteSet(S) /\ c \in Nat
  BY SeatsFinite
<1>2. d = c \/ d = c + 1
  BY <1>1, FS_AddElement
<1> HIDE DEF c, d
<1>3. d <= c + 1
  BY <1>1, <1>2
<1> QED BY <1>3 DEF c, d

LEMMA SeatFreed ==
    ASSUME NEW S \in SUBSET Reqs, NEW r \in Reqs
    PROVE  Cardinality(S \ {r}) = IF r \in S THEN Cardinality(S) - 1 ELSE Cardinality(S)
BY SeatsFinite, FS_RemoveElement

(* The two bounds, for one key. *)
Covered(h, seats, strays) == Cardinality(seats) <= h.pending + strays

Within(h, seats, strays, rules) ==
    \E rule \in rules : h.success + Cardinality(seats) <= Admits(rule) + strays

SeatsInv == /\ TypeInv
            /\ \A k \in Key : /\ Covered(store[k], held[k], stray[k])
                              /\ Within(store[k], held[k], stray[k], SharedBy(k))

LEMMA AdmitsType ==
    ASSUME NEW rule \in Rules
    PROVE  Admits(rule) \in Nat /\ Limit(rule) <= Admits(rule)
<1>1. Limit(rule) \in Int
  BY RuleType
<1> QED BY <1>1 DEF Admits

LEMMA GrantKeepsBounds ==
    ASSUME NEW h \in Hash(Rules), NEW S \in SUBSET Reqs, NEW n \in Nat,
           NEW rules \in SUBSET Rules, NEW rule \in rules, NEW deadline \in Int,
           NEW r \in Reqs, Covered(h, S, n), Within(h, S, n, rules)
    PROVE  LET g == TryReserveScript(h, rule, Limit(rule), deadline)
               T == IF Granted(h, Limit(rule)) THEN S \cup {r} ELSE S
           IN  Covered(g, T, n) /\ Within(g, T, n, rules)
<1> DEFINE g == TryReserveScript(h, rule, Limit(rule), deadline)
<1>1. /\ Limit(rule) \in Int
      /\ Admits(rule) \in Nat
      /\ Limit(rule) <= Admits(rule)
  BY RuleType, AdmitsType
<1>2. /\ h.success \in Int /\ h.pending \in Nat
      /\ Cardinality(S) \in Nat /\ Cardinality(S \cup {r}) \in Nat
  BY CountersType, SeatsFinite
<1>3. /\ g.success = h.success
      /\ g.pending = IF Granted(h, Limit(rule)) THEN h.pending + 1 ELSE h.pending
  BY <1>1, TryReserveEffect
<1> HIDE DEF g
<1>4. CASE Granted(h, Limit(rule))
  <2>1. Cardinality(S \cup {r}) <= Cardinality(S) + 1
    BY SeatTaken
  <2>2. h.success + h.pending < Limit(rule)
    BY <1>4 DEF Granted
  <2>3. Cardinality(S) <= h.pending + n
    BY DEF Covered
  <2>4. Cardinality(S \cup {r}) <= g.pending + n
    BY <1>2, <1>3, <1>4, <2>1, <2>3
  <2>5. g.success + Cardinality(S \cup {r}) <= Admits(rule) + n
    BY <1>1, <1>2, <1>3, <2>1, <2>2, <2>3
  <2> QED BY <1>4, <2>4, <2>5 DEF Covered, Within, g
<1>5. CASE ~Granted(h, Limit(rule))
  BY <1>3, <1>5 DEF Covered, Within, g
<1> QED BY <1>4, <1>5 DEF g

LEMMA SettlementKeepsBounds ==
    ASSUME NEW h \in Hash(Rules), NEW S \in SUBSET Reqs, NEW n \in Nat,
           NEW rules \in SUBSET Rules, NEW op, NEW r \in Reqs,
           Covered(h, S, n), Within(h, S, n, rules)
    PROVE  LET g == IF op = "confirm" THEN ConfirmScript(h) ELSE RollbackScript(h)
               m == IF r \in S THEN n ELSE n + 1
           IN  Covered(g, S \ {r}, m) /\ Within(g, S \ {r}, m, rules)
<1> DEFINE g == IF op = "confirm" THEN ConfirmScript(h) ELSE RollbackScript(h)
           m == IF r \in S THEN n ELSE n + 1
<1>1. /\ h.success \in Int /\ h.pending \in Nat
      /\ Cardinality(S) \in Nat /\ Cardinality(S \ {r}) \in Nat
  BY CountersType, SeatsFinite
<1>2. /\ g.success \in {h.success, h.success + 1}
      /\ g.pending = IF h.pending > 0 THEN h.pending - 1 ELSE 0
  BY ConfirmEffect, ReleaseEffect DEF RollbackScript
<1>3. /\ Cardinality(S \ {r}) = IF r \in S THEN Cardinality(S) - 1 ELSE Cardinality(S)
      /\ m = IF r \in S THEN n ELSE n + 1
  BY SeatFreed
<1> HIDE DEF g, m
<1>4. Covered(g, S \ {r}, m)
  <2>1. Cardinality(S) <= h.pending + n
    BY DEF Covered
  <2> QED BY <1>1, <1>2, <1>3, <2>1 DEF Covered
<1>5. Within(g, S \ {r}, m, rules)
  <2>1. PICK rule \in rules : h.success + Cardinality(S) <= Admits(rule) + n
    BY DEF Within
  <2>2. Admits(rule) \in Nat
    BY AdmitsType
  <2>3. g.success + Cardinality(S \ {r}) <= Admits(rule) + m
    BY <1>1, <1>2, <1>3, <2>1, <2>2
  <2> QED BY <2>3 DEF Within
<1> QED BY <1>4, <1>5 DEF g, m

(* A key that does not exist is within its bounds: some rule uses it. *)
LEMMA EmptyKeyBounds ==
    ASSUME NEW k \in Key
    PROVE  Covered(NoHash, {}, 0) /\ Within(NoHash, {}, 0, SharedBy(k))
<1>1. Cardinality({}) = 0
  BY FS_EmptySet
<1>2. PICK rule \in Rules : rule \in SharedBy(k)
  <2>1. PICK p \in UNION {Periods(rule) : rule \in Rules}, i \in Idents : k = BuildKey(p, i)
    BY DEF Key
  <2>2. k[1] = p
    BY <2>1 DEF BuildKey
  <2>3. PICK rule \in Rules : p \in Periods(rule)
    BY <2>1
  <2> QED BY <2>2, <2>3 DEF SharedBy
<1>3. Admits(rule) \in Nat
  BY AdmitsType
<1>4. NoHash.success = 0 /\ NoHash.pending = 0
  BY DEF NoHash
<1> QED BY <1>1, <1>2, <1>3, <1>4 DEF Covered, Within

LEMMA SeatsInvInit == Init => SeatsInv
<1> SUFFICES ASSUME Init PROVE SeatsInv
  OBVIOUS
<1>1. TypeInv
  BY TypeInvInit
<1>2. \A k \in Key : store[k] = NoHash /\ held[k] = {} /\ stray[k] = 0
  BY DEF Init
<1>3. \A k \in Key : /\ Covered(store[k], held[k], stray[k])
                    /\ Within(store[k], held[k], stray[k], SharedBy(k))
  BY <1>2, EmptyKeyBounds
<1> QED BY <1>1, <1>3 DEF SeatsInv

LEMMA SeatsInvStep == SeatsInv /\ [Next]_vars => SeatsInv'
<1> SUFFICES ASSUME SeatsInv, [Next]_vars PROVE SeatsInv'
  OBVIOUS
<1>1. TypeInv /\ TypeInv' /\ Typed /\ Attached
  BY TypeInvStep DEF SeatsInv, TypeInv
<1> DEFINE Bounds(k) == /\ Covered(store[k], held[k], stray[k])
                        /\ Within(store[k], held[k], stray[k], SharedBy(k))
<1>2. \A k \in Key : Bounds(k)
  BY DEF SeatsInv
<1>3. SUFFICES ASSUME NEW k \in Key PROVE Bounds(k)'
  BY <1>1 DEF SeatsInv
<1>4. /\ store[k] \in Hash(Rules)
      /\ held[k] \in SUBSET Reqs
      /\ stray[k] \in Nat
      /\ SharedBy(k) \in SUBSET Rules
  BY <1>1 DEF Typed, SharedBy
<1>5. ASSUME store'[k] = store[k], held'[k] = held[k], stray'[k] = stray[k]
      PROVE  Bounds(k)'
  BY <1>2, <1>5 DEF Covered, Within
<1>6. ASSUME NEW r \in Reqs, At(r, "reserve"), ReserveExecuted(r)
      PROVE  Bounds(k)'
  <2> DEFINE rule == req[r].rule
             deadline == now + req[r].ttl * Second
  <2>1. rule \in Rules /\ req[r].key \in Key /\ rule \in SharedBy(req[r].key)
    BY <1>1, <1>6 DEF Attached, At, Bound, HasKey
  <2>2. CASE req[r].key # k
    BY <1>1, <1>5, <1>6, <2>1, <2>2 DEF ReserveExecuted, Typed
  <2>3. CASE req[r].key = k
    <3>1. deadline \in Int
      BY <1>1, <1>6, DeadlineType
    <3>2. /\ store'[k] = TryReserveScript(store[k], rule, Limit(rule), deadline)
          /\ held'[k] = IF Granted(store[k], Limit(rule)) THEN held[k] \cup {r} ELSE held[k]
          /\ stray'[k] = stray[k]
      BY <1>1, <1>6, <2>3 DEF ReserveExecuted, Typed
    <3>3. rule \in SharedBy(k)
      BY <2>1, <2>3
    <3> HIDE DEF rule, deadline
    <3>4. LET g == TryReserveScript(store[k], rule, Limit(rule), deadline)
              T == IF Granted(store[k], Limit(rule)) THEN held[k] \cup {r} ELSE held[k]
          IN  Covered(g, T, stray[k]) /\ Within(g, T, stray[k], SharedBy(k))
      BY <1>2, <1>4, <3>1, <3>3, GrantKeepsBounds
    <3> QED BY <3>2, <3>4
  <2> QED BY <2>2, <2>3
<1>7. ASSUME NEW r \in Reqs, At(r, "eval"), SettleExecuted(r)
      PROVE  Bounds(k)'
  <2> DEFINE op == req[r].op
  <2>1. req[r].key \in Key
    BY <1>1, <1>7 DEF Attached, At, Bound, HasKey
  <2>2. CASE req[r].key # k
    BY <1>1, <1>5, <1>7, <2>1, <2>2 DEF SettleExecuted, Typed
  <2>3. CASE req[r].key = k
    <3>1. /\ store'[k] = IF op = "confirm" THEN ConfirmScript(store[k])
                                           ELSE RollbackScript(store[k])
          /\ held'[k] = held[k] \ {r}
          /\ stray'[k] = IF r \in held[k] THEN stray[k] ELSE stray[k] + 1
      BY <1>1, <1>7, <2>3 DEF SettleExecuted, Typed
    <3> HIDE DEF op
    <3>2. LET g == IF op = "confirm" THEN ConfirmScript(store[k]) ELSE RollbackScript(store[k])
              m == IF r \in held[k] THEN stray[k] ELSE stray[k] + 1
          IN  Covered(g, held[k] \ {r}, m) /\ Within(g, held[k] \ {r}, m, SharedBy(k))
      BY <1>2, <1>4, SettlementKeepsBounds
    <3> QED BY <3>1, <3>2
  <2> QED BY <2>2, <2>3
<1>8. ASSUME NEW r \in Reqs, Handler(r) PROVE Bounds(k)'
  <2>1. CASE Executed(r)
    BY <1>6, <1>7, <2>1 DEF Executed
  <2>2. CASE UNCHANGED redis
    BY <1>5, <2>2 DEF redis
  <2> QED BY <1>8, <2>1, <2>2, HandlerOnRedis
<1>9. CASE Crash
  BY <1>5, <1>9 DEF Crash, redis
<1>10. CASE Advance
  <2>1. PICK t \in Instants :
           /\ store' = [x \in Key |-> IF Expired(x, t) THEN NoHash ELSE store[x]]
           /\ held'  = [x \in Key |-> IF Expired(x, t) THEN {} ELSE held[x]]
           /\ stray' = [x \in Key |-> IF Expired(x, t) THEN 0 ELSE stray[x]]
    BY <1>10 DEF Advance
  <2>2. CASE Expired(k, t)
    <3>1. store'[k] = NoHash /\ held'[k] = {} /\ stray'[k] = 0
      BY <2>1, <2>2
    <3> QED BY <3>1, EmptyKeyBounds
  <2>3. CASE ~Expired(k, t)
    BY <1>5, <2>1, <2>3
  <2> QED BY <2>2, <2>3
<1>11. CASE UNCHANGED vars
  BY <1>5, <1>11 DEF vars
<1> QED BY <1>8, <1>9, <1>10, <1>11 DEF Next, Finished

(* Only settlements under a key that does not seat the request can let      *)
(* successes above the limit, whatever fails in between.                   *)
THEOREM SuccessBounded == Spec => []OvershootBounded
<1>1. SeatsInv => OvershootBounded
  BY DEF SeatsInv, Within, OvershootBounded
<1> QED BY <1>1, SeatsInvInit, SeatsInvStep, PTL DEF Spec

(* pending misses no seat but those that such settlements took. *)
THEOREM PendingCoversSeats == Spec => []SeatsCounted
<1>1. SeatsInv => SeatsCounted
  BY DEF SeatsInv, Covered, SeatsCounted
<1> QED BY <1>1, SeatsInvInit, SeatsInvStep, PTL DEF Spec

-------------------------------------------------------------------------------
(* Where seats are remembered.                                             *)

(* A request that has not reserved holds no seat; one that has is still to *)
(* settle, or settled under another key, or met a failed call, or died.    *)
Remembers(r, k) ==
    /\ pc[r] \notin {"new", "ttl"}
    /\ \/ req[r].hurt
       \/ pc[r] \in {"upstream", "settle", "eval", "crashed"}
       \/ pc[r] \in {"stream", "served", "failed"} /\ req[r].key # k

Remembered == \A k \in Key : \A r \in held[k] : Remembers(r, k)

(* Where no call fails and nothing crashes, no request is hurt by it. *)
Unhurt == Faults = {} => \A r \in Reqs : ~req[r].hurt /\ pc[r] # "crashed"

SeatInv == TypeInv /\ Remembered /\ Unhurt

-------------------------------------------------------------------------------
(* What one step of a request does to its own locals.                      *)

(* What a failed call leaves: hurt, and a request that has reserved.       *)
LEMMA NoReplyHurts ==
    ASSUME TypeInv, NEW r \in Reqs, At(r, "reserve") \/ At(r, "eval"), NoReply(r)
    PROVE  /\ req'[r].hurt
           /\ pc'[r] \in {"reserve", "eval", "settle", "forward", "unavailable",
                          "failed", "stream", "served"}
           /\ \A q \in Reqs : q # r => req'[q] = req[q] /\ pc'[q] = pc[q]
<1>1. req \in [Reqs -> Locals] /\ pc \in [Reqs -> {"new"} \cup InFlight \cup Final]
  BY DEF TypeInv, Typed
<1>2. CASE req[r].try < MaxRetries
  <2> DEFINE n == req[r].try + 1
             q == [req[r] EXCEPT !.hurt = TRUE, !.try = n]
  <2>1. req' = [req EXCEPT ![r] = q] /\ pc' = pc
    BY <1>2 DEF NoReply
  <2>2. q.hurt
    <3> HIDE DEF n
    <3> QED BY <1>1 DEF Locals
  <2> HIDE DEF q
  <2> QED BY <1>1, <2>1, <2>2 DEF At
<1>3. CASE ~(req[r].try < MaxRetries)
  <2>1. GiveUp(r)
    BY <1>3 DEF NoReply
  <2>2. \E to \in {"settle", "forward", "unavailable", "failed", "stream", "served"} :
           pc' = [pc EXCEPT ![r] = to]
    BY <2>1 DEF GiveUp, Goto, AfterSettle
  <2>3. \/ req' = [req EXCEPT ![r].hurt = TRUE]
        \/ req' = [req EXCEPT ![r].hurt = TRUE, ![r].op = "rollback"]
    BY <2>1 DEF GiveUp
  <2>4. req'[r].hurt /\ \A q \in Reqs : q # r => req'[q] = req[q]
    BY <1>1, <2>3 DEF Locals
  <2> QED BY <1>1, <2>2, <2>4
<1> QED BY <1>2, <1>3

(* No step touches another request. *)
LEMMA OthersUntouched ==
    ASSUME TypeInv, NEW r \in Reqs, Handler(r)
    PROVE  \A q \in Reqs : q # r => req'[q] = req[q] /\ pc'[q] = pc[q]
<1>1. req \in [Reqs -> Locals] /\ pc \in [Reqs -> {"new"} \cup InFlight \cup Final]
  BY DEF TypeInv, Typed
<1>2. CASE LoseReply(r) \/ LoseCall(r)
  BY <1>2, NoReplyHurts DEF LoseReply, LoseCall, Executed
<1>3. CASE Pass(r) \/ Match(r) \/ ReadTTL(r) \/ UpstreamFails(r) \/ UpstreamSucceeds(r)
           \/ FirstEvent(r) \/ SettleKey(r) \/ ReserveReply(r) \/ SettleReply(r)
           \/ StreamEnds(r) \/ Forwarded(r)
  BY <1>1, <1>3 DEF Pass, Match, ReadTTL, Settle, UpstreamFails, UpstreamSucceeds, FirstEvent,
                    SettleKey, ReserveReply, SettleReply, StreamEnds, Forwarded, Goto
<1> QED BY <1>2, <1>3 DEF Handler, RedisCall

(* A step without a failure keeps what a matched request knows, and its    *)
(* key until the settlement, which computes it anew.                       *)
LEMMA LocalsKept ==
    ASSUME TypeInv, NEW r \in Reqs, Handler(r), ~LoseReply(r), ~LoseCall(r), ~Match(r)
    PROVE  /\ req'[r].hurt = req[r].hurt
           /\ req'[r].rule = req[r].rule /\ req'[r].ident = req[r].ident
           /\ pc[r] # "settle" => req'[r].key = req[r].key
<1>1. req[r] \in Locals /\ req \in [Reqs -> Locals]
  BY DEF TypeInv, Typed
<1>2. CASE ReadTTL(r)
  <2> DEFINE n == PeriodTTL(RuleConf[req[r].rule], now)
  <2>1. req' = [req EXCEPT ![r].ttl = n]
    BY <1>2 DEF ReadTTL
  <2> HIDE DEF n
  <2> QED BY <1>1, <2>1 DEF Locals
<1>3. CASE UpstreamFails(r) \/ UpstreamSucceeds(r) \/ FirstEvent(r)
  <2>1. ASSUME NEW op, NEW sse, Settle(r, op, sse)
        PROVE  /\ req'[r].hurt = req[r].hurt /\ req'[r].key = req[r].key
               /\ req'[r].rule = req[r].rule /\ req'[r].ident = req[r].ident
    <3>1. req'[r] = [req[r] EXCEPT !.op = op, !.sse = sse]
      BY <1>1, <2>1 DEF Settle
    <3> QED BY <1>1, <3>1 DEF Locals
  <2> QED BY <1>3, <2>1 DEF UpstreamFails, UpstreamSucceeds, FirstEvent
<1>4. CASE SettleKey(r)
  <2> DEFINE k == BuildKey(PeriodKey(RuleConf[req[r].rule], now), req[r].ident)
  <2>1. req' = [req EXCEPT ![r].try = 0, ![r].key = k] /\ pc[r] = "settle"
    BY <1>4 DEF SettleKey, At
  <2> HIDE DEF k
  <2> QED BY <1>1, <2>1 DEF Locals
<1>5. CASE Pass(r) \/ ReserveReply(r) \/ SettleReply(r) \/ StreamEnds(r) \/ Forwarded(r)
  BY <1>5 DEF Pass, ReserveReply, SettleReply, StreamEnds, Forwarded
<1> QED BY <1>2, <1>3, <1>4, <1>5 DEF Handler, RedisCall

-------------------------------------------------------------------------------
(* The invariant.                                                          *)

LEMMA SeatInvInit == Init => SeatInv
<1> SUFFICES ASSUME Init PROVE SeatInv
  OBVIOUS
<1>1. TypeInv
  BY TypeInvInit
<1>2. Remembered
  BY DEF Init, Remembered
<1>3. Unhurt
  BY DEF Init, Unhurt, NoReq
<1> QED BY <1>1, <1>2, <1>3 DEF SeatInv

(* The seats after a step of a request: those before, but the request's    *)
(* own seat under its key, which a grant adds and a settlement removes.    *)
LEMMA SeatsAfter ==
    ASSUME TypeInv, NEW r \in Reqs, Handler(r), NEW k \in Key, NEW q \in held'[k]
    PROVE  \/ q \in held[k] /\ ~(q = r /\ At(r, "eval") /\ Executed(r) /\ k = req[r].key)
           \/ q = r /\ At(r, "reserve") /\ Executed(r) /\ Granted(store[req[r].key], Limit(req[r].rule))
<1>1. held \in [Key -> SUBSET Reqs]
  BY DEF TypeInv, Typed
<1>2. CASE At(r, "reserve") /\ ReserveExecuted(r)
  BY <1>1, <1>2 DEF ReserveExecuted, Executed, At
<1>3. CASE At(r, "eval") /\ SettleExecuted(r)
  BY <1>1, <1>3 DEF SettleExecuted
<1>4. CASE UNCHANGED redis /\ ~Executed(r)
  BY <1>4 DEF redis
<1> QED BY <1>2, <1>3, <1>4, HandlerOnRedis DEF Executed

(* A step of a request goes on remembering its seats. *)
LEMMA OwnSeatsRemembered ==
    ASSUME TypeInv, Remembered, NEW r \in Reqs, Handler(r), NEW k \in Key, r \in held'[k]
    PROVE  Remembers(r, k)'
<1>1. /\ pc \in [Reqs -> {"new"} \cup InFlight \cup Final]
      /\ r \in held[k] => Remembers(r, k)
  BY DEF TypeInv, Typed, Remembered
<1>2. \/ r \in held[k] /\ ~(At(r, "eval") /\ Executed(r) /\ k = req[r].key)
      \/ At(r, "reserve") /\ Executed(r) /\ Granted(store[req[r].key], Limit(req[r].rule))
  BY SeatsAfter
<1>3. CASE LoseReply(r) \/ LoseCall(r)
  <2>1. NoReply(r) /\ (At(r, "reserve") \/ At(r, "eval"))
    BY <1>3 DEF LoseReply, LoseCall, Executed
  <2> QED BY <2>1, NoReplyHurts DEF Remembers
<1>4. CASE Pass(r) \/ Match(r) \/ ReadTTL(r)
  BY <1>1, <1>2, <1>4 DEF Pass, Match, ReadTTL, At, Remembers
<1>5. CASE ReserveReply(r)
  <2>1. /\ At(r, "reserve") /\ req' = req
        /\ pc' = [pc EXCEPT ![r] = IF Granted(store[req[r].key], Limit(req[r].rule))
                                   THEN "upstream" ELSE "limited"]
    BY <1>5 DEF ReserveReply, Goto
  <2>2. CASE Granted(store[req[r].key], Limit(req[r].rule))
    BY <1>1, <2>1, <2>2 DEF Remembers
  <2>3. CASE ~Granted(store[req[r].key], Limit(req[r].rule))
    BY <1>1, <1>2, <2>1, <2>3 DEF Remembers, At
  <2> QED BY <2>2, <2>3
<1>6. CASE UpstreamFails(r) \/ UpstreamSucceeds(r) \/ FirstEvent(r)
  BY <1>1, <1>6 DEF UpstreamFails, UpstreamSucceeds, FirstEvent, Settle, Goto, Remembers
<1>7. CASE SettleKey(r)
  BY <1>1, <1>7 DEF SettleKey, Goto, Remembers
<1>8. CASE SettleReply(r)
  <2>1. At(r, "eval") /\ Executed(r) /\ req' = req
    BY <1>8 DEF SettleReply, Executed
  <2>2. k # req[r].key
    BY <1>2, <2>1 DEF At
  <2>3. pc'[r] \in {"failed", "stream", "served"}
    BY <1>1, <1>8 DEF SettleReply, Goto, AfterSettle
  <2> QED BY <2>1, <2>2, <2>3 DEF Remembers
<1>9. CASE StreamEnds(r)
  BY <1>1, <1>2, <1>9 DEF StreamEnds, At, Goto, Remembers
<1>10. CASE Forwarded(r)
  BY <1>1, <1>2, <1>10 DEF Forwarded, At, Goto, Remembers
<1> QED BY <1>3, <1>4, <1>5, <1>6, <1>7, <1>8, <1>9, <1>10 DEF Handler, RedisCall

LEMMA SeatInvStep == SeatInv /\ [Next]_vars => SeatInv'
<1> SUFFICES ASSUME SeatInv, [Next]_vars PROVE SeatInv'
  OBVIOUS
<1>1. TypeInv /\ TypeInv' /\ Remembered /\ Unhurt
  BY TypeInvStep DEF SeatInv
<1>2. ASSUME NEW r \in Reqs, Handler(r) PROVE Remembered' /\ Unhurt'
  <2>1. Remembered'
    <3> SUFFICES ASSUME NEW k \in Key, NEW q \in held'[k] PROVE Remembers(q, k)'
      BY DEF Remembered
    <3>1. CASE q = r
      BY <1>1, <1>2, <3>1, OwnSeatsRemembered
    <3>2. CASE q # r
      <4>1. q \in held[k] /\ q \in Reqs
        BY <1>1, <1>2, <3>2, SeatsAfter DEF TypeInv, Typed
      <4>2. req'[q] = req[q] /\ pc'[q] = pc[q]
        BY <1>1, <1>2, <3>2, <4>1, OthersUntouched
      <4> QED BY <1>1, <4>1, <4>2 DEF Remembered, Remembers
    <3> QED BY <3>1, <3>2
  <2>2. Unhurt'
    <3> SUFFICES ASSUME Faults = {}, NEW q \in Reqs PROVE ~req'[q].hurt /\ pc'[q] # "crashed"
      BY DEF Unhurt
    <3>1. CASE q # r
      BY <1>1, <1>2, <3>1, OthersUntouched DEF Unhurt
    <3>2. CASE q = r
      <4>1. ~LoseReply(r) /\ ~LoseCall(r)
        BY DEF LoseReply, LoseCall
      <4>2. pc'[r] # "crashed"
        BY <1>1, <1>2, <4>1 DEF Handler, RedisCall, Pass, Match, ReadTTL, Settle, UpstreamFails,
           UpstreamSucceeds, FirstEvent, SettleKey, ReserveReply, SettleReply, StreamEnds,
           Forwarded, Goto, AfterSettle, TypeInv, Typed
      <4>3. CASE Match(r)
        <5>1. PICK rule \in Rules, ident \in Idents :
                 req' = [req EXCEPT ![r] = [NoReq EXCEPT
                    !.rule = rule, !.ident = ident,
                    !.key = BuildKey(PeriodKey(RuleConf[rule], now), ident)]]
          BY <4>3 DEF Match
        <5> DEFINE k == BuildKey(PeriodKey(RuleConf[rule], now), ident)
                   new == [NoReq EXCEPT !.rule = rule, !.ident = ident, !.key = k]
        <5>2. ~new.hurt
          <6> HIDE DEF k
          <6> QED BY DEF NoReq
        <5>3. req'[r] = new
          BY <1>1, <5>1 DEF TypeInv, Typed
        <5> HIDE DEF new
        <5> QED BY <3>2, <4>2, <5>2, <5>3
      <4>4. CASE ~Match(r)
        BY <1>1, <1>2, <3>2, <4>1, <4>2, <4>4, LocalsKept DEF Unhurt
      <4> QED BY <4>3, <4>4
    <3> QED BY <3>1, <3>2
  <2> QED BY <2>1, <2>2
<1>3. CASE Crash
  <2>1. "crash" \in Faults /\ held' = held /\ req' = req
    BY <1>3 DEF Crash, redis
  <2>2. \A r \in Reqs : pc'[r] = "crashed" \/ pc'[r] = pc[r]
    BY <1>3 DEF Crash
  <2>3. \A k \in Key : held[k] \subseteq Reqs
    BY <1>1 DEF TypeInv, Typed
  <2> QED BY <1>1, <2>1, <2>2, <2>3 DEF SeatInv, Remembered, Remembers, Unhurt
<1>4. CASE Advance
  <2>1. \A k \in Key : held'[k] \subseteq held[k]
    BY <1>1, <1>4 DEF Advance, TypeInv, Typed
  <2> QED BY <1>1, <1>4, <2>1 DEF Advance, SeatInv, Remembered, Remembers, Unhurt
<1>5. CASE UNCHANGED vars
  BY <1>1, <1>5 DEF vars, SeatInv, Remembered, Remembers, Unhurt
<1> QED BY <1>1, <1>2, <1>3, <1>4, <1>5 DEF Next, Finished, SeatInv

(* A request that is over left no seat behind on any path of the handler:  *)
(* only a crash, a failed call or a change of window can leave one.        *)
THEOREM SeatsRemembered == Spec => []NoForgottenSeat
<1>1. SeatInv => NoForgottenSeat
  BY DEF SeatInv, Remembered, Remembers, NoForgottenSeat, Final
<1> QED BY <1>1, SeatInvInit, SeatInvStep, PTL DEF Spec

-------------------------------------------------------------------------------
(* Without failures a request reserves once, and each of its settlements   *)
(* frees at most the seat that it takes from pending.                      *)

Backed == Faults = {} => \A k \in Key : store[k].pending <= Cardinality(held[k])

LEMMA SeatAdded ==
    ASSUME NEW S \in SUBSET Reqs, NEW r \in Reqs, r \notin S
    PROVE  Cardinality(S \cup {r}) = Cardinality(S) + 1
BY SeatsFinite, FS_AddElement

(* A request about to reserve has no seat yet. *)
LEMMA NotSeatedYet ==
    ASSUME SeatInv, Faults = {}, NEW r \in Reqs, At(r, "reserve"), NEW k \in Key
    PROVE  r \notin held[k]
BY DEF SeatInv, Remembered, Remembers, Unhurt, At

LEMMA BackedStep == SeatInv /\ Backed /\ [Next]_vars => Backed'
<1> SUFFICES ASSUME SeatInv, Backed, [Next]_vars, Faults = {}, NEW k \in Key
             PROVE  store'[k].pending <= Cardinality(held'[k])
  BY DEF Backed
<1>1. /\ Typed /\ Attached
      /\ store[k] \in Hash(Rules) /\ held[k] \in SUBSET Reqs
      /\ store[k].pending <= Cardinality(held[k])
  BY DEF SeatInv, TypeInv, Typed, Backed
<1>2. store[k].pending \in Nat /\ Cardinality(held[k]) \in Nat
  BY <1>1, CountersType, SeatsFinite
<1>3. CASE store'[k] = store[k] /\ held'[k] = held[k]
  BY <1>1, <1>3
<1>4. ASSUME NEW r \in Reqs, At(r, "reserve"), ReserveExecuted(r)
      PROVE  store'[k].pending <= Cardinality(held'[k])
  <2> DEFINE rule == req[r].rule
             deadline == now + req[r].ttl * Second
             g == TryReserveScript(store[k], rule, Limit(rule), deadline)
  <2>1. rule \in Rules /\ req[r].key \in Key /\ Limit(rule) \in Int /\ deadline \in Int
    BY <1>1, <1>4, RuleType, DeadlineType DEF Attached, At, Bound, HasKey
  <2>2. CASE req[r].key # k
    BY <1>1, <1>3, <1>4, <2>1, <2>2 DEF ReserveExecuted, Typed
  <2>3. CASE req[r].key = k
    <3>1. /\ store'[k] = g
          /\ held'[k] = IF Granted(store[k], Limit(rule)) THEN held[k] \cup {r} ELSE held[k]
      BY <1>1, <1>4, <2>3 DEF ReserveExecuted, Typed
    <3>2. Cardinality(held[k] \cup {r}) = Cardinality(held[k]) + 1
      BY <1>1, <1>4, NotSeatedYet, SeatAdded
    <3> HIDE DEF rule, deadline
    <3>3. g.pending = IF Granted(store[k], Limit(rule)) THEN store[k].pending + 1
                                                        ELSE store[k].pending
      BY <1>1, <2>1, TryReserveEffect
    <3> HIDE DEF g
    <3> QED BY <1>1, <1>2, <3>1, <3>2, <3>3
  <2> QED BY <2>2, <2>3
<1>5. ASSUME NEW r \in Reqs, At(r, "eval"), SettleExecuted(r)
      PROVE  store'[k].pending <= Cardinality(held'[k])
  <2> DEFINE g == IF req[r].op = "confirm" THEN ConfirmScript(store[k])
                                           ELSE RollbackScript(store[k])
  <2>1. req[r].key \in Key
    BY <1>1, <1>5 DEF Attached, At, Bound, HasKey
  <2>2. CASE req[r].key # k
    BY <1>1, <1>3, <1>5, <2>1, <2>2 DEF SettleExecuted, Typed
  <2>3. CASE req[r].key = k
    <3>1. store'[k] = g /\ held'[k] = held[k] \ {r}
      BY <1>1, <1>5, <2>3 DEF SettleExecuted, Typed
    <3>2. g.pending = IF store[k].pending > 0 THEN store[k].pending - 1 ELSE 0
      BY <1>1, ConfirmEffect, ReleaseEffect DEF RollbackScript
    <3>3. /\ Cardinality(held[k] \ {r}) = IF r \in held[k] THEN Cardinality(held[k]) - 1
                                                          ELSE Cardinality(held[k])
          /\ Cardinality(held[k] \ {r}) \in Nat
      BY <1>1, <1>5, SeatFreed, SeatsFinite
    <3> HIDE DEF g
    <3> QED BY <1>1, <1>2, <3>1, <3>2, <3>3
  <2> QED BY <2>2, <2>3
<1>6. ASSUME NEW r \in Reqs, Handler(r) PROVE store'[k].pending <= Cardinality(held'[k])
  BY <1>3, <1>4, <1>5, <1>6, HandlerOnRedis DEF Executed, redis
<1>7. CASE Crash \/ UNCHANGED vars
  BY <1>3, <1>7 DEF Crash, redis, vars
<1>8. CASE Advance
  <2>1. \/ store'[k] = store[k] /\ held'[k] = held[k]
        \/ store'[k] = NoHash /\ held'[k] = {}
    BY <1>8 DEF Advance
  <2>2. NoHash.pending = 0 /\ Cardinality({}) = 0
    BY FS_EmptySet DEF NoHash
  <2> QED BY <1>3, <2>1, <2>2
<1> QED BY <1>6, <1>7, <1>8 DEF Next, Finished

LEMMA BackedInit == Init => Backed
<1> SUFFICES ASSUME Init, NEW k \in Key PROVE store[k].pending <= Cardinality(held[k])
  BY DEF Backed
<1>1. store[k].pending = 0 /\ held[k] = {}
  BY DEF Init, NoHash
<1> QED BY <1>1, FS_EmptySet

(* Where nothing fails, pending counts no seat that nobody holds. *)
THEOREM PendingIsHeld == Spec => []PendingBacked
<1>1. SeatInv /\ Backed => PendingBacked
  BY DEF Backed, PendingBacked
<1> QED BY <1>1, SeatInvInit, SeatInvStep, BackedInit, BackedStep, PTL DEF Spec

(* Only the script refuses. *)
LEMMA OnlyReserveRefuses ==
    ASSUME SeatInv, Faults = {}, [Next]_vars, NEW r \in Reqs,
           pc[r] = "reserve", pc'[r] = "limited"
    PROVE  ~Granted(store[req[r].key], Limit(req[r].rule))
<1>1. TypeInv /\ pc \in [Reqs -> {"new"} \cup InFlight \cup Final]
  BY DEF SeatInv, TypeInv, Typed
<1>2. ~Crash
  BY DEF Crash
<1>3. PICK q \in Reqs : Handler(q)
  BY <1>1, <1>2 DEF Next, Advance, Finished, vars
<1>4. q = r
  BY <1>1, <1>3, OthersUntouched
<1>5. ~LoseReply(r) /\ ~LoseCall(r)
  BY DEF LoseReply, LoseCall
<1>6. ReserveReply(r)
  BY <1>3, <1>4, <1>5 DEF Handler, RedisCall, Pass, Match, ReadTTL, UpstreamFails,
     UpstreamSucceeds, FirstEvent, SettleKey, SettleReply, StreamEnds, Forwarded, At, Goto
<1> QED BY <1>1, <1>6 DEF ReserveReply, Goto

(* Where nothing fails, a request is refused only when as many as its      *)
(* limit have succeeded, or may still succeed, under its key.              *)
THEOREM RefusedWhenFull == Spec => RefusedOnlyWhenFull
<1> DEFINE Full(r) == LET k == req[r].key
                      IN  store[k].success + Cardinality(held[k]) >= Limit(req[r].rule)
           Refused == Faults = {} =>
               \A r \in Reqs : (pc[r] = "reserve" /\ pc'[r] = "limited") => Full(r)
<1>1. SeatInv /\ Backed /\ [Next]_vars => [Refused]_vars
  <2> SUFFICES ASSUME SeatInv, Backed, [Next]_vars, Faults = {}, NEW r \in Reqs,
                      pc[r] = "reserve", pc'[r] = "limited"
               PROVE  Full(r)
    OBVIOUS
  <2> DEFINE k == req[r].key
             limit == Limit(req[r].rule)
  <2>1. k \in Key /\ limit \in Int /\ store[k] \in Hash(Rules) /\ held[k] \in SUBSET Reqs
    BY RuleType DEF SeatInv, TypeInv, Typed, Attached, Bound, HasKey
  <2>2. ~Granted(store[k], limit)
    BY OnlyReserveRefuses
  <2>3. store[k].pending <= Cardinality(held[k])
    BY <2>1 DEF Backed
  <2> HIDE DEF k, limit
  <2>4. /\ store[k].success \in Int /\ store[k].pending \in Nat
        /\ Cardinality(held[k]) \in Nat
    BY <2>1, CountersType, SeatsFinite
  <2>5. store[k].success + Cardinality(held[k]) >= limit
    BY <2>1, <2>2, <2>3, <2>4 DEF Granted
  <2> QED BY <2>5 DEF k, limit
<1> HIDE DEF Refused
<1>2. Spec => [][Refused]_vars
  BY <1>1, SeatInvInit, SeatInvStep, BackedInit, BackedStep, PTL DEF Spec
<1> QED BY <1>2 DEF Refused, RefusedOnlyWhenFull

-------------------------------------------------------------------------------
(* How long a key is kept.  The timezone has settled for every rule.       *)

Steady == OffsetSettled({RuleConf[rule] : rule \in Rules}, Instants)

(* An expiry that falls no earlier than the last second of the window that *)
(* the key is named after.                                                 *)
Lasts(k, rule, expiry) == \A end \in WindowEnds(k, rule) : expiry > end - Second

(* A key about to be reserved under names a window that has begun, and the *)
(* expiry about to be set lasts, also when the script runs late.           *)
Dated(r) == pc[r] = "ttl" =>
    \E t \in Instants :
        t <= now /\ req[r].key = BuildKey(PeriodKey(RuleConf[req[r].rule], t), req[r].ident)

Timed(r) == pc[r] = "reserve" =>
    Lasts(req[r].key, req[r].rule, now + req[r].ttl * Second)

KeptInv ==
    /\ \A r \in Reqs : Dated(r) /\ Timed(r)
    /\ \A k \in Key : store[k].expireAt # NoExpiry =>
          \E rule \in SharedBy(k) : Lasts(k, rule, store[k].expireAt)

(* The time to live read at an instant lasts to the end of the window that *)
(* was in force at an earlier one, whether that window is over or not.     *)
LEMMA ReadLasts ==
    ASSUME Steady, NEW rule \in Rules, NEW ident, NEW t \in Instants, NEW u \in Instants, t <= u
    PROVE  Lasts(BuildKey(PeriodKey(RuleConf[rule], t), ident), rule,
                 u + PeriodTTL(RuleConf[rule], u) * Second)
<1> DEFINE R == {RuleConf[x] : x \in Rules}
           conf == RuleConf[rule]
           start == WindowStart(conf, t)
           expiry == u + PeriodTTL(conf, u) * Second
<1>1. /\ R \in SUBSET QuotaRule /\ conf \in R /\ conf \in QuotaRule
      /\ Instants \in SUBSET Int /\ t \in Int /\ u \in Int
      /\ OffsetSettled(R, Instants)
  BY RuleType, ProxyAssumption DEF Steady
<1> SUFFICES ASSUME NEW v \in Instants, PeriodKey(conf, v) = PeriodKey(conf, t)
             PROVE  expiry > WindowEnd(conf, WindowStart(conf, v)) - Second
  BY DEF Lasts, WindowEnds, BuildKey
<1> HIDE DEF R, conf
<1>2. WindowStart(conf, v) = start
  BY <1>1, NameOfWindow
<1>3. OnGrid(conf, t) /\ OnGrid(conf, u)
  BY <1>1, WindowOnGrid
<1>4. PeriodTTL(conf, u) \in Int /\ PeriodTTL(conf, u) >= 1 /\ Second \in Nat /\ Second > 0
  BY <1>1, PeriodTTLType, UnitsType
<1>5. WindowEnd(conf, start) \in Int /\ WindowStart(conf, u) \in Int
  BY <1>1, WindowType
<1>6. expiry \in Int /\ u + Second <= expiry
  <2> DEFINE ttl == PeriodTTL(conf, u)
  <2>1. ttl \in Int /\ ttl >= 1
    BY <1>4
  <2> HIDE DEF ttl
  <2>2. ttl * Second \in Int /\ 1 * Second <= ttl * Second
    BY <1>4, <2>1
  <2> QED BY <1>1, <1>4, <2>2 DEF ttl
<1>7. CASE WindowStart(conf, u) = start
  <2> DEFINE end == WindowEnd(conf, WindowStart(conf, u))
  <2>1. IF u + Second <= end THEN end - Second < expiry /\ expiry <= end
                             ELSE end <= expiry /\ expiry < end + Second
    BY <1>1, <1>3, ExpiryAtEnd
  <2>2. end \in Int /\ end = WindowEnd(conf, WindowStart(conf, v))
    BY <1>2, <1>5, <1>7
  <2> HIDE DEF end, expiry
  <2>3. expiry > end - Second
    BY <1>4, <1>6, <2>1, <2>2
  <2> QED BY <2>2, <2>3
<1>8. CASE WindowEnd(conf, start) <= WindowStart(conf, u)
  <2>1. WindowStart(conf, u) <= u
    BY <1>3 DEF OnGrid
  <2> HIDE DEF expiry, start
  <2>2. expiry > WindowEnd(conf, start) - Second
    BY <1>1, <1>4, <1>5, <1>6, <1>8, <2>1
  <2> QED BY <1>2, <2>2
<1> QED BY <1>1, <1>3, <1>7, <1>8, WindowsFollow

(* What lasts goes on lasting when it is set later. *)
LEMMA LaterLasts ==
    ASSUME NEW k, NEW rule \in Rules, NEW x \in Int, NEW y \in Int, x <= y, Lasts(k, rule, x)
    PROVE  Lasts(k, rule, y)
<1> SUFFICES ASSUME NEW end \in WindowEnds(k, rule) PROVE y > end - Second
  BY DEF Lasts
<1>1. end \in Int
  BY RuleType, ProxyAssumption, WindowType DEF WindowEnds
<1>2. x > end - Second
  BY DEF Lasts
<1> QED BY <1>1, <1>2, UnitsType

(* A request on its way to the reservation was matched, has read the time  *)
(* to live, or is sending the script again.                                *)
LEMMA WayToReserve ==
    ASSUME TypeInv, NEW r \in Reqs, Handler(r), pc'[r] \in {"ttl", "reserve"}
    PROVE  \/ Match(r) /\ pc'[r] = "ttl"
           \/ ReadTTL(r) /\ pc'[r] = "reserve"
           \/ /\ pc[r] = "reserve" /\ pc'[r] = "reserve"
              /\ req'[r].key = req[r].key /\ req'[r].rule = req[r].rule
              /\ req'[r].ttl = req[r].ttl
<1>1. req \in [Reqs -> Locals] /\ pc \in [Reqs -> {"new"} \cup InFlight \cup Final]
  BY DEF TypeInv, Typed
<1>2. CASE Match(r) \/ ReadTTL(r)
  BY <1>1, <1>2 DEF Match, ReadTTL, Goto
<1>3. CASE LoseReply(r) \/ LoseCall(r)
  <2>1. (At(r, "reserve") \/ At(r, "eval")) /\ NoReply(r)
    BY <1>3 DEF LoseReply, LoseCall, Executed
  <2>2. ~GiveUp(r)
    BY <1>1 DEF GiveUp, Goto, AfterSettle
  <2> DEFINE n == req[r].try + 1
  <2>3. req' = [req EXCEPT ![r].hurt = TRUE, ![r].try = n] /\ pc' = pc
    BY <2>1, <2>2 DEF NoReply
  <2>4. pc[r] = "reserve"
    BY <2>1, <2>3 DEF At
  <2> HIDE DEF n
  <2> QED BY <1>1, <2>3, <2>4 DEF Locals
<1>4. CASE Pass(r) \/ UpstreamFails(r) \/ UpstreamSucceeds(r) \/ FirstEvent(r) \/ SettleKey(r)
           \/ ReserveReply(r) \/ SettleReply(r) \/ StreamEnds(r) \/ Forwarded(r)
  BY <1>1, <1>4 DEF Pass, UpstreamFails, UpstreamSucceeds, FirstEvent, Settle, SettleKey,
     ReserveReply, SettleReply, StreamEnds, Forwarded, Goto, AfterSettle
<1> QED BY <1>2, <1>3, <1>4 DEF Handler, RedisCall

LEMMA OwnTimesKept ==
    ASSUME Steady, TypeInv, KeptInv, NEW r \in Reqs, Handler(r)
    PROVE  Dated(r)' /\ Timed(r)'
<1>1. req \in [Reqs -> Locals] /\ now \in Instants /\ now' = now /\ now \in Int
  BY HandlerOnRedis, ProxyAssumption DEF TypeInv, Typed
<1>2. CASE Match(r) /\ pc'[r] = "ttl"
  <2>1. PICK rule \in Rules, ident \in Idents :
           req' = [req EXCEPT ![r] = [NoReq EXCEPT
                    !.rule = rule, !.ident = ident,
                    !.key = BuildKey(PeriodKey(RuleConf[rule], now), ident)]]
    BY <1>2 DEF Match
  <2> DEFINE k == BuildKey(PeriodKey(RuleConf[rule], now), ident)
  <2>2. req'[r] = [NoReq EXCEPT !.rule = rule, !.ident = ident, !.key = k]
    BY <1>1, <2>1
  <2> HIDE DEF k
  <2>3. req'[r].rule = rule /\ req'[r].ident = ident /\ req'[r].key = k
    BY <2>2 DEF NoReq
  <2> QED BY <1>1, <1>2, <2>3 DEF k, Dated, Timed
<1>3. CASE ReadTTL(r) /\ pc'[r] = "reserve"
  <2> DEFINE rule == req[r].rule
             n == PeriodTTL(RuleConf[rule], now)
  <2>1. pc[r] = "ttl" /\ rule \in Rules /\ req' = [req EXCEPT ![r].ttl = n]
    BY <1>3 DEF ReadTTL, At, TypeInv, Attached, Bound, HasKey
  <2>2. PICK t \in Instants : t <= now /\ req[r].key = BuildKey(PeriodKey(RuleConf[rule], t), req[r].ident)
    BY <2>1 DEF KeptInv, Dated
  <2>3. Lasts(req[r].key, rule, now + n * Second)
    BY <1>1, <2>1, <2>2, ReadLasts
  <2> HIDE DEF n
  <2>4. req'[r].key = req[r].key /\ req'[r].rule = rule /\ req'[r].ttl = n
    BY <1>1, <2>1 DEF Locals
  <2>5. Timed(r)'
    BY <1>1, <2>3, <2>4 DEF Timed, Lasts, WindowEnds
  <2> QED BY <1>3, <2>5 DEF Dated
<1>4. CASE /\ pc[r] = "reserve" /\ pc'[r] = "reserve"
           /\ req'[r].key = req[r].key /\ req'[r].rule = req[r].rule
           /\ req'[r].ttl = req[r].ttl
  BY <1>1, <1>4 DEF KeptInv, Dated, Timed, Lasts, WindowEnds
<1>5. CASE pc'[r] \notin {"ttl", "reserve"}
  BY <1>5 DEF Dated, Timed
<1> QED BY <1>2, <1>3, <1>4, <1>5, WayToReserve

(* A script leaves the expiry, or sets the one that was computed. *)
LEMMA ExpiryWritten ==
    ASSUME TypeInv, NEW r \in Reqs, Handler(r), NEW k \in Key
    PROVE  \/ store'[k].expireAt = store[k].expireAt
           \/ /\ At(r, "reserve") /\ k = req[r].key
              /\ store'[k].expireAt = now + req[r].ttl * Second
<1>1. Typed /\ store[k] \in Hash(Rules) /\ store \in [Key -> Hash(Rules)]
  BY DEF TypeInv, Typed
<1>2. CASE At(r, "reserve") /\ ReserveExecuted(r)
  <2> DEFINE rule == req[r].rule
             deadline == now + req[r].ttl * Second
  <2>1. rule \in Rules /\ Limit(rule) \in Int /\ deadline \in Int /\ req[r].key \in Key
    BY <1>1, <1>2, RuleType, DeadlineType DEF TypeInv, Attached, At, Bound, HasKey
  <2>2. store'[k] = IF k = req[r].key THEN TryReserveScript(store[k], rule, Limit(rule), deadline)
                                      ELSE store[k]
    BY <1>1, <1>2, <2>1 DEF ReserveExecuted
  <2> HIDE DEF rule, deadline
  <2>3. TryReserveScript(store[k], rule, Limit(rule), deadline).expireAt = deadline
    BY <1>1, <2>1, ExpiryEffect
  <2> QED BY <1>2, <2>2, <2>3 DEF deadline
<1>3. CASE At(r, "eval") /\ SettleExecuted(r)
  <2>1. store'[k] \in {store[k], ConfirmScript(store[k]), RollbackScript(store[k])}
    BY <1>1, <1>3 DEF SettleExecuted
  <2>2. PICK rule \in Rules : TRUE
    BY <1>3 DEF TypeInv, Attached, At, Bound, HasKey
  <2> QED BY <1>1, <2>1, <2>2, ExpiryEffect
<1>4. CASE UNCHANGED redis
  BY <1>4 DEF redis
<1> QED BY <1>2, <1>3, <1>4, HandlerOnRedis DEF Executed

LEMMA KeptInit == Init => KeptInv
<1> SUFFICES ASSUME Init PROVE KeptInv
  OBVIOUS
<1>1. \A r \in Reqs : Dated(r) /\ Timed(r)
  BY DEF Init, Dated, Timed
<1>2. \A k \in Key : store[k].expireAt = NoExpiry
  BY DEF Init, NoHash
<1> QED BY <1>1, <1>2 DEF KeptInv

LEMMA KeptStep ==
    ASSUME Steady
    PROVE  TypeInv /\ KeptInv /\ [Next]_vars => KeptInv'
<1> SUFFICES ASSUME TypeInv, KeptInv, [Next]_vars PROVE KeptInv'
  OBVIOUS
<1>1. ASSUME NEW r \in Reqs, Handler(r) PROVE KeptInv'
  <2>1. ASSUME NEW q \in Reqs PROVE Dated(q)' /\ Timed(q)'
    <3>1. CASE q = r
      BY <1>1, <3>1, OwnTimesKept
    <3>2. CASE q # r
      <4>1. req'[q] = req[q] /\ pc'[q] = pc[q] /\ now' = now
        BY <1>1, <3>2, OthersUntouched, HandlerOnRedis
      <4> QED BY <4>1 DEF KeptInv, Dated, Timed, Lasts, WindowEnds
    <3> QED BY <3>1, <3>2
  <2>2. ASSUME NEW k \in Key, store'[k].expireAt # NoExpiry
        PROVE  \E rule \in SharedBy(k) : Lasts(k, rule, store'[k].expireAt)
    <3>1. CASE store'[k].expireAt = store[k].expireAt
      BY <2>2, <3>1 DEF KeptInv
    <3>2. CASE /\ At(r, "reserve") /\ k = req[r].key
               /\ store'[k].expireAt = now + req[r].ttl * Second
      <4>1. req[r].rule \in SharedBy(k)
        BY <3>2 DEF TypeInv, Attached, At, Bound, HasKey
      <4>2. Lasts(k, req[r].rule, store'[k].expireAt)
        BY <3>2 DEF KeptInv, Timed, At
      <4> QED BY <4>1, <4>2
    <3> QED BY <1>1, <3>1, <3>2, ExpiryWritten
  <2> QED BY <2>1, <2>2 DEF KeptInv, Lasts, WindowEnds, SharedBy
<1>2. CASE Crash
  <2>1. now' = now /\ req' = req /\ store' = store
    BY <1>2 DEF Crash, redis
  <2>2. \A r \in Reqs : pc'[r] = "crashed" \/ pc'[r] = pc[r]
    BY <1>2 DEF Crash
  <2> QED BY <2>1, <2>2 DEF KeptInv, Dated, Timed, Lasts, WindowEnds, SharedBy
<1>3. CASE Advance
  <2>1. /\ now \in Int /\ now' \in Int /\ now < now' /\ req' = req /\ pc' = pc
    BY <1>3, ProxyAssumption DEF Advance, TypeInv, Typed
  <2>2. ASSUME NEW r \in Reqs PROVE Dated(r)' /\ Timed(r)'
    <3>1. Dated(r)'
      <4> SUFFICES ASSUME pc[r] = "ttl"
                   PROVE  \E t \in Instants : t <= now' /\
                             req[r].key = BuildKey(PeriodKey(RuleConf[req[r].rule], t), req[r].ident)
        BY <2>1 DEF Dated
      <4>1. PICK t \in Instants : t <= now /\
               req[r].key = BuildKey(PeriodKey(RuleConf[req[r].rule], t), req[r].ident)
        BY DEF KeptInv, Dated
      <4>2. t \in Int /\ t <= now'
        BY <2>1, <4>1, ProxyAssumption
      <4> QED BY <4>1, <4>2
    <3>2. Timed(r)'
      <4> SUFFICES ASSUME pc[r] = "reserve"
                   PROVE  Lasts(req[r].key, req[r].rule, now' + req[r].ttl * Second)
        BY <2>1 DEF Timed, Lasts, WindowEnds
      <4> DEFINE d == req[r].ttl * Second
      <4>1. req[r].ttl \in Int /\ req[r].rule \in Rules
        BY DEF TypeInv, Typed, Locals, Attached, Bound, HasKey
      <4>2. d \in Int
        BY <4>1, UnitsType
      <4>3. Lasts(req[r].key, req[r].rule, now + d)
        BY DEF KeptInv, Timed
      <4> HIDE DEF d
      <4>4. now + d \in Int /\ now' + d \in Int /\ now + d <= now' + d
        <5>1. \A a, b, c \in Int : a < b => a + c \in Int /\ b + c \in Int /\ a + c <= b + c
          OBVIOUS
        <5> QED BY <2>1, <4>2, <5>1
      <4>5. Lasts(req[r].key, req[r].rule, now' + d)
        BY <4>1, <4>3, <4>4, LaterLasts
      <4> QED BY <4>5 DEF d
    <3> QED BY <3>1, <3>2
  <2>3. \A k \in Key : store'[k] = NoHash \/ store'[k] = store[k]
    BY <1>3 DEF Advance
  <2>4. ASSUME NEW k \in Key, store'[k].expireAt # NoExpiry
        PROVE  \E rule \in SharedBy(k) : Lasts(k, rule, store'[k].expireAt)
    <3>1. NoHash.expireAt = NoExpiry
      BY DEF NoHash
    <3>2. store'[k] = store[k]
      BY <2>3, <2>4, <3>1
    <3> QED BY <2>4, <3>2 DEF KeptInv
  <2> QED BY <2>2, <2>4 DEF KeptInv, Lasts, WindowEnds, SharedBy
<1>4. CASE UNCHANGED vars
  BY <1>4 DEF vars, KeptInv, Dated, Timed, Lasts, WindowEnds, SharedBy
<1> QED BY <1>1, <1>2, <1>3, <1>4 DEF Next, Finished

(* In a settled timezone no key goes before the last second of its window: *)
(* neither a late script nor a window change between the readings of the   *)
(* clock nor another rule of the same key cuts the counts shorter.         *)
THEOREM KeptLong ==
    ASSUME Steady
    PROVE  Spec => []KeptToLastSecond
<1>1. KeptInv => KeptToLastSecond
  BY DEF KeptInv, KeptToLastSecond, Lasts
<1>2. TypeInv /\ KeptInv /\ [Next]_vars => KeptInv'
  BY KeptStep
<1> QED BY <1>1, <1>2, TypeInvInit, TypeInvStep, KeptInit, PTL DEF Spec

-------------------------------------------------------------------------------
(* Which rules share a key.                                                *)

(* A key that a request has ever had stays the key of its own rule. *)
Keyed == \A r \in Reqs : req[r].key \in Key => HasKey(req[r])

(* Where a request comes to an end, its rule and its key stay. *)
LEMMA KeyStays ==
    ASSUME TypeInv, NEW r \in Reqs, Handler(r), pc'[r] \notin Bound
    PROVE  /\ req'[r].rule = req[r].rule /\ req'[r].ident = req[r].ident
           /\ req'[r].key = req[r].key
<1>1. req \in [Reqs -> Locals] /\ pc \in [Reqs -> {"new"} \cup InFlight \cup Final]
  BY DEF TypeInv, Typed
<1>2. CASE LoseReply(r) \/ LoseCall(r)
  <2>1. NoReply(r) /\ (At(r, "reserve") \/ At(r, "eval"))
    BY <1>2 DEF LoseReply, LoseCall, Executed
  <2>2. GiveUp(r)
    BY <1>1, <2>1 DEF NoReply, At, Bound
  <2>3. \/ req' = [req EXCEPT ![r].hurt = TRUE]
        \/ req' = [req EXCEPT ![r].hurt = TRUE, ![r].op = "rollback"]
    BY <2>2 DEF GiveUp
  <2> QED BY <1>1, <2>3 DEF Locals
<1>3. CASE ~LoseReply(r) /\ ~LoseCall(r)
  <2>1. ~Match(r) /\ ~SettleKey(r)
    BY <1>1 DEF Match, SettleKey, Goto, Bound
  <2>2. pc[r] # "settle"
    BY <1>3, <2>1 DEF Handler, RedisCall, Pass, ReadTTL, UpstreamFails, UpstreamSucceeds,
       FirstEvent, ReserveReply, SettleReply, StreamEnds, Forwarded, At
  <2> QED BY <1>3, <2>1, <2>2, LocalsKept
<1> QED BY <1>2, <1>3

LEMMA KeyedInit == Init => Keyed
<1>1. NoKey \notin Key
  BY DEF NoKey, Key, BuildKey
<1>2. NoReq.key = NoKey
  BY DEF NoReq
<1>3. Init => req = [r \in Reqs |-> NoReq]
  BY DEF Init
<1> QED BY <1>1, <1>2, <1>3 DEF Keyed

LEMMA KeyedStep == TypeInv /\ Keyed /\ [Next]_vars => Keyed'
<1> SUFFICES ASSUME TypeInv, Keyed, [Next]_vars PROVE Keyed'
  OBVIOUS
<1>1. ASSUME NEW r \in Reqs, Handler(r) PROVE Keyed'
  <2> SUFFICES ASSUME NEW q \in Reqs, req'[q].key \in Key PROVE HasKey(req'[q])
    BY DEF Keyed
  <2>1. CASE q # r
    BY <1>1, <2>1, OthersUntouched DEF Keyed
  <2>2. CASE q = r /\ pc'[r] \in Bound
    BY <2>2, TypeInvStep DEF TypeInv, Attached
  <2>3. CASE q = r /\ pc'[r] \notin Bound
    BY <1>1, <2>3, KeyStays DEF Keyed, HasKey
  <2> QED BY <2>1, <2>2, <2>3
<1>2. CASE Crash \/ Advance \/ UNCHANGED vars
  BY <1>2 DEF Crash, Advance, vars, Keyed
<1> QED BY <1>1, <1>2 DEF Next, Finished

(* The name of a window tells its unit. *)
LEMMA NameTellsUnit ==
    ASSUME NEW k, NEW rule \in SharedBy(k)
    PROVE  k[1][1] = RuleConf[rule].window
BY DEF SharedBy, Periods, PeriodKey

(* Rules with windows of different units never count under one key: what   *)
(* README.md:160 says of all rules is true of these.                       *)
THEOREM OwnKeys ==
    ASSUME \A x, y \in Rules : RuleConf[x].window = RuleConf[y].window => x = y
    PROVE  Spec => []RulesHaveTheirOwnKeys
<1>1. ASSUME Keyed PROVE RulesHaveTheirOwnKeys
  <2> SUFFICES ASSUME NEW k \in Key, NEW r \in Reqs, NEW s \in Reqs,
                      req[r].key = k, req[s].key = k
               PROVE  req[r].rule = req[s].rule
    BY DEF RulesHaveTheirOwnKeys
  <2>1. HasKey(req[r]) /\ HasKey(req[s])
    BY <1>1 DEF Keyed
  <2> QED BY <2>1, NameTellsUnit DEF HasKey
<1> QED BY <1>1, TypeInvInit, TypeInvStep, KeyedInit, KeyedStep, PTL DEF Spec

===============================================================================
