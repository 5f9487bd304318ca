------------------------------- MODULE AdminProofs -----------------------------
(***************************************************************************)
(* Proofs about AdminQuota, for any requests, calls, rules, instants and   *)
(* faults: type correctness, that a rejection stands whatever the requests *)
(* in flight settle, that a scan misses no key that was there all along,   *)
(* that only a settlement without a seat leaves a key for ever, that seats *)
(* stay counted beside operators, and that pages make up the listing.      *)
(***************************************************************************)
EXTENDS AdminQuota, QuotaProxyProofs, ListLemmas

Places == {"idle"} \cup Busy \cup Answered

(* A call under way knows what it is for, and has what its next step       *)
(* takes; a listing goes by no rules.                                      *)
Fitting(place, q) ==
    /\ place \in Busy => /\ q.kind \in Kinds /\ q.ident \in Idents
                         /\ q.todo # <<>> => q.kind # "list"
    /\ WorksOn(place, q)

CallsInv ==
    /\ at \in [Calls -> Places]
    /\ call \in [Calls -> CallLocals]
    /\ \A a \in Calls : Fitting(at[a], call[a])

-------------------------------------------------------------------------------
(* The values the calls compute. *)

LEMMA OrderType == RuleOrder \in Seq(Rules) /\ RuleOrder # <<>> /\ Len(RuleOrder) \in Nat
<1>1. RuleOrder \in Seq(Rules) /\ RuleOrder # <<>>
  BY AdminAssumption, Zenon
<1> QED BY <1>1, LenProperties

LEMMA RulesLeft ==
    ASSUME NEW todo \in Todos, todo # <<>>
    PROVE  Head(todo) \in Rules /\ Tail(todo) \in Todos
<1>1. CASE todo \in {<<rule>> : rule \in Rules}
  <2>1. PICK rule \in Rules : todo = <<rule>>
    BY <1>1
  <2>2. todo \in Seq(Rules) /\ Len(todo) = 1 /\ todo[1] = rule
    BY <2>1
  <2>3. Head(todo) = rule /\ Tail(todo) = <<>>
    <3>1. Head(todo) = rule
      BY <2>2
    <3>2. todo = Append(<<>>, rule) /\ <<>> \in Seq(Rules)
      BY <2>1
    <3>3. Tail(todo) = <<>>
      BY <3>2, HeadTailAppend
    <3> QED BY <3>1, <3>3
  <2> QED BY <2>3 DEF Todos
<1>2. CASE todo \in Suffixes(RuleOrder)
  <2> DEFINE n == Len(RuleOrder)
  <2>1. RuleOrder \in Seq(Rules) /\ n \in Nat
    BY OrderType
  <2>2. PICK m \in 1..n : todo = SubSeq(RuleOrder, m, n)
    BY <1>2 DEF Suffixes
  <2>3. n \in m..n /\ RuleOrder[m] \in Rules
    BY <2>1, <2>2, ElementOfSeq
  <2>4. Head(todo) = RuleOrder[m] /\ Tail(todo) = SubSeq(RuleOrder, m + 1, n)
    BY <2>1, <2>2, <2>3, HeadTailOfSubSeq
  <2>5. CASE m = n
    <3>1. Tail(todo) = <<>>
      BY <2>1, <2>4, <2>5, SubSeqEmpty
    <3> QED BY <2>3, <2>4, <3>1 DEF Todos
  <2>6. CASE m # n
    <3>1. m + 1 \in 1..n
      BY <2>1, <2>2, <2>6
    <3>2. Tail(todo) \in Suffixes(RuleOrder)
      BY <2>4, <3>1 DEF Suffixes
    <3> QED BY <2>3, <2>4, <3>2 DEF Todos
  <2> QED BY <2>5, <2>6
<1> QED BY <1>1, <1>2 DEF Todos

LEMMA MeantLeft ==
    ASSUME NEW ask \in Asked
    PROVE  /\ RulesMeant(ask) \in Todos /\ ask.kind \in Kinds /\ ask.rule \in Names
           /\ ask.kind = "list" => RulesMeant(ask) = <<>>
<1>1. RuleOrder \in Suffixes(RuleOrder)
  <2>1. RuleOrder \in Seq(Rules) /\ 1 \in 1..Len(RuleOrder)
    BY OrderType, EmptySeq
  <2>2. RuleOrder = SubSeq(RuleOrder, 1, Len(RuleOrder))
    BY <2>1, SubSeqFull
  <2> QED BY <2>1, <2>2 DEF Suffixes
<1> QED BY <1>1, AdminAssumption DEF RulesMeant, Todos, Names, Kinds

LEMMA NoCallType == NoCall \in CallLocals /\ \A place \in Answered : Fitting(place, NoCall)
<1>1. <<>> \in Todos /\ "" \in Names /\ 0 \in 0..MaxRetries
  BY NoRetryYet DEF Todos, Names
<1>2. NoCall \in CallLocals
  <2>1. NoKey \in Idents \cup {NoKey} /\ NoKey \in Key \cup {NoKey} /\ {} \in SUBSET Key
        /\ {} \in SUBSET Listed
    OBVIOUS
  <2>2. "" \in Kinds \cup {""} /\ 0 \in Int /\ 1 \in Nat \ {0}
    OBVIOUS
  <2> QED BY <1>1, <2>1, <2>2 DEF NoCall, CallLocals
<1> QED BY <1>2 DEF Fitting, WorksOn, Busy, OnRedis, Answered

LEMMA TimeToLiveType ==
    ASSUME NEW h \in Hash(Rules), now \in Int
    PROVE  TimeToLive(h) \in Nat \ {0}
<1> DEFINE n == 2 * (h.expireAt - now) + Second
           d == 2 * Second
           left == n \div d
<1>1. n \in Int /\ d \in Nat /\ d > 0
  <2>1. h.expireAt \in Int
    BY DEF Hash
  <2> QED BY <2>1, UnitsType
<1> HIDE DEF n, d
<1>2. left \in Int
  BY <1>1
<1>3. TimeToLive(h) = IF ~h.live \/ h.expireAt = NoExpiry \/ left <= 0 THEN DaySeconds ELSE left
  BY DEF TimeToLive, n, d
<1> HIDE DEF left
<1> QED BY <1>2, <1>3 DEF DaySeconds

LEMMA LimitFoundType ==
    ASSUME NEW h \in Hash(Rules)
    PROVE  LimitFound(h) \in Int /\ LimitFound(h) >= 1
<1>1. h.limit \in Int
  BY DEF Hash
<1> QED BY <1>1 DEF LimitFound

-------------------------------------------------------------------------------
(* The calls keep their types. *)

LEMMA CallWritten ==
    ASSUME CallsInv, NEW a \in Calls, NEW q \in CallLocals, NEW to \in Places, Fitting(to, q),
           at' = [at EXCEPT ![a] = to], call' = [call EXCEPT ![a] = q]
    PROVE  CallsInv'
BY DEF CallsInv, Fitting

LEMMA CallEntered ==
    ASSUME CallsInv, NEW a \in Calls, NEW q \in CallLocals, NEW to \in Places, Fitting(to, q),
           Enter(a, to, q)
    PROVE  CallsInv'
<1>1. CASE to \in Answered
  BY <1>1, NoCallType, CallWritten DEF Enter
<1>2. CASE to \notin Answered
  BY <1>2, CallWritten DEF Enter
<1> QED BY <1>1, <1>2

LEMMA CallType ==
    ASSUME CallsInv, NEW a \in Calls
    PROVE  /\ call[a] \in CallLocals /\ at[a] \in Places
           /\ at[a] \in Busy => /\ call[a].kind \in Kinds /\ call[a].ident \in Idents
                                /\ call[a].todo # <<>> => call[a].kind # "list"
           /\ WorksOn(at[a], call[a])
           /\ at[a] \in {"expiry", "httl"} => call[a].key \in Key
           /\ at[a] \in {"rule", "expiry"} => call[a].todo # <<>>
BY DEF CallsInv, Fitting, WorksOn, Busy, OnRedis

LEMMA AskCalls == ASSUME CallsInv, NEW a \in Calls, Ask(a) PROVE CallsInv'
<1>1. PICK ask \in Asked, ident \in Idents :
        /\ call' = [call EXCEPT ![a] = [NoCall EXCEPT
                       !.kind = ask.kind, !.rule = ask.rule, !.ident = ident,
                       !.todo = RulesMeant(ask), !.left = Key]]
        /\ at' = [at EXCEPT ![a] = IF RulesMeant(ask) = <<>> THEN "scan" ELSE "rule"]
  BY DEF Ask, Jump
<1> DEFINE todo == RulesMeant(ask)
           q == [NoCall EXCEPT !.kind = ask.kind, !.rule = ask.rule, !.ident = ident,
                               !.todo = todo, !.left = Key]
           to == IF todo = <<>> THEN "scan" ELSE "rule"
<1>2. /\ todo \in Todos /\ ask.kind \in Kinds /\ ask.rule \in Names
      /\ ask.kind = "list" => todo = <<>>
  BY MeantLeft
<1> HIDE DEF todo
<1>3. q \in CallLocals /\ q.kind = ask.kind /\ q.ident = ident /\ q.todo = todo
  <2>1. NoCall \in CallLocals
    BY NoCallType
  <2> DEFINE b == [NoCall EXCEPT !.kind = ask.kind, !.rule = ask.rule, !.ident = ident]
  <2>2. b \in CallLocals /\ b.kind = ask.kind /\ b.ident = ident
    BY <1>2, <2>1 DEF CallLocals
  <2>3. q = [b EXCEPT !.todo = todo, !.left = Key]
    OBVIOUS
  <2> HIDE DEF b
  <2> QED BY <1>2, <2>2, <2>3 DEF CallLocals
<1>4. to \in Places /\ Fitting(to, q)
  BY <1>2, <1>3 DEF Places, Busy, OnRedis, Fitting, WorksOn
<1>5. at' = [at EXCEPT ![a] = to] /\ call' = [call EXCEPT ![a] = q]
  BY <1>1 DEF todo
<1> HIDE DEF q, to
<1> QED BY <1>3, <1>4, <1>5, CallWritten

LEMMA NextRuleCalls ==
    ASSUME Typed, CallsInv, NEW a \in Calls, NextRule(a) PROVE CallsInv'
<1> DEFINE rule == Head(call[a].todo)
           k == BuildKey(PeriodKey(RuleConf[rule], now), call[a].ident)
           limit == Limit(rule)
           to == CASE call[a].kind = "reject" -> "expiry"
                   [] call[a].kind = "reset"  -> "reset"
                   [] call[a].kind = "status" -> "get"
           q == [call[a] EXCEPT !.limit = limit, !.try = 0, !.key = k]
<1>1. at[a] = "rule" /\ at' = [at EXCEPT ![a] = to]
  BY DEF NextRule, Jump
<1>2. /\ call[a] \in CallLocals /\ call[a].kind \in Kinds \ {"list"} /\ call[a].ident \in Idents
      /\ call[a].todo \in Todos /\ call[a].todo # <<>>
  <2>1. /\ call[a] \in CallLocals /\ call[a].kind \in Kinds /\ call[a].ident \in Idents
        /\ call[a].todo # <<>> /\ call[a].kind # "list"
    BY <1>1, CallType DEF Busy
  <2>2. call[a].todo \in Todos
    BY <2>1 DEF CallLocals
  <2> QED BY <2>1, <2>2
<1>3. rule \in Rules
  BY <1>2, RulesLeft
<1>4. k \in Key /\ limit \in Int /\ 0 \in 0..MaxRetries
  <2>1. now \in Instants
    BY DEF Typed
  <2> HIDE DEF rule, k
  <2> QED BY <1>2, <1>3, <2>1, KeyOfRule, RuleType, NoRetryYet DEF k
<1>5. call' = [call EXCEPT ![a] = q]
  BY <1>2 DEF NextRule, CallsInv
<1> HIDE DEF k, limit, rule
<1>6. /\ q \in CallLocals /\ q.kind = call[a].kind /\ q.ident = call[a].ident
      /\ q.todo = call[a].todo /\ q.key = k
  BY <1>2, <1>4 DEF CallLocals
<1>7. to \in {"expiry", "reset", "get"}
  BY <1>2 DEF Kinds
<1>8. to \in Places /\ Fitting(to, q)
  BY <1>2, <1>4, <1>6, <1>7 DEF Places, Busy, OnRedis, Fitting, WorksOn
<1> HIDE DEF q, to
<1> QED BY <1>1, <1>5, <1>6, <1>8, CallWritten

LEMMA ReadExpiryCalls ==
    ASSUME Typed, CallsInv, NEW a \in Calls, ReadExpiry(a) PROVE CallsInv'
<1> DEFINE rule == Head(call[a].todo)
           ttl == PeriodTTL(RuleConf[rule], now)
           q == [call[a] EXCEPT !.ttl = ttl]
<1>1. /\ at[a] = "expiry" /\ at' = [at EXCEPT ![a] = "reject"]
      /\ call' = [call EXCEPT ![a] = q]
  BY DEF ReadExpiry, Jump, CallsInv
<1>2. /\ call[a] \in CallLocals /\ call[a].kind \in Kinds /\ call[a].ident \in Idents
      /\ call[a].todo # <<>> => call[a].kind # "list"
      /\ call[a].todo # <<>> /\ call[a].key \in Key
  BY <1>1, CallType DEF Busy
<1>3. rule \in Rules
  <2>1. call[a].todo \in Todos
    BY <1>2 DEF CallLocals
  <2> QED BY <1>2, <2>1, RulesLeft
<1>4. ttl \in Nat \ {0}
  <2>1. now \in Int
    BY ProxyAssumption DEF Typed
  <2> HIDE DEF rule
  <2>2. ttl \in Int /\ ttl >= 1
    BY <1>3, <2>1, RuleType, PeriodTTLType
  <2> HIDE DEF ttl
  <2> QED BY <2>2
<1> HIDE DEF ttl, rule
<1>5. /\ q \in CallLocals /\ q.kind = call[a].kind /\ q.ident = call[a].ident
      /\ q.todo = call[a].todo /\ q.key = call[a].key
  BY <1>2, <1>4 DEF CallLocals
<1>6. Fitting("reject", q)
  BY <1>2, <1>5 DEF Fitting, WorksOn
<1>7. "reject" \in Places
  BY DEF Places, Busy, OnRedis
<1> HIDE DEF q
<1> QED BY <1>1, <1>5, <1>6, <1>7, CallWritten

LEMMA ScanCalls == ASSUME CallsInv, NEW a \in Calls, ScanBatch(a) PROVE CallsInv'
<1>1. PICK slots \in SUBSET call[a].left :
         LET left == call[a].left \ slots
             keys == call[a].keys \cup Found(a, slots)
         IN  Enter(a, IF left = {} THEN AfterScan(a, keys) ELSE "scan",
                      [call[a] EXCEPT !.left = left, !.keys = keys])
  BY DEF ScanBatch
<1> DEFINE left == call[a].left \ slots
           keys == call[a].keys \cup Found(a, slots)
           q == [call[a] EXCEPT !.left = left, !.keys = keys]
           to == IF left = {} THEN AfterScan(a, keys) ELSE "scan"
<1>2. at[a] = "scan"
  BY DEF ScanBatch
<1>3. /\ call[a] \in CallLocals /\ call[a].kind \in Kinds /\ call[a].ident \in Idents
      /\ call[a].todo # <<>> => call[a].kind # "list"
  BY <1>2, CallType DEF Busy, OnRedis
<1>4. call[a].left \subseteq Key /\ call[a].keys \subseteq Key
  BY <1>3 DEF CallLocals
<1>5. left \in SUBSET Key /\ keys \in SUBSET Key
  BY <1>4 DEF Found, Live, KeysOf
<1>6. /\ to \in {"scan", "failed", "ok", "delete", "hget", "get", "read"}
      /\ to \notin {"scan", "failed", "ok"} => keys # {}
  BY <1>3 DEF AfterScan, Kinds
<1> HIDE DEF left, keys
<1>7. /\ q \in CallLocals /\ q.kind = call[a].kind /\ q.ident = call[a].ident
      /\ q.todo = call[a].todo /\ q.keys = keys
  BY <1>3, <1>5 DEF CallLocals
<1>8. to \in Places /\ Fitting(to, q)
  BY <1>3, <1>6, <1>7 DEF Places, Busy, OnRedis, Answered, Fitting, WorksOn
<1>9. Enter(a, to, q)
  BY <1>1 DEF left, keys
<1> HIDE DEF q, to
<1> QED BY <1>7, <1>8, <1>9, CallEntered

(* A call moves on with its purpose unchanged. *)
LEMMA CallMoved ==
    ASSUME CallsInv, NEW a \in Calls, at[a] \in Busy,
           NEW to \in Busy \cup Answered, NEW q \in CallLocals,
           q.kind = call[a].kind, q.ident = call[a].ident, q.todo = call[a].todo,
           WorksOn(to, q),
           \/ Enter(a, to, q)
           \/ at' = [at EXCEPT ![a] = to] /\ call' = [call EXCEPT ![a] = q]
    PROVE  CallsInv'
<1>1. /\ call[a].kind \in Kinds /\ call[a].ident \in Idents
      /\ call[a].todo # <<>> => call[a].kind # "list"
  BY CallType
<1>2. to \in Places
  BY DEF Places
<1>3. q.kind \in Kinds /\ q.ident \in Idents /\ (q.todo # <<>> => q.kind # "list")
  BY <1>1
<1>4. Fitting(to, q)
  BY <1>3 DEF Fitting
<1> QED BY <1>2, <1>4, CallWritten, CallEntered

LEMMA PickCalls == ASSUME CallsInv, NEW a \in Calls, PickKey(a) PROVE CallsInv'
<1>1. PICK k \in call[a].keys : call' = [call EXCEPT ![a].key = k]
  BY DEF PickKey
<1> DEFINE q == [call[a] EXCEPT !.key = k]
<1>2. at[a] = "hget" /\ at' = at
  BY DEF PickKey
<1>3. call[a] \in CallLocals
  BY CallType
<1>4. /\ q \in CallLocals /\ q.kind = call[a].kind /\ q.ident = call[a].ident
      /\ q.todo = call[a].todo /\ q.keys = call[a].keys
  BY <1>1, <1>3 DEF CallLocals
<1>5. at' = [at EXCEPT ![a] = "hget"] /\ call' = [call EXCEPT ![a] = q]
  BY <1>1, <1>2 DEF CallsInv
<1> HIDE DEF q
<1>6. "hget" \in Busy /\ WorksOn("hget", q)
  BY <1>1, <1>4 DEF Busy, OnRedis, WorksOn
<1> QED BY <1>2, <1>4, <1>5, <1>6, CallMoved

LEMMA FetchCalls ==
    ASSUME Typed, CallsInv, NEW a \in Calls, HGetReply(a) \/ TTLReply(a) PROVE CallsInv'
<1>0. call[a] \in CallLocals /\ 0 \in 0..MaxRetries /\ call \in [Calls -> CallLocals]
  BY CallType, NoRetryYet DEF CallsInv
<1>1. CASE HGetReply(a)
  <2> DEFINE limit == LimitFound(store[call[a].key])
             q == [call[a] EXCEPT !.try = 0, !.limit = limit]
  <2>0. call[a].key \in Key
    BY <1>0, <1>1 DEF HGetReply, CallLocals
  <2>1. limit \in Int /\ limit >= 1
    BY <2>0, LimitFoundType DEF Typed
  <2> HIDE DEF limit
  <2>2. /\ q \in CallLocals /\ q.kind = call[a].kind /\ q.ident = call[a].ident
        /\ q.todo = call[a].todo /\ q.key \in Key /\ q.limit = limit
    BY <1>0, <2>0, <2>1 DEF CallLocals
  <2>3. at[a] = "hget" /\ at' = [at EXCEPT ![a] = "httl"] /\ call' = [call EXCEPT ![a] = q]
    BY <1>0, <1>1 DEF HGetReply, GoOn, Jump, limit
  <2> HIDE DEF q
  <2>4. at[a] \in Busy /\ "httl" \in Busy /\ WorksOn("httl", q)
    BY <2>1, <2>2, <2>3 DEF Busy, OnRedis, WorksOn
  <2> QED BY <2>2, <2>3, <2>4, CallMoved
<1>2. CASE TTLReply(a)
  <2> DEFINE ttl == TimeToLive(store[call[a].key])
             q == [call[a] EXCEPT !.try = 0, !.ttl = ttl]
  <2>1. ttl \in Nat \ {0}
    <3>1. call[a].key \in Key
      BY <1>2, CallType DEF TTLReply, GoOn, Jump
    <3>2. store[call[a].key] \in Hash(Rules) /\ now \in Int
      BY <3>1, ProxyAssumption DEF Typed
    <3> QED BY <3>2, TimeToLiveType
  <2> HIDE DEF ttl
  <2>2. /\ q \in CallLocals /\ q.kind = call[a].kind /\ q.ident = call[a].ident
        /\ q.todo = call[a].todo /\ q.key = call[a].key /\ q.limit = call[a].limit
    BY <1>0, <2>1 DEF CallLocals
  <2>3. at[a] = "httl" /\ at' = [at EXCEPT ![a] = "reject"] /\ call' = [call EXCEPT ![a] = q]
    BY <1>0, <1>2 DEF TTLReply, GoOn, Jump, ttl
  <2> HIDE DEF q
  <2>4. at[a] \in Busy /\ "reject" \in Busy /\ WorksOn("reject", q)
    BY <2>2, <2>3, CallType DEF Busy, OnRedis, WorksOn
  <2> QED BY <2>2, <2>3, <2>4, CallMoved
<1> QED BY <1>1, <1>2

LEMMA ProceedCalls ==
    ASSUME CallsInv, NEW a \in Calls, at[a] \in Busy, Proceed(a) PROVE CallsInv'
<1> DEFINE todo == IF call[a].todo = <<>> THEN <<>> ELSE Tail(call[a].todo)
           keys == call[a].keys \ Written(a)
           to == IF todo # <<>> THEN "rule" ELSE IF keys # {} THEN "hget" ELSE "ok"
           q == [call[a] EXCEPT !.todo = todo, !.keys = keys, !.try = 0]
<1>1. /\ call[a] \in CallLocals /\ call[a].kind \in Kinds /\ call[a].ident \in Idents
      /\ call[a].todo # <<>> => call[a].kind # "list"
  BY CallType
<1>2. call[a].todo \in Todos /\ keys \in SUBSET Key /\ 0 \in 0..MaxRetries
  BY <1>1, NoRetryYet DEF CallLocals
<1>3. todo \in Todos /\ (todo # <<>> => call[a].todo # <<>>)
  BY <1>2, RulesLeft
<1>4. Enter(a, to, q)
  BY DEF Proceed
<1> HIDE DEF todo, keys
<1>5. /\ q \in CallLocals /\ q.kind = call[a].kind /\ q.ident = call[a].ident
      /\ q.todo = todo /\ q.keys = keys
  BY <1>1, <1>2, <1>3 DEF CallLocals
<1>6. /\ to \in {"rule", "hget", "ok"}
      /\ (to = "rule" => todo # <<>>) /\ (to = "hget" => keys # {})
  OBVIOUS
<1> HIDE DEF to, q
<1>7. to \in Places
  BY <1>6 DEF Places, Busy, OnRedis, Answered
<1>8. Fitting(to, q)
  BY <1>1, <1>3, <1>5, <1>6 DEF Fitting, WorksOn
<1> QED BY <1>4, <1>5, <1>7, <1>8, CallEntered

LEMMA AnswerCalls ==
    ASSUME CallsInv, NEW a \in Calls, NEW to \in Answered, Enter(a, to, NoCall) PROVE CallsInv'
<1>1. to \in Places
  BY DEF Places
<1> QED BY <1>1, NoCallType, CallEntered

LEMMA RowType ==
    ASSUME Typed, NEW k \in Key
    PROVE  Row(k, k[2], store[k], Limits) \in Listed
<1> DEFINE h == store[k]
           limit == IF h.rule \in DOMAIN Limits THEN Limits[h.rule] ELSE h.limit
           remaining == Remaining(limit, h.success)
<1>1. /\ h.rule \in Rules \cup {""} /\ h.limit \in Int /\ h.success \in Int
      /\ h.pending \in Nat /\ h.rejected \in Nat
  BY DEF Typed, Hash
<1>2. k[2] \in Idents
  <2>1. \E p \in UNION {Periods(rule) : rule \in Rules}, i \in Idents : k = BuildKey(p, i)
    BY DEF Key
  <2> QED BY <2>1 DEF BuildKey
<1>3. limit \in Int
  BY <1>1, RuleType DEF Limits
<1>4. Row(k, k[2], h, Limits) =
        [key |-> k, ident |-> k[2], rule |-> h.rule, limit |-> limit, success |-> h.success,
         pending |-> h.pending, rejected |-> h.rejected, remaining |-> remaining]
  BY DEF Row, Status
<1>5. \A n \in Int, success \in Int : Remaining(n, success) \in Int
  BY DEF Remaining
<1> HIDE DEF h, limit
<1>6. remaining \in Int
  BY <1>1, <1>3, <1>5
<1> HIDE DEF remaining
<1>7. ASSUME NEW rule \in Rules \cup {""}, NEW success \in Int, NEW pending \in Nat,
             NEW rejected \in Nat
      PROVE  [key |-> k, ident |-> k[2], rule |-> rule, limit |-> limit, success |-> success,
              pending |-> pending, rejected |-> rejected, remaining |-> remaining] \in Listed
  BY <1>2, <1>3, <1>6, Zenon DEF Listed
<1>8. Row(k, k[2], h, Limits) \in Listed
  BY <1>1, <1>4, <1>7, Zenon
<1> QED BY <1>8 DEF h

LEMMA RowCalls == ASSUME Typed, CallsInv, NEW a \in Calls, ReadRow(a) PROVE CallsInv'
<1>1. PICK k \in call[a].keys :
         LET keys == call[a].keys \ {k}
             rows == call[a].rows \cup {Row(k, k[2], store[k], Limits)}
         IN  Enter(a, IF keys = {} THEN "listed" ELSE "read",
                      [call[a] EXCEPT !.keys = keys, !.rows = rows])
  BY DEF ReadRow
<1> DEFINE keys == call[a].keys \ {k}
           rows == call[a].rows \cup {Row(k, k[2], store[k], Limits)}
           to == IF keys = {} THEN "listed" ELSE "read"
           q == [call[a] EXCEPT !.keys = keys, !.rows = rows]
<1>2. Enter(a, to, q)
  BY <1>1
<1>3. at[a] \in Busy
  BY DEF ReadRow, Busy, OnRedis
<1>4. call[a] \in CallLocals
  BY CallType
<1>5. keys \in SUBSET Key /\ rows \in SUBSET Listed
  <2>1. k \in Key /\ call[a].keys \subseteq Key /\ call[a].rows \subseteq Listed
    BY <1>4 DEF CallLocals
  <2>2. Row(k, k[2], store[k], Limits) \in Listed
    BY <2>1, RowType
  <2> QED BY <2>1, <2>2
<1> HIDE DEF keys, rows
<1>6. /\ q \in CallLocals /\ q.kind = call[a].kind /\ q.ident = call[a].ident
      /\ q.todo = call[a].todo /\ q.keys = keys
  BY <1>4, <1>5 DEF CallLocals
<1> HIDE DEF q
<1>7. to \in Busy /\ WorksOn(to, q)
  BY <1>6 DEF Busy, OnRedis, WorksOn
<1> HIDE DEF to
<1> QED BY <1>2, <1>3, <1>6, <1>7, CallMoved

LEMMA ReadCalls ==
    ASSUME CallsInv, NEW a \in Calls, StatusReply(a) \/ ListReply(a) PROVE CallsInv'
<1>1. "ok" \in Answered /\ "failed" \in Answered
  BY DEF Answered
<1>2. CASE StatusReply(a)
  <2>1. at[a] \in Busy
    BY <1>2 DEF StatusReply, Busy, OnRedis
  <2>2. \/ Proceed(a)
        \/ \E to \in Answered : Enter(a, to, NoCall)
    BY <1>1, <1>2 DEF StatusReply
  <2> QED BY <2>1, <2>2, ProceedCalls, AnswerCalls
<1>3. CASE ListReply(a)
  BY <1>1, <1>3, AnswerCalls DEF ListReply
<1> QED BY <1>2, <1>3

(* A pipeline sent again takes up the keys it had read before. *)
LEMMA Resent ==
    ASSUME NEW q \in CallLocals
    PROVE  q.keys \cup {row.key : row \in q.rows} \in SUBSET Key
<1>1. q.keys \subseteq Key /\ q.rows \subseteq Listed
  BY DEF CallLocals
<1>2. \A row \in Listed : row.key \in Key
  BY DEF Listed
<1> QED BY <1>1, <1>2

LEMMA NoReplyCalls ==
    ASSUME CallsInv, NEW a \in Calls, at[a] \in OnRedis, AdminNoReply(a),
           at[a] = "hget" => call[a].key \in call[a].keys
    PROVE  CallsInv'
<1>0. at[a] \in Busy
  BY DEF Busy, OnRedis
<1>1. /\ call[a] \in CallLocals /\ call[a].try \in 0..MaxRetries /\ call[a].keys \subseteq Key
      /\ WorksOn(at[a], call[a])
      /\ at[a] = "httl" => call[a].key \in Key
      /\ at[a] = "hget" => call[a].key \in Key
  <2>1. call[a] \in CallLocals /\ WorksOn(at[a], call[a]) /\ (at[a] = "httl" => call[a].key \in Key)
    BY CallType
  <2>2. call[a].try \in 0..MaxRetries /\ call[a].keys \subseteq Key
    BY <2>1 DEF CallLocals
  <2> QED BY <2>1, <2>2
<1>2. CASE call[a].try < MaxRetries
  <2> DEFINE n == call[a].try + 1
             keys == call[a].keys \cup {row.key : row \in call[a].rows}
             q == [call[a] EXCEPT !.try = n, !.rows = {}, !.keys = keys]
  <2>1. n \in 0..MaxRetries /\ keys \in SUBSET Key /\ call[a].keys \subseteq keys
    BY <1>1, <1>2, ProxyAssumption, Resent
  <2>2. Enter(a, at[a], q)
    BY <1>2 DEF AdminNoReply
  <2> HIDE DEF n, keys
  <2>3. /\ q \in CallLocals /\ q.kind = call[a].kind /\ q.ident = call[a].ident
        /\ q.todo = call[a].todo /\ q.key = call[a].key /\ q.limit = call[a].limit
        /\ q.keys = keys
    BY <1>1, <2>1 DEF CallLocals
  <2> HIDE DEF q
  <2>4. WorksOn(at[a], q)
    BY <1>1, <2>1, <2>3 DEF WorksOn
  <2> QED BY <1>0, <2>2, <2>3, <2>4, CallMoved
<1>3. CASE ~(call[a].try < MaxRetries) /\ at[a] = "hget"
  <2> DEFINE one == 1
             q == [call[a] EXCEPT !.limit = one, !.try = 0]
  <2>0. one \in Int /\ one >= 1 /\ 0 \in 0..MaxRetries
    BY NoRetryYet
  <2>1. Enter(a, "httl", q)
    BY <1>3 DEF AdminNoReply
  <2> HIDE DEF one
  <2>2. /\ q \in CallLocals /\ q.kind = call[a].kind /\ q.ident = call[a].ident
        /\ q.todo = call[a].todo /\ q.key = call[a].key /\ q.limit = one
    BY <1>1, <2>0 DEF CallLocals
  <2> HIDE DEF q
  <2>3. "httl" \in Busy /\ WorksOn("httl", q)
    BY <1>1, <1>3, <2>0, <2>2 DEF Busy, OnRedis, WorksOn
  <2> QED BY <1>0, <2>1, <2>2, <2>3, CallMoved
<1>4. CASE ~(call[a].try < MaxRetries) /\ at[a] = "httl"
  <2> DEFINE q == [call[a] EXCEPT !.ttl = DaySeconds, !.try = 0]
  <2>0. DaySeconds \in Nat \ {0} /\ 0 \in 0..MaxRetries
    BY NoRetryYet DEF DaySeconds
  <2>1. Enter(a, "reject", q)
    BY <1>4 DEF AdminNoReply
  <2>2. /\ q \in CallLocals /\ q.kind = call[a].kind /\ q.ident = call[a].ident
        /\ q.todo = call[a].todo /\ q.key = call[a].key /\ q.limit = call[a].limit
    BY <1>1, <2>0 DEF CallLocals
  <2> HIDE DEF q
  <2>3. "reject" \in Busy /\ WorksOn("reject", q)
    BY <1>1, <1>4, <2>2 DEF Busy, OnRedis, WorksOn
  <2> QED BY <1>0, <2>1, <2>2, <2>3, CallMoved
<1>5. CASE ~(call[a].try < MaxRetries) /\ at[a] \notin {"hget", "httl"}
  <2>1. Enter(a, "failed", NoCall) /\ "failed" \in Answered
    BY <1>5 DEF AdminNoReply, Answered
  <2> QED BY <2>1, AnswerCalls
<1> QED BY <1>2, <1>3, <1>4, <1>5

LEMMA CrashCalls == ASSUME CallsInv, AdminCrash PROVE CallsInv'
<1>1. /\ at' = [a \in Calls |-> IF at[a] \in Busy THEN "failed" ELSE at[a]]
      /\ call' = [a \in Calls |-> IF at[a] \in Busy THEN NoCall ELSE call[a]]
  BY DEF AdminCrash
<1>2. NoCall \in CallLocals /\ "failed" \in Answered /\ "failed" \in Places
  BY NoCallType DEF Places, Answered
<1>3. Fitting("failed", NoCall)
  BY <1>2, NoCallType
<1> QED BY <1>1, <1>2, <1>3 DEF CallsInv

-------------------------------------------------------------------------------
(* What a step does to one key. *)

TTLs == \A r \in Reqs : req[r].ttl \in Nat

LEMMA TTLStep == ASSUME TypeInv, TTLs, [Next]_vars PROVE TTLs'
<1>1. /\ req \in [Reqs -> Locals] /\ now \in Int /\ Attached
  BY ProxyAssumption DEF TypeInv, Typed
<1>2. ASSUME NEW r \in Reqs, Match(r) PROVE TTLs'
  <2>1. PICK rule \in Rules, ident \in Idents :
          req' = [req EXCEPT ![r] = [NoReq EXCEPT
                    !.rule = rule, !.ident = ident,
                    !.key = BuildKey(PeriodKey(RuleConf[rule], now), ident)]]
    BY <1>2 DEF Match
  <2> DEFINE k == BuildKey(PeriodKey(RuleConf[rule], now), ident)
             q == [NoReq EXCEPT !.rule = rule, !.ident = ident, !.key = k]
  <2>2. req' = [req EXCEPT ![r] = q]
    BY <2>1
  <2> HIDE DEF k
  <2>3. q.ttl \in Nat
    BY DEF NoReq
  <2> HIDE DEF q
  <2> QED BY <1>1, <2>2, <2>3 DEF TTLs
<1>3. ASSUME NEW r \in Reqs, ReadTTL(r) PROVE TTLs'
  <2> DEFINE ttl == PeriodTTL(RuleConf[req[r].rule], now)
  <2>1. req[r].rule \in Rules
    BY <1>1, <1>3 DEF ReadTTL, At, Attached, Bound, HasKey
  <2>2. ttl \in Int /\ ttl >= 1
    BY <1>1, <2>1, RuleType, PeriodTTLType
  <2>3. req' = [req EXCEPT ![r].ttl = ttl]
    BY <1>3 DEF ReadTTL
  <2> HIDE DEF ttl
  <2>4. ttl \in Nat
    BY <2>2
  <2> QED BY <1>1, <2>3, <2>4 DEF TTLs, Locals
<1>4. ASSUME NEW r \in Reqs, req' = req PROVE TTLs'
  BY <1>4 DEF TTLs
<1>5. ASSUME NEW r \in Reqs, UpstreamFails(r) \/ UpstreamSucceeds(r) \/ FirstEvent(r) PROVE TTLs'
  <2>1. PICK op, sse : req' = [req EXCEPT ![r].op = op, ![r].sse = sse]
    BY <1>5 DEF UpstreamFails, UpstreamSucceeds, FirstEvent, Settle
  <2> QED BY <1>1, <2>1 DEF TTLs, Locals
<1>6. ASSUME NEW r \in Reqs, SettleKey(r) PROVE TTLs'
  <2>1. PICK k : req' = [req EXCEPT ![r].try = 0, ![r].key = k]
    BY <1>6 DEF SettleKey
  <2> QED BY <1>1, <2>1 DEF TTLs, Locals
<1>7. ASSUME NEW r \in Reqs, NoReply(r) PROVE TTLs'
  <2>1. CASE req' = [req EXCEPT ![r].hurt = TRUE]
    BY <1>1, <2>1 DEF TTLs, Locals
  <2>2. CASE req' = [req EXCEPT ![r].hurt = TRUE, ![r].op = "rollback"]
    BY <1>1, <2>2 DEF TTLs, Locals
  <2>3. CASE req' = [req EXCEPT ![r].hurt = TRUE, ![r].try = @ + 1]
    <3>1. PICK n : req' = [req EXCEPT ![r].hurt = TRUE, ![r].try = n]
      BY <1>1, <2>3
    <3> QED BY <1>1, <3>1 DEF TTLs, Locals
  <2> QED BY <1>7, <2>1, <2>2, <2>3 DEF NoReply, GiveUp
<1>8. ASSUME NEW r \in Reqs, Handler(r) PROVE TTLs'
  <2>1. \/ Match(r) \/ ReadTTL(r) \/ UpstreamFails(r) \/ UpstreamSucceeds(r) \/ FirstEvent(r)
        \/ SettleKey(r) \/ NoReply(r) \/ req' = req
    BY <1>8 DEF Handler, RedisCall, Pass, ReserveReply, SettleReply, LoseReply, LoseCall,
                StreamEnds, Forwarded
  <2> QED BY <2>1, <1>2, <1>3, <1>4, <1>5, <1>6, <1>7
<1>9. CASE Crash \/ Advance \/ Finished \/ UNCHANGED vars
  <2>1. req' = req
    BY <1>9 DEF Crash, Advance, Finished, vars
  <2> QED BY <2>1 DEF TTLs
<1> QED BY <1>8, <1>9 DEF Next

LEMMA ReserveLives ==
    ASSUME NEW h \in Hash(Rules), NEW rule \in Rules, NEW limit \in Int, NEW deadline \in Nat
    PROVE  LET g == TryReserveScript(h, rule, limit, deadline)
           IN  g.live /\ g.expireAt = deadline
BY DEF TryReserveScript, Hash

LEMMA ReleaseLives ==
    ASSUME NEW h \in Hash(Rules)
    PROVE  LET g == ReleasePending(h) IN g.live = h.live /\ g.expireAt = h.expireAt
BY DEF ReleasePending, Hash

LEMMA ConfirmLives ==
    ASSUME NEW h \in Hash(Rules)
    PROVE  LET g == ConfirmScript(h) IN g.live /\ g.expireAt = h.expireAt
<1> DEFINE freed == ReleasePending(h)
           n == freed.success + 1
<1>1. freed \in Hash(Rules) /\ freed.expireAt = h.expireAt
  BY ReleaseEffect, ReleaseLives
<1>2. ConfirmScript(h) = [freed EXCEPT !.live = TRUE, !.success = n]
  BY DEF ConfirmScript
<1> HIDE DEF freed, n
<1> QED BY <1>1, <1>2 DEF Hash

(* A key that is not there seats nobody; one that is there for ever has    *)
(* been settled on without a seat.                                         *)
Kept(h, seats, strays) ==
    /\ ~h.live => seats = {}
    /\ h.live /\ h.expireAt = NoExpiry => strays > 0

(* The steps of the requests and of time take no success from a key that   *)
(* stays.                                                                  *)
LEMMA RequestsOnKey ==
    ASSUME TypeInv, TTLs, [Next]_vars, NEW k \in Key, Kept(store[k], held[k], stray[k])
    PROVE  /\ store'[k].live => store'[k].success >= store[k].success
           /\ Kept(store[k], held[k], stray[k])'
<1> DEFINE Good == /\ store'[k].live => store'[k].success >= store[k].success
                   /\ Kept(store'[k], held'[k], stray'[k])
<1> SUFFICES Good
  BY DEF Kept
<1>1. /\ Typed /\ Attached
      /\ store[k] \in Hash(Rules) /\ held[k] \in SUBSET Reqs /\ stray[k] \in Nat
      /\ store[k].success \in Int
  BY CountersType DEF TypeInv, Typed
<1>2. ASSUME store'[k] = store[k], held'[k] = held[k], stray'[k] = stray[k] PROVE Good
  BY <1>1, <1>2
<1>3. ASSUME NEW r \in Reqs, At(r, "reserve"), ReserveExecuted(r) PROVE Good
  <2> DEFINE rule == req[r].rule
             limit == Limit(rule)
             deadline == now + req[r].ttl * Second
             h == TryReserveScript(store[k], rule, limit, deadline)
  <2>1. rule \in Rules /\ req[r].key \in Key
    BY <1>1, <1>3 DEF Attached, At, Bound, HasKey
  <2>2. CASE req[r].key # k
    BY <1>1, <1>2, <1>3, <2>1, <2>2 DEF ReserveExecuted, Typed
  <2>3. CASE req[r].key = k
    <3>1. deadline \in Nat
      <4> DEFINE x == req[r].ttl
                 y == Second
      <4>1. now \in Nat /\ x \in Nat /\ y \in Nat
        BY <1>1, ProxyAssumption, UnitsType DEF Typed, TTLs
      <4> HIDE DEF x, y
      <4>2. x * y \in Nat
        BY <4>1
      <4>3. now + x * y \in Nat
        BY <4>1, <4>2
      <4> QED BY <4>3 DEF x, y
    <3>2. store'[k] = h /\ stray'[k] = stray[k]
      BY <1>1, <1>3, <2>3 DEF ReserveExecuted, Typed
    <3>3. limit \in Int
      BY <2>1, RuleType
    <3> HIDE DEF rule, limit, deadline
    <3>4. h.live /\ h.expireAt = deadline
      BY <1>1, <2>1, <3>1, <3>3, ReserveLives
    <3>5. h.success = store[k].success
      <4>1. deadline \in Int
        BY <3>1
      <4> QED BY <1>1, <2>1, <3>3, <4>1, TryReserveEffect
    <3> HIDE DEF h
    <3> QED BY <1>1, <3>1, <3>2, <3>4, <3>5 DEF Kept, NoExpiry
  <2> QED BY <2>2, <2>3
<1>4. ASSUME NEW r \in Reqs, At(r, "eval"), SettleExecuted(r) PROVE Good
  <2> DEFINE h == IF req[r].op = "confirm" THEN ConfirmScript(store[k])
                                          ELSE RollbackScript(store[k])
  <2>1. req[r].key \in Key
    BY <1>1, <1>4 DEF Attached, At, Bound, HasKey
  <2>2. CASE req[r].key # k
    BY <1>1, <1>2, <1>4, <2>1, <2>2 DEF SettleExecuted, Typed
  <2>3. CASE req[r].key = k
    <3>1. /\ store'[k] = h /\ held'[k] = held[k] \ {r}
          /\ stray'[k] = IF r \in held[k] THEN stray[k] ELSE stray[k] + 1
      BY <1>1, <1>4, <2>3 DEF SettleExecuted, Typed
    <3>2. h.expireAt = store[k].expireAt /\ (store[k].live => h.live)
      BY <1>1, ConfirmLives, ReleaseLives DEF RollbackScript
    <3>3. h.success \in Int /\ h.success >= store[k].success
      BY <1>1, ConfirmEffect, ReleaseEffect DEF RollbackScript
    <3> HIDE DEF h
    <3>4. store'[k].live => store'[k].success >= store[k].success
      BY <3>1, <3>3
    <3>5. r \in held[k] => store[k].live
      BY DEF Kept
    <3>6. stray'[k] \in Nat /\ (r \notin held[k] => stray'[k] > 0)
      BY <1>1, <3>1
    <3>7. Kept(store'[k], held'[k], stray'[k])
      <4>1. ~h.live => held'[k] = {}
        BY <3>1, <3>2 DEF Kept
      <4>2. h.live /\ h.expireAt = NoExpiry => stray'[k] > 0
        BY <3>1, <3>2, <3>5, <3>6 DEF Kept
      <4> QED BY <3>1, <4>1, <4>2 DEF Kept
    <3> QED BY <3>4, <3>7
  <2> QED BY <2>2, <2>3
<1>5. ASSUME NEW r \in Reqs, Handler(r) PROVE Good
  <2>1. CASE Executed(r)
    BY <1>3, <1>4, <2>1 DEF Executed
  <2>2. CASE UNCHANGED redis
    BY <1>2, <2>2 DEF redis
  <2> QED BY <1>5, <2>1, <2>2, HandlerOnRedis
<1>6. CASE Crash
  BY <1>2, <1>6 DEF Crash, redis
<1>7. CASE Advance
  <2>1. PICK t \in Instants :
           /\ store' = [x \in Key |-> IF Expired(x, t) THEN NoHash ELSE store[x]]
           /\ held'  = [x \in Key |-> IF Expired(x, t) THEN {} ELSE held[x]]
           /\ stray' = [x \in Key |-> IF Expired(x, t) THEN 0 ELSE stray[x]]
    BY <1>7 DEF Advance
  <2>2. CASE Expired(k, t)
    <3>1. store'[k] = NoHash /\ held'[k] = {} /\ ~NoHash.live
      BY <2>1, <2>2 DEF NoHash
    <3> QED BY <3>1 DEF Kept
  <2>3. CASE ~Expired(k, t)
    BY <1>2, <2>1, <2>3
  <2> QED BY <2>2, <2>3
<1>8. CASE UNCHANGED vars
  BY <1>2, <1>8 DEF vars
<1> QED BY <1>5, <1>6, <1>7, <1>8 DEF Next, Finished

-------------------------------------------------------------------------------
(* The invariant: the requests' part of it, the calls' part, and what is   *)
(* known of each key and of each scan.                                     *)

KeyInv ==
    \A k \in Key : /\ Kept(store[k], held[k], stray[k])
                   /\ bar[k] > 0 => store[k].success >= bar[k]

(* What was there when the call came is still there, and the scan has it   *)
(* or has yet to come to it.                                               *)
ScanInv ==
    \A a \in Calls : \A k \in must[a] :
        /\ store[k].live
        /\ at[a] = "scan" => /\ k \in KeysOf(call[a].ident)
                             /\ k \in call[a].left \cup call[a].keys

Histories == bar \in [Key -> Int] /\ must \in [Calls -> SUBSET Key]

AdminInv == TypeInv /\ TTLs /\ CallsInv /\ Histories /\ KeyInv /\ ScanInv

LEMMA AdminInvInit == AdminInit => AdminInv
<1> SUFFICES ASSUME AdminInit PROVE AdminInv
  OBVIOUS
<1>1. TypeInv
  BY TypeInvInit DEF AdminInit
<1>2. TTLs
  BY DEF AdminInit, Init, TTLs, NoReq
<1>3. CallsInv
  <2>1. \A a \in Calls : at[a] = "idle" /\ call[a] = NoCall
    BY DEF AdminInit
  <2>2. at \in [Calls -> Places] /\ call \in [Calls -> CallLocals]
    BY NoCallType DEF AdminInit, Places
  <2>3. Fitting("idle", NoCall)
    BY DEF Fitting, WorksOn, Busy, OnRedis, Answered
  <2> QED BY <2>1, <2>2, <2>3 DEF CallsInv
<1>4. Histories
  BY DEF AdminInit, Histories
<1>5. KeyInv
  <2>1. \A k \in Key : store[k] = NoHash /\ held[k] = {} /\ bar[k] = 0
    BY DEF AdminInit, Init
  <2>2. ~NoHash.live
    BY DEF NoHash
  <2> QED BY <2>1, <2>2 DEF KeyInv, Kept
<1>6. ScanInv
  BY DEF AdminInit, ScanInv
<1> QED BY <1>1, <1>2, <1>3, <1>4, <1>5, <1>6 DEF AdminInv

(* The histories of a step: only what is still there is remembered.        *)
LEMMA StillThere ==
    ASSUME Histories, ScanInv, CallsInv, CallsInv', StillLive, NEW a \in Calls
    PROVE  /\ must'[a] \subseteq must[a] /\ must'[a] \in SUBSET Key
           /\ \A k \in must'[a] : store'[k].live
           /\ at'[a] # "scan" => must'[a] = {}
BY DEF StillLive, Histories

LEMMA MustType == ASSUME Histories, StillLive PROVE must' \in [Calls -> SUBSET Key]
BY DEF Histories, StillLive

(* A call that is not scanning, or has not moved, keeps ScanInv. *)
LEMMA ScanKept ==
    ASSUME AdminInv, CallsInv', StillLive,
           \A a \in Calls : at'[a] = "scan" =>
              /\ at[a] = "scan" /\ call'[a].ident = call[a].ident
              /\ must'[a] \cap (call[a].left \cup call[a].keys)
                    \subseteq call'[a].left \cup call'[a].keys
    PROVE  ScanInv'
<1> SUFFICES ASSUME NEW a \in Calls, NEW k \in must'[a]
             PROVE  /\ store'[k].live
                    /\ at'[a] = "scan" => /\ k \in KeysOf(call'[a].ident)
                                          /\ k \in call'[a].left \cup call'[a].keys
  BY DEF ScanInv, KeysOf
<1>1. k \in must[a] /\ store'[k].live
  BY StillThere DEF AdminInv
<1>2. ASSUME at'[a] = "scan"
      PROVE  k \in KeysOf(call'[a].ident) /\ k \in call'[a].left \cup call'[a].keys
  BY <1>1, <1>2 DEF AdminInv, ScanInv, KeysOf
<1> QED BY <1>1, <1>2

(* The steps of the requests and of time. *)
LEMMA RequestSteps ==
    ASSUME AdminInv, [Next]_vars, UNCHANGED <<at, call>>, Track PROVE AdminInv'
<1>1. TypeInv' /\ TTLs'
  BY TypeInvStep, TTLStep DEF AdminInv
<1>2. CallsInv'
  BY DEF AdminInv, CallsInv, Fitting
<1>3. Histories'
  BY MustType DEF AdminInv, Histories, Track
<1>4. KeyInv'
  <2> SUFFICES ASSUME NEW k \in Key
               PROVE  /\ Kept(store'[k], held'[k], stray'[k])
                      /\ bar'[k] > 0 => store'[k].success >= bar'[k]
    BY DEF KeyInv, Kept
  <2>1. Kept(store'[k], held'[k], stray'[k]) /\ (store'[k].live => store'[k].success >= store[k].success)
    BY RequestsOnKey DEF AdminInv, KeyInv, Kept
  <2>2. bar'[k] = IF store'[k].live THEN bar[k] ELSE 0
    BY DEF Track
  <2>3. bar[k] \in Int /\ store[k].success \in Int /\ store'[k].success \in Int
    BY <1>1, CountersType DEF AdminInv, Histories, TypeInv, Typed
  <2>4. bar[k] > 0 => store[k].success >= bar[k]
    BY DEF AdminInv, KeyInv
  <2> QED BY <2>1, <2>2, <2>3, <2>4
<1>5. ScanInv'
  <2>1. StillLive
    BY DEF Track
  <2> QED BY <1>2, <2>1, ScanKept
<1> QED BY <1>1, <1>2, <1>3, <1>4, <1>5 DEF AdminInv

(* The steps of a call. *)
Only(a) == \A b \in Calls \ {a} : at'[b] = at[b] /\ call'[b] = call[b]

LEMMA ScanKeptByOne ==
    ASSUME AdminInv, CallsInv', StillLive, NEW a \in Calls, Only(a),
           at'[a] = "scan" =>
              /\ at[a] = "scan" /\ call'[a].ident = call[a].ident
              /\ must'[a] \cap (call[a].left \cup call[a].keys)
                    \subseteq call'[a].left \cup call'[a].keys
    PROVE  ScanInv'
BY ScanKept DEF Only

(* A step that leaves the store alone. *)
LEMMA StoreUntouched ==
    ASSUME AdminInv, CallsInv', ScanInv', UNCHANGED <<store, held, stray, bar>>,
           TypeInv', TTLs', must' \in [Calls -> SUBSET Key]
    PROVE  AdminInv'
BY DEF AdminInv, Histories, KeyInv, Kept

LEMMA VarsUntouched ==
    ASSUME AdminInv, UNCHANGED vars
    PROVE  TypeInv' /\ TTLs' /\ UNCHANGED <<store, held, stray>>
<1>1. TypeInv' /\ TTLs'
  BY TypeInvStep, TTLStep DEF AdminInv
<1> QED BY <1>1 DEF vars

LEMMA CallReads ==
    ASSUME AdminInv, CallsInv', NEW a \in Calls, ReadsOnly, Only(a),
           at'[a] = "scan" =>
              /\ at[a] = "scan" /\ call'[a].ident = call[a].ident
              /\ must'[a] \cap (call[a].left \cup call[a].keys)
                    \subseteq call'[a].left \cup call'[a].keys
    PROVE  AdminInv'
<1>1. StillLive /\ UNCHANGED vars /\ UNCHANGED bar
  BY DEF ReadsOnly
<1>2. ScanInv'
  BY <1>1, ScanKeptByOne
<1> QED BY <1>1, <1>2, VarsUntouched, StoreUntouched, MustType DEF AdminInv

LEMMA AskSteps == ASSUME AdminInv, NEW a \in Calls, Ask(a) PROVE AdminInv'
<1>1. CallsInv'
  BY AskCalls DEF AdminInv
<1>2. PICK ask \in Asked, ident \in Idents :
        /\ call' = [call EXCEPT ![a] = [NoCall EXCEPT
                       !.kind = ask.kind, !.rule = ask.rule, !.ident = ident,
                       !.todo = RulesMeant(ask), !.left = Key]]
        /\ must' = [must EXCEPT ![a] = Live(KeysOf(ident))]
  BY DEF Ask
<1>3. /\ UNCHANGED vars /\ UNCHANGED bar
      /\ \E to : at' = [at EXCEPT ![a] = to]
  BY DEF Ask, Jump
<1>4. /\ at \in [Calls -> Places] /\ call \in [Calls -> CallLocals]
      /\ must \in [Calls -> SUBSET Key]
  BY DEF AdminInv, CallsInv, Histories
<1>5. /\ call'[a].ident = ident /\ call'[a].left = Key
      /\ \A b \in Calls \ {a} : at'[b] = at[b] /\ call'[b] = call[b] /\ must'[b] = must[b]
      /\ must'[a] = Live(KeysOf(ident))
  BY <1>2, <1>3, <1>4 DEF NoCall
<1>6. Live(KeysOf(ident)) \subseteq Key /\ \A k \in Live(KeysOf(ident)) : k \in KeysOf(ident) /\ store[k].live
  BY DEF Live, KeysOf
<1>7. must' \in [Calls -> SUBSET Key]
  BY <1>2, <1>4, <1>6
<1>8. ScanInv'
  <2> SUFFICES ASSUME NEW b \in Calls, NEW k \in must'[b]
               PROVE  /\ store'[k].live
                      /\ at'[b] = "scan" => /\ k \in KeysOf(call'[b].ident)
                                            /\ k \in call'[b].left \cup call'[b].keys
    BY DEF ScanInv, KeysOf
  <2>1. store' = store
    BY <1>3 DEF vars
  <2>2. CASE b = a
    BY <1>5, <1>6, <2>1, <2>2
  <2>3. CASE b # a
    BY <1>5, <2>1, <2>3 DEF AdminInv, ScanInv
  <2> QED BY <2>2, <2>3
<1> QED BY <1>1, <1>3, <1>7, <1>8, VarsUntouched, StoreUntouched

LEMMA EnterOnly ==
    ASSUME CallsInv, NEW a \in Calls, NEW to, NEW q,
           Enter(a, to, q) \/ (at' = [at EXCEPT ![a] = to] /\ call' = [call EXCEPT ![a] = q])
    PROVE  Only(a) /\ at'[a] = to /\ (to \notin Answered => call'[a] = q)
BY DEF CallsInv, Enter, Only

LEMMA ScanSteps == ASSUME AdminInv, NEW a \in Calls, ScanBatch(a) PROVE AdminInv'
<1>1. CallsInv'
  BY ScanCalls DEF AdminInv
<1>2. PICK slots \in SUBSET call[a].left :
         LET left == call[a].left \ slots
             keys == call[a].keys \cup Found(a, slots)
         IN  Enter(a, IF left = {} THEN AfterScan(a, keys) ELSE "scan",
                      [call[a] EXCEPT !.left = left, !.keys = keys])
  BY DEF ScanBatch
<1> DEFINE left == call[a].left \ slots
           keys == call[a].keys \cup Found(a, slots)
           q == [call[a] EXCEPT !.left = left, !.keys = keys]
           to == IF left = {} THEN AfterScan(a, keys) ELSE "scan"
<1>3. at[a] = "scan" /\ ReadsOnly /\ StillLive
  BY DEF ScanBatch, ReadsOnly
<1>4. call[a] \in CallLocals
  BY CallType DEF AdminInv
<1>5. q.left = left /\ q.keys = keys /\ q.ident = call[a].ident
  BY <1>4 DEF CallLocals
<1>6. Enter(a, to, q)
  BY <1>2
<1>7. Only(a) /\ at'[a] = to /\ (to \notin Answered => call'[a] = q)
  <2> HIDE DEF q, to
  <2> QED BY <1>6, EnterOnly DEF AdminInv
<1>8. must'[a] \cap (call[a].left \cup call[a].keys) \subseteq left \cup keys
  <2> SUFFICES ASSUME NEW k \in must'[a], k \in slots PROVE k \in Found(a, slots)
    OBVIOUS
  <2>1. k \in must[a]
    BY <1>1, <1>3, StillThere DEF AdminInv
  <2>2. store[k].live /\ k \in KeysOf(call[a].ident)
    BY <1>3, <2>1 DEF AdminInv, ScanInv
  <2> QED BY <2>2 DEF Found, Live
<1>9. ASSUME at'[a] = "scan"
      PROVE  /\ at[a] = "scan" /\ call'[a].ident = call[a].ident
             /\ must'[a] \cap (call[a].left \cup call[a].keys)
                   \subseteq call'[a].left \cup call'[a].keys
  <2>1. call'[a] = q
    BY <1>7, <1>9 DEF Answered
  <2> HIDE DEF left, keys, q
  <2> QED BY <1>3, <1>5, <1>8, <2>1
<1> QED BY <1>1, <1>3, <1>7, <1>9, CallReads

(* A call that does not go on scanning. *)
LEMMA CallElsewhere ==
    ASSUME AdminInv, CallsInv', NEW a \in Calls, ReadsOnly, NEW to, to # "scan", NEW q,
           Enter(a, to, q) \/ (at' = [at EXCEPT ![a] = to] /\ call' = [call EXCEPT ![a] = q])
    PROVE  AdminInv'
<1>1. Only(a) /\ at'[a] = to
  BY EnterOnly DEF AdminInv
<1> QED BY <1>1, CallReads

(* The calls' steps that read, apart from those of a scan. *)
LEMMA ReadSteps ==
    ASSUME AdminInv, NEW a \in Calls,
           \/ NextRule(a) \/ ReadExpiry(a) \/ PickKey(a) \/ HGetReply(a) \/ TTLReply(a)
           \/ StatusReply(a) \/ ReadRow(a) \/ ListReply(a)
    PROVE  AdminInv'
<1>0. Typed /\ CallsInv /\ call \in [Calls -> CallLocals] /\ at \in [Calls -> Places]
  BY DEF AdminInv, TypeInv, CallsInv
<1>1. CallsInv'
  BY <1>0, NextRuleCalls, ReadExpiryCalls, PickCalls, FetchCalls, ReadCalls, RowCalls
<1>2. ReadsOnly
  BY DEF NextRule, ReadExpiry, PickKey, HGetReply, TTLReply, GoOn, StatusReply, ReadRow, ListReply
<1>3. CASE NextRule(a)
  <2>1. /\ at[a] = "rule" /\ call[a].kind \in Kinds \ {"list"}
    <3>1. at[a] = "rule" /\ at[a] \in Busy
      BY <1>3 DEF NextRule, Busy
    <3> QED BY <1>0, <3>1, CallType
  <2> DEFINE to == CASE call[a].kind = "reject" -> "expiry"
                     [] call[a].kind = "reset"  -> "reset"
                     [] call[a].kind = "status" -> "get"
  <2>2. at' = [at EXCEPT ![a] = to] /\ to \in {"expiry", "reset", "get"}
    BY <1>3, <2>1 DEF NextRule, Jump, Kinds
  <2> HIDE DEF to
  <2>3. PICK q : call' = [call EXCEPT ![a] = q]
    BY <1>0, <1>3 DEF NextRule
  <2>4. to # "scan"
    BY <2>2
  <2> QED BY <1>1, <1>2, <2>2, <2>3, <2>4, CallElsewhere
<1>4. CASE ReadExpiry(a)
  <2>1. at' = [at EXCEPT ![a] = "reject"] /\ "reject" # "scan"
    BY <1>4 DEF ReadExpiry, Jump
  <2>2. PICK q : call' = [call EXCEPT ![a] = q]
    BY <1>0, <1>4 DEF ReadExpiry
  <2> QED BY <1>1, <1>2, <2>1, <2>2, CallElsewhere
<1>5. CASE PickKey(a)
  <2>1. at' = [at EXCEPT ![a] = "hget"] /\ "hget" # "scan"
    BY <1>0, <1>5 DEF PickKey
  <2>2. PICK q : call' = [call EXCEPT ![a] = q]
    BY <1>0, <1>5 DEF PickKey
  <2> QED BY <1>1, <1>2, <2>1, <2>2, CallElsewhere
<1>6. CASE HGetReply(a) \/ TTLReply(a)
  <2>1. PICK to \in {"httl", "reject"} : at' = [at EXCEPT ![a] = to]
    BY <1>6 DEF HGetReply, TTLReply, GoOn, Jump
  <2>2. PICK q : call' = [call EXCEPT ![a] = q]
    BY <1>0, <1>6 DEF HGetReply, TTLReply, GoOn
  <2>3. to # "scan"
    OBVIOUS
  <2> QED BY <1>1, <1>2, <2>1, <2>2, <2>3, CallElsewhere
<1>7. CASE StatusReply(a) \/ ReadRow(a) \/ ListReply(a)
  <2>1. PICK to \in {"rule", "hget", "read", "listed", "ok", "failed"} : \E q : Enter(a, to, q)
    BY <1>7 DEF StatusReply, ReadRow, ListReply, Proceed
  <2>2. to # "scan"
    OBVIOUS
  <2> QED BY <1>1, <1>2, <2>1, <2>2, CallElsewhere
<1> QED BY <1>3, <1>4, <1>5, <1>6, <1>7

(* A failed call is at its place still, or no longer scans. *)
LEMMA NoReplyScans ==
    ASSUME CallsInv, NEW a \in Calls, AdminNoReply(a), at'[a] = "scan"
    PROVE  /\ at[a] = "scan" /\ call'[a].ident = call[a].ident
           /\ call'[a].left = call[a].left /\ call[a].keys \subseteq call'[a].keys
<1>1. call[a] \in CallLocals
  BY CallType
<1>2. CASE call[a].try < MaxRetries
  <2> DEFINE n == call[a].try + 1
             keys == call[a].keys \cup {row.key : row \in call[a].rows}
             q == [call[a] EXCEPT !.try = n, !.rows = {}, !.keys = keys]
  <2>1. Enter(a, at[a], q)
    BY <1>2 DEF AdminNoReply
  <2>2. call[a].keys \subseteq keys
    OBVIOUS
  <2> HIDE DEF n, keys
  <2>3. q.ident = call[a].ident /\ q.left = call[a].left /\ q.keys = keys
    BY <1>1 DEF CallLocals
  <2> HIDE DEF q
  <2>4. at'[a] = at[a] /\ (at[a] \notin Answered => call'[a] = q)
    BY <2>1, EnterOnly
  <2> QED BY <2>2, <2>3, <2>4 DEF Answered
<1>3. CASE ~(call[a].try < MaxRetries)
  <2>1. PICK to \in {"httl", "reject", "failed"} : \E q : Enter(a, to, q)
    BY <1>3 DEF AdminNoReply
  <2>2. at'[a] = to
    BY <2>1, EnterOnly
  <2> QED BY <2>2
<1> QED BY <1>2, <1>3

LEMMA NoReplyOnly == ASSUME CallsInv, NEW a \in Calls, AdminNoReply(a) PROVE Only(a)
<1>1. PICK to, q : Enter(a, to, q)
  BY DEF AdminNoReply
<1> QED BY <1>1, EnterOnly

LEMMA LoseCallSteps == ASSUME AdminInv, NEW a \in Calls, AdminLoseCall(a) PROVE AdminInv'
<1>1. CallsInv /\ AdminNoReply(a) /\ ReadsOnly
  BY DEF AdminInv, AdminLoseCall
<1>2. CallsInv'
  BY <1>1, NoReplyCalls DEF AdminLoseCall
<1>3. Only(a)
  BY <1>1, NoReplyOnly
<1>4. at'[a] = "scan" => /\ at[a] = "scan" /\ call'[a].ident = call[a].ident
                         /\ call'[a].left = call[a].left
                         /\ call[a].keys \subseteq call'[a].keys
  BY <1>1, NoReplyScans
<1> QED BY <1>1, <1>2, <1>3, <1>4, CallReads

(* What an operator's script leaves under a key. *)
LEMMA RejectEffect ==
    ASSUME NEW h \in Hash(Rules), NEW limit \in Int, NEW deadline \in Nat
    PROVE  LET g == RejectScript(h, limit, deadline)
           IN  g \in Hash(Rules) /\ g.live /\ g.success = limit /\ g.expireAt = deadline
<1> DEFINE g == RejectScript(h, limit, deadline)
<1>1. g = [h EXCEPT !.live = TRUE, !.success = limit, !.pending = 0, !.expireAt = deadline]
  BY DEF RejectScript
<1>2. deadline \in Int /\ 0 \in Nat
  OBVIOUS
<1> HIDE DEF g
<1>3. g \in Hash(Rules)
  BY <1>1, <1>2 DEF Hash
<1>4. g.live /\ g.success = limit /\ g.expireAt = deadline
  BY <1>1 DEF Hash
<1> QED BY <1>3, <1>4 DEF g

LEMMA WriteOnKey ==
    ASSUME AdminInv, NEW a \in Calls, WriteExecuted(a), NEW k \in Key
    PROVE  /\ store'[k] \in Hash(Rules) /\ held'[k] \in SUBSET Reqs /\ stray'[k] \in Nat
           /\ bar'[k] \in Int
           /\ Kept(store'[k], held'[k], stray'[k])
           /\ bar'[k] > 0 => store'[k].success >= bar'[k]
<1> DEFINE limit == call[a].limit
           ttl == call[a].ttl
           deadline == now + ttl * Second
           h == store[k]
           g == RejectScript(h, limit, deadline)
<1>1. /\ h \in Hash(Rules) /\ held[k] \in SUBSET Reqs /\ stray[k] \in Nat /\ bar[k] \in Int
      /\ now \in Nat
      /\ Kept(h, held[k], stray[k]) /\ (bar[k] > 0 => h.success >= bar[k])
  BY ProxyAssumption DEF AdminInv, TypeInv, Typed, Histories, KeyInv
<1>2. limit \in Int /\ ttl \in Nat
  BY CallType DEF AdminInv, CallLocals
<1>3. deadline \in Nat
  <2> HIDE DEF ttl
  <2>1. ttl * Second \in Nat
    BY <1>2, UnitsType
  <2> QED BY <1>1, <2>1
<1> HIDE DEF limit, ttl
<1>4. /\ store'[k] = IF k \notin Written(a) THEN h
                     ELSE IF at[a] = "reject" THEN g ELSE NoHash
      /\ held'[k] = IF k \in Written(a) THEN {} ELSE held[k]
      /\ stray'[k] = IF k \in Written(a) THEN 0 ELSE stray[k]
      /\ bar'[k] = IF k \notin Written(a) THEN bar[k]
                   ELSE IF at[a] = "reject" THEN limit ELSE 0
  <2> HIDE DEF g, deadline
  <2>1. g = RejectScript(store[k], call[a].limit, now + call[a].ttl * Second)
    BY DEF g, deadline, limit, ttl
  <2>2. AfterWrite(a, store[k]) = IF at[a] = "reject" THEN g ELSE NoHash
    BY <2>1 DEF AfterWrite, ResetScript
  <2>3. store'[k] = IF k \in Written(a) THEN AfterWrite(a, store[k]) ELSE store[k]
    BY DEF WriteExecuted
  <2>4. /\ held'[k] = IF k \in Written(a) THEN {} ELSE held[k]
        /\ stray'[k] = IF k \in Written(a) THEN 0 ELSE stray[k]
    BY DEF WriteExecuted
  <2>5. store'[k] = IF k \notin Written(a) THEN h
                     ELSE IF at[a] = "reject" THEN g ELSE NoHash
    BY <2>2, <2>3
  <2>6. bar'[k] = IF k \notin Written(a) THEN bar[k]
                   ELSE IF at[a] = "reject" THEN limit ELSE 0
    BY DEF WriteExecuted, limit
  <2> QED BY <2>4, <2>5, <2>6
<1>5. CASE k \notin Written(a)
  BY <1>1, <1>4, <1>5
<1>6. CASE k \in Written(a) /\ at[a] = "reject"
  <2> HIDE DEF deadline, h
  <2>1. g \in Hash(Rules) /\ g.live /\ g.success = limit /\ g.expireAt = deadline
    BY <1>1, <1>2, <1>3, RejectEffect
  <2> HIDE DEF g
  <2>2. Kept(g, {}, 0)
    BY <1>3, <2>1 DEF Kept, NoExpiry
  <2> QED BY <1>2, <1>4, <1>6, <2>1, <2>2
<1>7. CASE k \in Written(a) /\ at[a] # "reject"
  <2>1. NoHash \in Hash(Rules) /\ Kept(NoHash, {}, 0)
    BY NoHashType DEF NoHash, Kept
  <2> HIDE DEF deadline, h, g
  <2> QED BY <1>4, <1>7, <2>1
<1> QED BY <1>5, <1>6, <1>7

LEMMA WriteOnAll ==
    ASSUME AdminInv, NEW a \in Calls, WriteExecuted(a)
    PROVE  TypeInv' /\ TTLs' /\ bar' \in [Key -> Int] /\ KeyInv'
<1>1. UNCHANGED <<now, pc, req>>
  BY DEF WriteExecuted
<1>2. /\ store' = [k \in Key |-> store'[k]] /\ held' = [k \in Key |-> held'[k]]
      /\ stray' = [k \in Key |-> stray'[k]] /\ bar' = [k \in Key |-> bar'[k]]
  BY DEF WriteExecuted
<1>3. Typed'
  <2>1. store' \in [Key -> Hash(Rules)] /\ held' \in [Key -> SUBSET Reqs] /\ stray' \in [Key -> Nat]
    BY <1>2, WriteOnKey
  <2> QED BY <1>1, <2>1 DEF AdminInv, TypeInv, Typed
<1>4. Attached' /\ TTLs'
  BY <1>1 DEF AdminInv, TypeInv, Attached, HasKey, TTLs
<1>5. bar' \in [Key -> Int]
  BY <1>2, WriteOnKey
<1>6. KeyInv'
  <2> SUFFICES ASSUME NEW k \in Key
               PROVE  /\ Kept(store'[k], held'[k], stray'[k])
                      /\ bar'[k] > 0 => store'[k].success >= bar'[k]
    BY DEF KeyInv, Kept
  <2> QED BY WriteOnKey
<1> QED BY <1>3, <1>4, <1>5, <1>6 DEF TypeInv

LEMMA WriteSteps ==
    ASSUME AdminInv, NEW a \in Calls, WriteReply(a) \/ AdminLoseReply(a) PROVE AdminInv'
<1>1. WriteExecuted(a) /\ StillLive /\ CallsInv
  BY DEF WriteReply, AdminLoseReply, AdminInv
<1>2. at[a] \in OnRedis /\ at[a] \in Busy /\ at[a] \notin {"hget", "scan"}
  BY <1>1 DEF WriteExecuted, OnRedis, Busy
<1>3. CallsInv'
  BY <1>1, <1>2, ProceedCalls, NoReplyCalls DEF WriteReply, AdminLoseReply
<1>4. Only(a) /\ at'[a] # "scan"
  <2>1. CASE WriteReply(a)
    <3>1. PICK to \in {"rule", "hget", "ok"} : \E q : Enter(a, to, q)
      BY <2>1 DEF WriteReply, Proceed
    <3>2. to # "scan"
      OBVIOUS
    <3> QED BY <1>1, <3>1, <3>2, EnterOnly
  <2>2. CASE AdminLoseReply(a)
    BY <1>1, <1>2, <2>2, NoReplyOnly, NoReplyScans DEF AdminLoseReply
  <2> QED BY <2>1, <2>2
<1>5. ScanInv'
  BY <1>1, <1>3, <1>4, ScanKeptByOne
<1>6. must' \in [Calls -> SUBSET Key]
  BY <1>1, MustType DEF AdminInv
<1> QED BY <1>1, <1>3, <1>5, <1>6, WriteOnAll DEF AdminInv, Histories

LEMMA CrashSteps == ASSUME AdminInv, AdminCrash PROVE AdminInv'
<1>1. CallsInv' /\ StillLive
  BY CrashCalls DEF AdminInv, AdminCrash
<1>2. [Next]_vars /\ UNCHANGED <<store, held, stray, bar>>
  BY DEF AdminCrash, Next, Crash, redis, vars
<1>3. TypeInv' /\ TTLs'
  BY <1>2, TypeInvStep, TTLStep DEF AdminInv
<1>4. ScanInv'
  <2> SUFFICES ASSUME NEW a \in Calls, at'[a] = "scan" PROVE FALSE
    BY <1>1, ScanKept
  <2>1. at'[a] = IF at[a] \in Busy THEN "failed" ELSE at[a]
    BY DEF AdminCrash
  <2> QED BY <2>1 DEF Busy, OnRedis
<1> QED BY <1>1, <1>2, <1>3, <1>4, StoreUntouched, MustType DEF AdminInv

LEMMA AdminInvStep == AdminInv /\ [AdminNext]_allvars => AdminInv'
<1> SUFFICES ASSUME AdminInv, [AdminNext]_allvars PROVE AdminInv'
  OBVIOUS
<1>1. CASE /\ (\E r \in Reqs : Handler(r)) \/ Advance
           /\ UNCHANGED <<at, call>>
           /\ Track
  BY <1>1, RequestSteps DEF Next
<1>2. ASSUME NEW a \in Calls, AdminCall(a) PROVE AdminInv'
  BY <1>2, AskSteps, ScanSteps, ReadSteps, WriteSteps, LoseCallSteps DEF AdminCall
<1>3. CASE AdminCrash
  BY <1>3, CrashSteps
<1>4. CASE AdminFinished \/ UNCHANGED allvars
  <2>1. UNCHANGED vars /\ UNCHANGED admin
    BY <1>4 DEF AdminFinished, Finished, allvars
  <2>2. CallsInv' /\ Histories' /\ ScanInv'
    BY <2>1 DEF AdminInv, CallsInv, Fitting, Histories, ScanInv, KeysOf, admin, vars
  <2> QED BY <2>1, <2>2, VarsUntouched, StoreUntouched DEF Histories, admin
<1> QED BY <1>1, <1>2, <1>3, <1>4 DEF AdminNext

-------------------------------------------------------------------------------
(* The bound on successes, with operators about.  A reset takes a key's    *)
(* seats and its strays with the counts; a reject puts in the place of     *)
(* what was counted a limit: the configured one of a rule that uses the    *)
(* key, the one a hash kept, which no operator writes, or 1.               *)

(* Every rule lets something in: no operator's default of 1 is too much.   *)
EveryRuleCounts == \A rule \in Rules : Limit(rule) >= 1

Bounds(k) == /\ Covered(store[k], held[k], stray[k])
             /\ Within(store[k], held[k], stray[k], SharedBy(k))

Configured(k, limit) == \E rule \in SharedBy(k) : limit <= Limit(rule)

(* A call on its way to a reject has a key, and a limit for it. *)
Marked(place, q) ==
    place \in {"expiry", "httl", "reject"} => q.key \in Key /\ Configured(q.key, q.limit)

LimitsInv == /\ \A k \in Key : Configured(k, store[k].limit)
             /\ \A a \in Calls : Marked(at[a], call[a])

OvershootInv == AdminInv /\ (\A k \in Key : Bounds(k)) /\ LimitsInv

LEMMA SmallLimit ==
    ASSUME EveryRuleCounts, NEW k \in Key
    PROVE  Configured(k, 0) /\ Configured(k, 1)
<1>1. PICK rule \in Rules : rule \in SharedBy(k)
  <2>1. PICK p \in UNION {Periods(rule) : rule \in Rules}, i \in Idents : k = BuildKey(p, i)
    BY DEF Key
  <2>2. k[1] = p
    BY <2>1 DEF BuildKey
  <2>3. PICK rule \in Rules : p \in Periods(rule)
    BY <2>1
  <2> QED BY <2>2, <2>3 DEF SharedBy
<1>2. Limit(rule) \in Int /\ Limit(rule) >= 1
  BY RuleType DEF EveryRuleCounts
<1> QED BY <1>1, <1>2 DEF Configured

LEMMA LimitEffect ==
    ASSUME NEW h \in Hash(Rules), NEW rule \in Rules, NEW limit \in Int, NEW deadline \in Int
    PROVE  /\ TryReserveScript(h, rule, limit, deadline).limit = limit
           /\ ConfirmScript(h).limit = h.limit
           /\ RollbackScript(h).limit = h.limit
           /\ RejectScript(h, limit, deadline).limit = h.limit
<1>1. TryReserveScript(h, rule, limit, deadline).limit = limit
  BY DEF TryReserveScript, Hash
<1>2. ReleasePending(h).limit = h.limit
  BY DEF ReleasePending, Hash
<1>3. ConfirmScript(h).limit = h.limit
  <2> DEFINE freed == ReleasePending(h)
             n == freed.success + 1
  <2>1. freed \in Hash(Rules) /\ ConfirmScript(h) = [freed EXCEPT !.live = TRUE, !.success = n]
    BY ReleaseEffect DEF ConfirmScript
  <2> HIDE DEF freed, n
  <2>2. ConfirmScript(h).limit = freed.limit
    BY <2>1 DEF Hash
  <2> QED BY <1>2, <2>2 DEF freed
<1>4. RejectScript(h, limit, deadline).limit = h.limit
  BY DEF RejectScript, Hash
<1> QED BY <1>1, <1>2, <1>3, <1>4 DEF RollbackScript

(* No step of a request or of time writes a limit that no rule has. *)
LEMMA RequestLimits ==
    ASSUME EveryRuleCounts, TypeInv, [Next]_vars, NEW k \in Key, Configured(k, store[k].limit)
    PROVE  Configured(k, store'[k].limit)
<1>1. Typed /\ Attached /\ store[k] \in Hash(Rules)
  BY DEF TypeInv, Typed
<1>2. ASSUME NEW r \in Reqs, At(r, "reserve"), ReserveExecuted(r)
      PROVE  Configured(k, store'[k].limit)
  <2> DEFINE rule == req[r].rule
             limit == Limit(rule)
             deadline == now + req[r].ttl * Second
  <2>1. rule \in Rules /\ req[r].key \in Key /\ rule \in SharedBy(req[r].key)
    BY <1>1, <1>2 DEF Attached, At, Bound, HasKey
  <2>2. CASE req[r].key # k
    BY <1>1, <1>2, <2>1, <2>2 DEF ReserveExecuted, Typed
  <2>3. CASE req[r].key = k
    <3>1. deadline \in Int
      BY <1>1, DeadlineType
    <3>2. limit \in Int
      BY <2>1, RuleType
    <3>3. store'[k] = TryReserveScript(store[k], rule, limit, deadline)
      BY <1>1, <1>2, <2>3 DEF ReserveExecuted, Typed
    <3> HIDE DEF rule, limit, deadline
    <3>4. store'[k].limit = limit
      BY <1>1, <2>1, <3>1, <3>2, <3>3, LimitEffect
    <3> QED BY <2>1, <2>3, <3>2, <3>4 DEF Configured, limit
  <2> QED BY <2>2, <2>3
<1>3. ASSUME NEW r \in Reqs, At(r, "eval"), SettleExecuted(r)
      PROVE  Configured(k, store'[k].limit)
  <2>1. req[r].key \in Key
    BY <1>1, <1>3 DEF Attached, At, Bound, HasKey
  <2>2. \/ store'[k] = store[k]
        \/ store'[k] = ConfirmScript(store[k])
        \/ store'[k] = RollbackScript(store[k])
    BY <1>1, <1>3, <2>1 DEF SettleExecuted, Typed
  <2>3. /\ ConfirmScript(store[k]).limit = store[k].limit
        /\ RollbackScript(store[k]).limit = store[k].limit
    <3>1. PICK rule \in Rules : rule \in SharedBy(req[r].key)
      BY <1>1, <1>3 DEF Attached, At, Bound, HasKey
    <3> QED BY <1>1, <3>1, LimitEffect, 0 \in Int
  <2> QED BY <2>2, <2>3
<1>4. ASSUME NEW r \in Reqs, Handler(r) PROVE Configured(k, store'[k].limit)
  <2>1. CASE Executed(r)
    BY <1>2, <1>3, <2>1 DEF Executed
  <2>2. CASE UNCHANGED redis
    BY <2>2 DEF redis
  <2> QED BY <1>4, <2>1, <2>2, HandlerOnRedis
<1>5. CASE Advance
  <2>1. store'[k] = NoHash \/ store'[k] = store[k]
    BY <1>5 DEF Advance
  <2>2. NoHash.limit = 0
    BY DEF NoHash
  <2> QED BY <2>1, <2>2, SmallLimit
<1>6. CASE Crash \/ Finished \/ UNCHANGED vars
  BY <1>6 DEF Crash, redis, Finished, vars
<1> QED BY <1>4, <1>5, <1>6 DEF Next

(* An operator's write leaves the key within its bounds and its limit. *)
LEMMA WriteBounds ==
    ASSUME EveryRuleCounts, OvershootInv, NEW a \in Calls, WriteExecuted(a), NEW k \in Key
    PROVE  Bounds(k)' /\ Configured(k, store'[k].limit)
<1> DEFINE limit == call[a].limit
           deadline == now + call[a].ttl * Second
           g == RejectScript(store[k], limit, deadline)
<1>1. /\ store[k] \in Hash(Rules) /\ limit \in Int /\ deadline \in Int
      /\ Bounds(k) /\ Configured(k, store[k].limit)
  <2>1. call[a] \in CallLocals /\ now \in Int
    BY CallType, ProxyAssumption DEF OvershootInv, AdminInv, TypeInv, Typed
  <2> DEFINE ttl == call[a].ttl
  <2>2. ttl \in Nat /\ limit \in Int
    BY <2>1 DEF CallLocals
  <2> HIDE DEF ttl
  <2>3. ttl * Second \in Nat
    BY <2>2, UnitsType
  <2>4. now + ttl * Second \in Int
    BY <2>1, <2>3
  <2> QED BY <2>2, <2>4 DEF OvershootInv, AdminInv, TypeInv, Typed, LimitsInv, ttl
<1>2. CASE k \notin Written(a)
  <2>1. store'[k] = store[k] /\ held'[k] = held[k] /\ stray'[k] = stray[k]
    BY <1>2 DEF WriteExecuted
  <2> QED BY <1>1, <2>1 DEF Bounds, Covered, Within
<1>3. CASE k \in Written(a) /\ at[a] = "reject"
  <2>1. store'[k] = g /\ held'[k] = {} /\ stray'[k] = 0
    <3>1. store'[k] = AfterWrite(a, store[k]) /\ held'[k] = {} /\ stray'[k] = 0
      BY <1>3 DEF WriteExecuted
    <3> QED BY <1>3, <3>1 DEF AfterWrite
  <2>2. call[a].key = k
    BY <1>3 DEF Written
  <2>3. PICK rule \in SharedBy(k) : limit <= Limit(rule)
    BY <1>3, <2>2 DEF OvershootInv, LimitsInv, Marked, Configured
  <2>4. rule \in Rules
    BY DEF SharedBy
  <2> HIDE DEF limit, deadline
  <2>5. g.success = limit /\ g.pending = 0 /\ g.limit = store[k].limit
    BY <1>1, <2>4, LimitEffect DEF RejectScript, Hash
  <2> HIDE DEF g
  <2>6. Cardinality({}) = 0
    BY FS_EmptySet
  <2>7. Admits(rule) \in Nat /\ Limit(rule) \in Int /\ Limit(rule) <= Admits(rule)
    BY <2>4, AdmitsType, RuleType
  <2>8. Covered(g, {}, 0)
    BY <2>5, <2>6 DEF Covered
  <2>9. g.success + Cardinality({}) <= Admits(rule) + 0
    BY <1>1, <2>3, <2>5, <2>6, <2>7
  <2>10. Within(g, {}, 0, SharedBy(k))
    BY <2>9 DEF Within
  <2> QED BY <1>1, <2>1, <2>5, <2>8, <2>10 DEF Bounds
<1>4. CASE k \in Written(a) /\ at[a] # "reject"
  <2>1. store'[k] = NoHash /\ held'[k] = {} /\ stray'[k] = 0
    BY <1>4 DEF WriteExecuted, AfterWrite, ResetScript
  <2>2. NoHash.limit = 0
    BY DEF NoHash
  <2> QED BY <2>1, <2>2, EmptyKeyBounds, SmallLimit DEF Bounds
<1> QED BY <1>2, <1>3, <1>4

(* A call that moves keeps the mark: it takes none it did not have. *)
LEMMA MarkMoves ==
    ASSUME CallsInv, LimitsInv, NEW a \in Calls, NEW to, NEW q, Marked(to, q),
           Enter(a, to, q) \/ (at' = [at EXCEPT ![a] = to] /\ call' = [call EXCEPT ![a] = q])
    PROVE  \A b \in Calls : Marked(at'[b], call'[b])
<1>1. Only(a) /\ at'[a] = to /\ (to \notin Answered => call'[a] = q)
  BY EnterOnly
<1> SUFFICES ASSUME NEW b \in Calls PROVE Marked(at'[b], call'[b])
  OBVIOUS
<1>2. CASE b # a
  BY <1>1, <1>2 DEF Only, LimitsInv
<1>3. CASE b = a
  BY <1>1, <1>3 DEF Marked, Answered
<1> QED BY <1>2, <1>3

LEMMA NoReplyMarks ==
    ASSUME EveryRuleCounts, CallsInv, LimitsInv, NEW a \in Calls, at[a] \in OnRedis,
           AdminNoReply(a), at[a] = "hget" => call[a].key \in call[a].keys
    PROVE  \A b \in Calls : Marked(at'[b], call'[b])
<1>1. call[a] \in CallLocals /\ Marked(at[a], call[a])
  BY CallType DEF LimitsInv
<1>2. CASE call[a].try < MaxRetries
  <2> DEFINE n == call[a].try + 1
             keys == call[a].keys \cup {row.key : row \in call[a].rows}
             q == [call[a] EXCEPT !.try = n, !.rows = {}, !.keys = keys]
  <2>1. Enter(a, at[a], q)
    BY <1>2 DEF AdminNoReply
  <2> HIDE DEF n, keys
  <2>2. q.key = call[a].key /\ q.limit = call[a].limit
    BY <1>1 DEF CallLocals
  <2> HIDE DEF q
  <2>3. Marked(at[a], q)
    BY <1>1, <2>2 DEF Marked
  <2> QED BY <2>1, <2>3, MarkMoves
<1>3. CASE ~(call[a].try < MaxRetries) /\ at[a] = "hget"
  <2> DEFINE q == [call[a] EXCEPT !.limit = 1, !.try = 0]
  <2>1. Enter(a, "httl", q)
    BY <1>3 DEF AdminNoReply
  <2>2. call[a].key \in Key /\ q.key = call[a].key /\ q.limit = 1
    <3>1. call[a].keys \subseteq Key
      BY <1>1 DEF CallLocals
    <3>2. q.key = call[a].key /\ q.limit = 1
      BY <1>1 DEF CallLocals
    <3> QED BY <1>3, <3>1, <3>2
  <2> HIDE DEF q
  <2>3. Marked("httl", q)
    BY <2>2, SmallLimit DEF Marked
  <2> QED BY <2>1, <2>3, MarkMoves
<1>4. CASE ~(call[a].try < MaxRetries) /\ at[a] = "httl"
  <2> DEFINE q == [call[a] EXCEPT !.ttl = DaySeconds, !.try = 0]
  <2>1. Enter(a, "reject", q)
    BY <1>4 DEF AdminNoReply
  <2>2. q.key = call[a].key /\ q.limit = call[a].limit
    BY <1>1 DEF CallLocals
  <2> HIDE DEF q
  <2>3. Marked("reject", q)
    BY <1>1, <1>4, <2>2 DEF Marked
  <2> QED BY <2>1, <2>3, MarkMoves
<1>5. CASE ~(call[a].try < MaxRetries) /\ at[a] \notin {"hget", "httl"}
  <2>1. Enter(a, "failed", NoCall)
    BY <1>5 DEF AdminNoReply
  <2>2. Marked("failed", NoCall)
    BY DEF Marked
  <2> QED BY <2>1, <2>2, MarkMoves
<1> QED BY <1>2, <1>3, <1>4, <1>5

(* The reads that lead to a reject: the rule's limit, or the key's own. *)
LEMMA ReadMarks ==
    ASSUME EveryRuleCounts, AdminInv, LimitsInv, NEW a \in Calls,
           NextRule(a) \/ ReadExpiry(a) \/ HGetReply(a) \/ TTLReply(a)
    PROVE  \A b \in Calls : Marked(at'[b], call'[b])
<1>1. /\ CallsInv /\ Typed /\ call \in [Calls -> CallLocals] /\ call[a] \in CallLocals
      /\ Marked(at[a], call[a])
  BY CallType DEF AdminInv, TypeInv, CallsInv, LimitsInv
<1>2. CASE NextRule(a)
  <2> DEFINE rule == Head(call[a].todo)
             k == BuildKey(PeriodKey(RuleConf[rule], now), call[a].ident)
             limit == Limit(rule)
             q == [call[a] EXCEPT !.limit = limit, !.try = 0, !.key = k]
  <2>1. at[a] = "rule" /\ at[a] \in Busy
    BY <1>2 DEF NextRule, Busy
  <2>2. call[a].todo \in Todos /\ call[a].todo # <<>> /\ call[a].ident \in Idents
    <3>1. call[a].todo # <<>> /\ call[a].ident \in Idents
      BY <1>1, <2>1, CallType
    <3> QED BY <1>1, <3>1 DEF CallLocals
  <2>3. rule \in Rules /\ now \in Instants
    BY <1>1, <2>2, RulesLeft DEF Typed
  <2>4. PICK to : at' = [at EXCEPT ![a] = to] /\ call' = [call EXCEPT ![a] = q]
    <3>1. call' = [call EXCEPT ![a] = q]
      BY <1>1, <1>2 DEF NextRule
    <3>2. \E to : at' = [at EXCEPT ![a] = to]
      BY <1>2 DEF NextRule, Jump
    <3> QED BY <3>1, <3>2
  <2> HIDE DEF rule
  <2>5. k \in Key /\ rule \in SharedBy(k) /\ limit \in Int
    BY <2>2, <2>3, KeyOfRule, RuleType
  <2>6. Configured(k, limit)
    BY <2>5 DEF Configured
  <2> HIDE DEF k, limit
  <2>7. q.key = k /\ q.limit = limit
    BY <1>1 DEF CallLocals
  <2> HIDE DEF q
  <2>8. Marked(to, q)
    BY <2>5, <2>6, <2>7 DEF Marked
  <2> QED BY <1>1, <2>4, <2>8, MarkMoves
<1>3. CASE ReadExpiry(a)
  <2> DEFINE ttl == PeriodTTL(RuleConf[Head(call[a].todo)], now)
             q == [call[a] EXCEPT !.ttl = ttl]
  <2>1. at[a] = "expiry" /\ at' = [at EXCEPT ![a] = "reject"] /\ call' = [call EXCEPT ![a] = q]
    BY <1>1, <1>3 DEF ReadExpiry, Jump
  <2> HIDE DEF ttl
  <2>2. q.key = call[a].key /\ q.limit = call[a].limit
    BY <1>1 DEF CallLocals
  <2> HIDE DEF q
  <2>3. Marked("reject", q)
    BY <1>1, <2>1, <2>2 DEF Marked
  <2> QED BY <1>1, <2>1, <2>3, MarkMoves
<1>4. CASE HGetReply(a)
  <2> DEFINE h == store[call[a].key]
             limit == LimitFound(h)
             q == [call[a] EXCEPT !.try = 0, !.limit = limit]
  <2>1. call[a].key \in Key
    BY <1>1, <1>4 DEF HGetReply, CallLocals
  <2>2. at' = [at EXCEPT ![a] = "httl"] /\ call' = [call EXCEPT ![a] = q]
    BY <1>1, <1>4 DEF HGetReply, GoOn, Jump
  <2>3. Configured(call[a].key, h.limit)
    BY <2>1 DEF LimitsInv
  <2>4. limit = 1 \/ limit = h.limit
    BY DEF LimitFound
  <2>5. Configured(call[a].key, limit)
    BY <2>1, <2>3, <2>4, SmallLimit
  <2> HIDE DEF limit
  <2>6. q.key = call[a].key /\ q.limit = limit
    BY <1>1 DEF CallLocals
  <2> HIDE DEF q
  <2>7. Marked("httl", q)
    BY <2>1, <2>5, <2>6 DEF Marked
  <2> QED BY <1>1, <2>2, <2>7, MarkMoves
<1>5. CASE TTLReply(a)
  <2> DEFINE ttl == TimeToLive(store[call[a].key])
             q == [call[a] EXCEPT !.try = 0, !.ttl = ttl]
  <2>1. at[a] = "httl" /\ at' = [at EXCEPT ![a] = "reject"] /\ call' = [call EXCEPT ![a] = q]
    BY <1>1, <1>5 DEF TTLReply, GoOn, Jump
  <2> HIDE DEF ttl
  <2>2. q.key = call[a].key /\ q.limit = call[a].limit
    BY <1>1 DEF CallLocals
  <2> HIDE DEF q
  <2>3. Marked("reject", q)
    BY <1>1, <2>1, <2>2 DEF Marked
  <2> QED BY <1>1, <2>1, <2>3, MarkMoves
<1> QED BY <1>2, <1>3, <1>4, <1>5

LEMMA ElsewhereMarks ==
    ASSUME CallsInv, LimitsInv, NEW a \in Calls,
           NEW to \in (Places \ {"expiry", "httl", "reject"}),
           \E q : Enter(a, to, q) \/ (at' = [at EXCEPT ![a] = to] /\ call' = [call EXCEPT ![a] = q])
    PROVE  \A b \in Calls : Marked(at'[b], call'[b])
<1>1. PICK q : Enter(a, to, q) \/ (at' = [at EXCEPT ![a] = to] /\ call' = [call EXCEPT ![a] = q])
  OBVIOUS
<1>2. Marked(to, q)
  BY DEF Marked
<1> QED BY <1>1, <1>2, MarkMoves

LEMMA CallMarks ==
    ASSUME EveryRuleCounts, AdminInv, LimitsInv, NEW a \in Calls, AdminCall(a)
    PROVE  \A b \in Calls : Marked(at'[b], call'[b])
<1>0. CallsInv /\ at \in [Calls -> Places] /\ call \in [Calls -> CallLocals]
  BY DEF AdminInv, CallsInv
<1> DEFINE Else == {"idle", "scan", "rule", "delete", "hget", "get", "read", "listed",
                   "ok", "failed"}
<1>1. Else \subseteq Places \ {"expiry", "httl", "reject"}
  BY DEF Places, Busy, OnRedis, Answered
<1>2. ASSUME NEW to \in Else,
             \E q : Enter(a, to, q) \/ (at' = [at EXCEPT ![a] = to] /\ call' = [call EXCEPT ![a] = q])
      PROVE  \A b \in Calls : Marked(at'[b], call'[b])
  <2>1. to \in Places \ {"expiry", "httl", "reject"}
    BY <1>1
  <2> QED BY <1>0, <1>2, <2>1, ElsewhereMarks
<1>3. CASE Ask(a)
  <2>1. \E to \in {"scan", "rule"} : at' = [at EXCEPT ![a] = to]
    BY <1>3 DEF Ask, Jump
  <2>2. \E q : call' = [call EXCEPT ![a] = q]
    BY <1>3 DEF Ask
  <2> QED BY <1>2, <2>1, <2>2
<1>4. CASE NextRule(a) \/ ReadExpiry(a) \/ HGetReply(a) \/ TTLReply(a)
  BY <1>4, ReadMarks
<1>5. CASE ScanBatch(a)
  <2>1. call[a].kind \in Kinds
    BY <1>0, <1>5, CallType DEF ScanBatch, Busy, OnRedis
  <2>2. \E to, q, left, keys : /\ Enter(a, to, q)
                               /\ to = IF left = {} THEN AfterScan(a, keys) ELSE "scan"
    BY <1>5 DEF ScanBatch
  <2>3. \A keys : AfterScan(a, keys) \in {"delete", "hget", "get", "read", "ok", "failed"}
    BY <2>1 DEF AfterScan, Kinds
  <2>4. PICK to, q : Enter(a, to, q) /\ to \in Else
    BY <2>2, <2>3
  <2> QED BY <1>2, <2>4
<1>6. CASE PickKey(a)
  <2>1. at' = [at EXCEPT ![a] = "hget"]
    BY <1>0, <1>6 DEF PickKey
  <2>2. \E q : call' = [call EXCEPT ![a] = q]
    BY <1>0, <1>6 DEF PickKey
  <2> QED BY <1>2, <2>1, <2>2
<1>7. CASE WriteReply(a) \/ StatusReply(a) \/ ReadRow(a) \/ ListReply(a)
  <2>1. PICK to, q : Enter(a, to, q) /\ to \in {"rule", "hget", "read", "listed", "ok", "failed"}
    BY <1>7 DEF WriteReply, StatusReply, ReadRow, ListReply, Proceed
  <2> QED BY <1>2, <2>1
<1>8. CASE AdminLoseReply(a) \/ AdminLoseCall(a)
  <2>1. /\ AdminNoReply(a) /\ at[a] \in OnRedis
        /\ at[a] = "hget" => call[a].key \in call[a].keys
    BY <1>8 DEF AdminLoseReply, AdminLoseCall, WriteExecuted, OnRedis
  <2> QED BY <1>0, <2>1, NoReplyMarks
<1> QED BY <1>3, <1>4, <1>5, <1>6, <1>7, <1>8 DEF AdminCall

LEMMA OvershootInit == EveryRuleCounts /\ AdminInit => OvershootInv
<1> SUFFICES ASSUME EveryRuleCounts, AdminInit PROVE OvershootInv
  OBVIOUS
<1>1. AdminInv /\ Init
  BY AdminInvInit DEF AdminInit
<1>2. \A k \in Key : Bounds(k)
  BY <1>1, SeatsInvInit DEF SeatsInv, Bounds
<1>3. \A k \in Key : store[k] = NoHash /\ NoHash.limit = 0
  BY <1>1 DEF Init, NoHash
<1>4. \A k \in Key : Configured(k, store[k].limit)
  BY <1>3, SmallLimit
<1>5. \A a \in Calls : Marked(at[a], call[a])
  BY DEF AdminInit, Marked
<1> QED BY <1>1, <1>2, <1>4, <1>5 DEF OvershootInv, LimitsInv

LEMMA OvershootStep == EveryRuleCounts /\ OvershootInv /\ [AdminNext]_allvars => OvershootInv'
<1> SUFFICES ASSUME EveryRuleCounts, OvershootInv, [AdminNext]_allvars PROVE OvershootInv'
  OBVIOUS
<1>1. AdminInv /\ AdminInv' /\ LimitsInv /\ TypeInv /\ CallsInv
  BY AdminInvStep DEF OvershootInv, AdminInv
<1> DEFINE Keys == \A k \in Key : Bounds(k)' /\ Configured(k, store'[k].limit)
           Marks == \A b \in Calls : Marked(at'[b], call'[b])
<1> SUFFICES Keys /\ Marks
  BY <1>1 DEF OvershootInv, LimitsInv, Marked, Configured, Bounds
<1>2. ASSUME [Next]_vars PROVE Keys
  <2>1. SeatsInv
    BY <1>1 DEF OvershootInv, SeatsInv, Bounds
  <2>2. SeatsInv'
    BY <1>2, <2>1, SeatsInvStep
  <2>3. \A k \in Key : Bounds(k)'
    BY <2>2 DEF SeatsInv, Bounds
  <2>4. \A k \in Key : Configured(k, store'[k].limit)
    BY <1>1, <1>2, RequestLimits DEF LimitsInv
  <2> QED BY <2>3, <2>4
<1>3. ASSUME UNCHANGED <<at, call>> PROVE Marks
  BY <1>1, <1>3 DEF LimitsInv
<1>4. CASE /\ (\E r \in Reqs : Handler(r)) \/ Advance
           /\ UNCHANGED <<at, call>>
           /\ Track
  BY <1>2, <1>3, <1>4 DEF Next
<1>5. ASSUME NEW a \in Calls, AdminCall(a) PROVE Keys /\ Marks
  <2>1. Marks
    BY <1>1, <1>5, CallMarks
  <2>2. CASE WriteExecuted(a)
    BY <2>1, <2>2, WriteBounds
  <2>3. CASE UNCHANGED vars
    BY <1>2, <2>1, <2>3
  <2>4. WriteExecuted(a) \/ UNCHANGED vars
    BY <1>5 DEF AdminCall, Ask, NextRule, ReadExpiry, ScanBatch, PickKey, HGetReply, TTLReply,
                GoOn, WriteReply, StatusReply, ReadRow, ListReply, AdminLoseReply, AdminLoseCall,
                ReadsOnly
  <2> QED BY <2>2, <2>3, <2>4
<1>6. CASE AdminCrash
  <2>1. [Next]_vars
    BY <1>6 DEF AdminCrash, Next
  <2>2. Marks
    <3> SUFFICES ASSUME NEW b \in Calls PROVE Marked(at'[b], call'[b])
      OBVIOUS
    <3>1. at'[b] = (IF at[b] \in Busy THEN "failed" ELSE at[b])
      BY <1>6 DEF AdminCrash
    <3> QED BY <3>1 DEF Marked, Busy, OnRedis
  <2> QED BY <1>2, <2>1, <2>2
<1>7. CASE AdminFinished \/ UNCHANGED allvars
  <2>1. UNCHANGED vars /\ UNCHANGED <<at, call>>
    BY <1>7 DEF AdminFinished, Finished, allvars, admin
  <2> QED BY <1>2, <1>3, <2>1
<1> QED BY <1>4, <1>5, <1>6, <1>7 DEF AdminNext

-------------------------------------------------------------------------------
(* Seats beside the operators.  A write frees every seat of the keys it    *)
(* comes to; whatever it writes, no seat there is left to be missed.       *)

AllCovered == \A k \in Key : Covered(store[k], held[k], stray[k])

LEMMA CoverStep == TypeInv /\ AllCovered /\ [Next]_vars => AllCovered'
<1> SUFFICES ASSUME TypeInv, AllCovered, [Next]_vars, NEW k \in Key
             PROVE  Covered(store'[k], held'[k], stray'[k])
  BY DEF AllCovered
<1>1. /\ Typed /\ Attached /\ Covered(store[k], held[k], stray[k])
      /\ store[k] \in Hash(Rules) /\ held[k] \in SUBSET Reqs /\ stray[k] \in Nat
  BY DEF TypeInv, Typed, AllCovered
<1>2. store[k].pending \in Nat /\ Cardinality(held[k]) \in Nat
  BY <1>1, CountersType, SeatsFinite
<1>3. CASE store'[k] = store[k] /\ held'[k] = held[k] /\ stray'[k] = stray[k]
  BY <1>1, <1>3
<1>4. ASSUME NEW r \in Reqs, At(r, "reserve"), ReserveExecuted(r), req[r].key = k
      PROVE  Covered(store'[k], held'[k], stray'[k])
  <2> DEFINE rule == req[r].rule
             deadline == now + req[r].ttl * Second
             g == TryReserveScript(store[k], rule, Limit(rule), deadline)
             T == IF Granted(store[k], Limit(rule)) THEN held[k] \cup {r} ELSE held[k]
  <2>1. rule \in Rules /\ Limit(rule) \in Int /\ deadline \in Int
    BY <1>1, <1>4, RuleType, DeadlineType DEF Attached, At, Bound, HasKey
  <2>2. store'[k] = g /\ held'[k] = T /\ stray'[k] = stray[k]
    BY <1>1, <1>4 DEF ReserveExecuted, Typed
  <2> HIDE DEF rule, deadline
  <2>3. g.pending = IF Granted(store[k], Limit(rule)) THEN store[k].pending + 1
                                                      ELSE store[k].pending
    BY <1>1, <2>1, TryReserveEffect
  <2>4. Cardinality(held[k] \cup {r}) <= Cardinality(held[k]) + 1
    BY <1>1, SeatTaken
  <2>5. Cardinality(held[k] \cup {r}) \in Nat
    BY <1>1, SeatsFinite
  <2> HIDE DEF g
  <2>6. Covered(g, T, stray[k])
    BY <1>1, <1>2, <2>3, <2>4, <2>5 DEF Covered
  <2> QED BY <2>2, <2>6
<1>5. ASSUME NEW r \in Reqs, At(r, "eval"), SettleExecuted(r), req[r].key = k
      PROVE  Covered(store'[k], held'[k], stray'[k])
  <2> DEFINE op == req[r].op
             g == IF op = "confirm" THEN ConfirmScript(store[k]) ELSE RollbackScript(store[k])
             m == IF r \in held[k] THEN stray[k] ELSE stray[k] + 1
  <2>1. store'[k] = g /\ held'[k] = held[k] \ {r} /\ stray'[k] = m
    BY <1>1, <1>5 DEF SettleExecuted, Typed
  <2>2. g.pending = IF store[k].pending > 0 THEN store[k].pending - 1 ELSE 0
    <3> HIDE DEF op
    <3> QED BY <1>1, ConfirmEffect, ReleaseEffect DEF RollbackScript
  <2>3. Cardinality(held[k] \ {r}) = IF r \in held[k] THEN Cardinality(held[k]) - 1
                                                     ELSE Cardinality(held[k])
    BY <1>1, SeatFreed
  <2> HIDE DEF g
  <2>4. Covered(g, held[k] \ {r}, m)
    BY <1>1, <1>2, <2>2, <2>3 DEF Covered
  <2> QED BY <2>1, <2>4
<1>6. ASSUME NEW r \in Reqs, Executed(r) PROVE Covered(store'[k], held'[k], stray'[k])
  <2>1. req[r].key \in Key
    BY <1>1, <1>6 DEF Executed, Attached, At, Bound, HasKey
  <2>2. CASE req[r].key = k
    BY <1>4, <1>5, <1>6, <2>2 DEF Executed
  <2>3. CASE req[r].key # k
    BY <1>1, <1>3, <1>6, <2>1, <2>3 DEF Executed, ReserveExecuted, SettleExecuted, Typed
  <2> QED BY <2>2, <2>3
<1>7. CASE UNCHANGED redis
  BY <1>3, <1>7 DEF redis
<1>8. CASE Advance
  <2>1. \/ store'[k] = store[k] /\ held'[k] = held[k] /\ stray'[k] = stray[k]
        \/ store'[k] = NoHash /\ held'[k] = {} /\ stray'[k] = 0
    BY <1>8 DEF Advance
  <2> QED BY <1>3, <2>1, EmptyKeyBounds
<1>9. ASSUME NEW r \in Reqs, Handler(r) PROVE Executed(r) \/ UNCHANGED redis
  BY <1>9, HandlerOnRedis
<1>10. CASE Crash \/ Finished \/ UNCHANGED vars
  BY <1>7, <1>10 DEF Crash, Finished, vars, redis
<1> QED BY <1>6, <1>7, <1>8, <1>9, <1>10 DEF Next

SeatsStay == AdminInv /\ Remembered /\ Unhurt /\ AllCovered

LEMMA SeatsStayInit == AdminInit => SeatsStay
<1> SUFFICES ASSUME AdminInit PROVE SeatsStay
  OBVIOUS
<1>1. AdminInv /\ Init
  BY AdminInvInit DEF AdminInit
<1>2. Remembered /\ Unhurt
  BY <1>1, SeatInvInit DEF SeatInv
<1>3. AllCovered
  BY <1>1, SeatsInvInit DEF SeatsInv, AllCovered
<1> QED BY <1>1, <1>2, <1>3 DEF SeatsStay

LEMMA SeatsStayStep == SeatsStay /\ [AdminNext]_allvars => SeatsStay'
<1> SUFFICES ASSUME SeatsStay, [AdminNext]_allvars PROVE SeatsStay'
  OBVIOUS
<1>1. AdminInv /\ AdminInv' /\ TypeInv /\ Remembered /\ Unhurt /\ AllCovered
  BY AdminInvStep DEF SeatsStay, AdminInv
<1>2. CASE [Next]_vars
  <2>1. Remembered' /\ Unhurt'
    BY <1>1, <1>2, SeatInvStep DEF SeatInv
  <2>2. AllCovered'
    BY <1>1, <1>2, CoverStep
  <2> QED BY <1>1, <2>1, <2>2 DEF SeatsStay
<1>3. ASSUME NEW a \in Calls, WriteExecuted(a) PROVE SeatsStay'
  <2>1. /\ pc' = pc /\ req' = req
        /\ \A k \in Key :
              \/ store'[k] = store[k] /\ held'[k] = held[k] /\ stray'[k] = stray[k]
              \/ held'[k] = {} /\ stray'[k] = 0
    BY <1>3 DEF WriteExecuted
  <2>2. Remembered' /\ Unhurt'
    BY <1>1, <2>1 DEF Remembered, Remembers, Unhurt
  <2>3. ASSUME NEW k \in Key PROVE Covered(store'[k], held'[k], stray'[k])
    <3>1. store'[k].pending \in Nat
      BY <1>1, CountersType DEF AdminInv, TypeInv, Typed
    <3>2. Cardinality({}) = 0
      BY FS_EmptySet
    <3>3. CASE store'[k] = store[k] /\ held'[k] = held[k] /\ stray'[k] = stray[k]
      BY <1>1, <3>3 DEF AllCovered
    <3>4. CASE held'[k] = {} /\ stray'[k] = 0
      <4> DEFINE pending == store'[k].pending
      <4>1. 0 <= pending + 0
        BY <3>1
      <4> QED BY <3>2, <3>4, <4>1 DEF Covered
    <3> QED BY <2>1, <3>3, <3>4
  <2> QED BY <1>1, <2>2, <2>3 DEF SeatsStay, AllCovered
<1>4. ASSUME NEW a \in Calls, AdminCall(a) PROVE WriteExecuted(a) \/ UNCHANGED vars
  BY <1>4 DEF AdminCall, Ask, NextRule, ReadExpiry, ScanBatch, PickKey, HGetReply, TTLReply,
              GoOn, WriteReply, StatusReply, ReadRow, ListReply, AdminLoseReply, AdminLoseCall,
              ReadsOnly
<1>5. ASSUME ~\E a \in Calls : AdminCall(a) PROVE [Next]_vars
  BY <1>5 DEF AdminNext, AdminCrash, AdminFinished, Finished, Next, allvars
<1> QED BY <1>2, <1>3, <1>4, <1>5

-------------------------------------------------------------------------------
(* The listing.  Its order is one, so that there are listings of every     *)
(* finite set of rows; cut anywhere, the pieces of a list join to it.      *)

Ranked == Idents \cup Rules \cup {""}
IsRow(x) == x.ident \in Ranked /\ x.rule \in Ranked /\ x.remaining \in Int

LEMMA RowsSorted ==
    ASSUME NEW rows, IsFiniteSet(rows), \A x \in rows : IsRow(x)
    PROVE  /\ SortedRows(rows, Rank) # {}
           /\ \A s \in SortedRows(rows, Rank) :
                 /\ s \in Seq(rows)
                 /\ \A i, j \in 1..Len(s) : i < j => s[i].remaining <= s[j].remaining
<1> DEFINE before == {p \in rows \X rows : Precedes(Rank, p[1], p[2])}
<1>1. \A x \in rows : /\ x.remaining \in Int
                      /\ Rank[x.ident] \in Nat /\ Rank[x.rule] \in Nat
  <2>1. Rank \in [Ranked -> Nat]
    BY AdminAssumption, Zenon DEF Ranked
  <2> QED BY <2>1 DEF IsRow
<1>2. \A x, y \in rows : <<x, y>> \in before <=> Precedes(Rank, x, y)
  OBVIOUS
<1> HIDE DEF before
<1>3. IsOrder(before, rows)
  <2>1. \A x \in rows : ~Precedes(Rank, x, x)
    BY <1>1 DEF Precedes
  <2>2. \A x, y, z \in rows : Precedes(Rank, x, y) /\ Precedes(Rank, y, z) => Precedes(Rank, x, z)
    BY <1>1 DEF Precedes
  <2> QED BY <1>2, <2>1, <2>2 DEF IsOrder
<1>4. SortedRows(rows, Rank) # {}
  <2>1. PICK s \in SetToSeqs(rows) : \A i, j \in DOMAIN s : i < j => <<s[j], s[i]>> \notin before
    BY <1>3, OrderExists
  <2>2. \A i \in DOMAIN s : s[i] \in rows
    BY <2>1 DEF SetToSeqs
  <2>3. InOrder(Rank, s)
    BY <1>2, <2>1, <2>2 DEF InOrder
  <2> QED BY <2>1, <2>3 DEF SortedRows
<1>5. ASSUME NEW s \in SortedRows(rows, Rank)
      PROVE  /\ s \in Seq(rows)
             /\ \A i, j \in 1..Len(s) : i < j => s[i].remaining <= s[j].remaining
  <2>1. Cardinality(rows) \in Nat
    BY FS_CardinalityType
  <2>2. s \in [1..Cardinality(rows) -> rows] /\ InOrder(Rank, s)
    BY DEF SortedRows, SetToSeqs
  <2>3. s \in Seq(rows) /\ DOMAIN s = 1..Len(s)
    BY <2>1, <2>2
  <2>4. ASSUME NEW i \in 1..Len(s), NEW j \in 1..Len(s), i < j
        PROVE  s[i].remaining <= s[j].remaining
    <3>1. s[i] \in rows /\ s[j] \in rows
      BY <2>2, <2>3
    <3>2. ~Precedes(Rank, s[j], s[i])
      BY <2>2, <2>3, <2>4 DEF InOrder
    <3>3. ~(s[j].remaining < s[i].remaining)
      BY <3>2 DEF Precedes
    <3> QED BY <1>1, <3>1, <3>3
  <2> QED BY <2>3, <2>4
<1> QED BY <1>4, <1>5

(* What fits in an int is not wrapped. *)
LEMMA WrappedInside == ASSUME NEW n \in 0..MaxInt PROVE Wrapped(n) = n
<1> DEFINE a == n + MaxInt + 1
           d == 2 * (MaxInt + 1)
<1>1. /\ a \in Int /\ d \in Nat /\ d > 0 /\ 0 <= a /\ a < d
      /\ Wrapped(n) = (a % d) - (MaxInt + 1)
  BY MaxIntAssumption DEF Wrapped
<1>2. a % d = a
  <2> HIDE DEF a, d
  <2> QED BY <1>1
<1> QED BY <1>1, <1>2, MaxIntAssumption

LEMMA PageBegins ==
    ASSUME NEW p \in Nat \ {0}, NEW size \in 1..200, (p - 1) * size <= MaxInt
    PROVE  PageStart(p, size) = (p - 1) * size
<1> DEFINE start == (p - 1) * size
<1>1. PageNumber(p) = p /\ PageSize(size) = size
  BY DEF PageNumber, PageSize
<1>2. start \in 0..MaxInt
  <2> DEFINE m == p - 1
  <2>1. m \in Nat /\ size \in Nat /\ m * size <= MaxInt
    OBVIOUS
  <2> HIDE DEF m
  <2>2. m * size \in Nat
    BY <2>1
  <2>3. m * size \in 0..MaxInt
    BY <2>1, <2>2, MaxIntAssumption
  <2> QED BY <2>3 DEF m
<1>3. PageStart(p, size) = Wrapped(start)
  BY <1>1 DEF PageStart
<1> HIDE DEF start
<1>4. PageStart(p, size) = start
  BY <1>2, <1>3, WrappedInside
<1> QED BY <1>4 DEF start

LEMMA PageBeyond ==
    ASSUME NEW X, NEW rows \in Seq(X), NEW size \in 1..200, NEW p \in Nat \ {0},
           (p - 1) * size <= MaxInt
    PROVE  ~Panics(p, size) /\ (Len(rows) <= (p - 1) * size => PageOf(rows, p, size) = <<>>)
<1> DEFINE start == (p - 1) * size
           end == IF start + size > Len(rows) THEN Len(rows) ELSE start + size
<1>1. PageStart(p, size) = start /\ PageSize(size) = size
  <2>1. PageStart(p, size) = start
    BY PageBegins
  <2>2. PageSize(size) = size
    BY DEF PageSize
  <2> QED BY <2>1, <2>2
<1>2. start \in Nat /\ Len(rows) \in Nat
  <2> DEFINE m == p - 1
  <2>1. m \in Nat /\ size \in Nat
    OBVIOUS
  <2> HIDE DEF m
  <2>2. m * size \in Nat
    BY <2>1
  <2> QED BY <2>2, LenProperties DEF m
<1>3. PageOf(rows, p, size) = SubSeq(rows, start + 1, end)
  BY <1>1 DEF PageOf
<1> HIDE DEF start
<1>4. ~Panics(p, size)
  BY <1>1, <1>2 DEF Panics
<1>5. ASSUME Len(rows) <= start PROVE PageOf(rows, p, size) = <<>>
  <2>1. end = Len(rows) /\ start + 1 \in Int /\ start + 1 > Len(rows)
    BY <1>2, <1>5
  <2>2. SubSeq(rows, start + 1, Len(rows)) = <<>>
    BY <1>2, <2>1, SubSeqEmpty
  <2> QED BY <1>3, <2>1, <2>2
<1> QED BY <1>4, <1>5 DEF start

LEMMA PagesJoin ==
    ASSUME NEW X, NEW rows \in Seq(X), NEW size \in 1..200, Len(rows) * size <= MaxInt
    PROVE  FlattenSeq([page \in 1..(Len(rows) + 1) |-> PageOf(rows, page, size)]) = rows
<1> DEFINE s == size
           n == Len(rows) + 1
           cut == [p \in 0..n |-> IF p * s > Len(rows) THEN Len(rows) ELSE p * s]
           parts == [p \in 1..n |-> SubSeq(rows, cut[p - 1] + 1, cut[p])]
           pages == [page \in 1..n |-> PageOf(rows, page, size)]
<1>0. PageSize(size) = s /\ s \in 1..200
  BY DEF PageSize
<1>1. s \in Nat /\ s >= 1 /\ Len(rows) \in Nat /\ n \in Nat /\ n > 0 /\ Len(rows) * s <= MaxInt
  BY LenProperties
<1> DEFINE len == Len(rows)
<1> HIDE DEF s, len
<1>2. \A p \in 1..n : (p - 1) * s + s = p * s /\ (p - 1) * s >= 0 /\ p * s >= 0
  BY <1>1
<1>3. n * s > Len(rows)
  <2>1. \A m, d \in Nat : m * (d + 1) = m * d + m /\ m * d >= 0
    OBVIOUS
  <2>2. s - 1 \in Nat /\ (s - 1) + 1 = s
    BY <1>1
  <2>3. n * s >= n
    BY <1>1, <2>1, <2>2
  <2> QED BY <1>1, <2>3
<1>4. /\ cut \in [0..n -> 0..Len(rows)] /\ cut[n] = Len(rows) /\ cut[0] = 0
      /\ \A p \in 1..n : /\ cut[p - 1] <= cut[p] /\ p - 1 \in 0..n /\ p \in 0..n
                         /\ cut[p] = IF p * s > Len(rows) THEN Len(rows) ELSE p * s
                         /\ cut[p - 1] = IF (p - 1) * s > Len(rows) THEN Len(rows) ELSE (p - 1) * s
  <2>1. 0 * s = 0 /\ \A p \in 0..n : p * s \in Int /\ p * s >= 0
    BY <1>1
  <2>2. \A p \in 1..n : p - 1 \in 0..n /\ p \in 0..n
    BY <1>1
  <2>3. /\ cut = [p \in 0..n |-> IF p * s > Len(rows) THEN Len(rows) ELSE p * s]
        /\ 0 \in 0..n /\ n \in 0..n
    BY <1>1
  <2> HIDE DEF n, cut
  <2>4. cut \in [0..n -> 0..Len(rows)]
    BY <1>1, <2>1, <2>3
  <2>5. cut[n] = Len(rows) /\ cut[0] = 0
    BY <1>1, <1>3, <2>1, <2>3
  <2>6. \A p \in 1..n : (p - 1) * s <= p * s /\ (p - 1) * s \in Int /\ p * s \in Int
    BY <1>1, <1>2, <2>1, <2>2
  <2> QED BY <1>1, <2>2, <2>3, <2>4, <2>5, <2>6
<1>5. ASSUME NEW p \in 1..n PROVE PageOf(rows, p, size) = SubSeq(rows, cut[p - 1] + 1, cut[p])
  <2> DEFINE start == (p - 1) * s
             end == IF start + s > Len(rows) THEN Len(rows) ELSE start + s
  <2>1. PageStart(p, size) = start
    <3>1. p \in Nat \ {0} /\ p - 1 \in Nat /\ p - 1 <= Len(rows)
      BY <1>1
    <3>2. (p - 1) * s <= Len(rows) * s /\ (p - 1) * s \in Int /\ Len(rows) * s \in Int
      <4>1. \A x, y, z \in Nat : x <= y => x * z <= y * z
        OBVIOUS
      <4> QED BY <1>1, <3>1, <4>1
    <3>3. (p - 1) * s <= MaxInt
      BY <1>1, <3>2, MaxIntAssumption
    <3> QED BY <3>1, <3>3, PageBegins DEF s
  <2>2. PageOf(rows, p, size) = SubSeq(rows, start + 1, end)
    BY <1>0, <2>1 DEF PageOf
  <2>3. start \in Int /\ start >= 0 /\ start + s = p * s
    BY <1>1, <1>2
  <2>4. /\ cut[p] = IF p * s > Len(rows) THEN Len(rows) ELSE p * s
        /\ cut[p - 1] = IF start > Len(rows) THEN Len(rows) ELSE start
    BY <1>4
  <2> HIDE DEF n, cut, start
  <2>5. end = cut[p]
    BY <2>3, <2>4
  <2>6. CASE start <= Len(rows)
    <3>1. cut[p - 1] = start
      BY <1>1, <2>3, <2>4, <2>6
    <3> QED BY <2>2, <2>5, <3>1
  <2>7. CASE start > Len(rows)
    <3>1. cut[p - 1] = Len(rows) /\ cut[p] = Len(rows)
      BY <1>1, <2>3, <2>4, <2>7
    <3>2. SubSeq(rows, start + 1, Len(rows)) = <<>> /\ SubSeq(rows, Len(rows) + 1, Len(rows)) = <<>>
      BY <1>1, <2>3, <2>7, SubSeqEmpty
    <3> QED BY <2>2, <2>5, <3>1, <3>2
  <2> QED BY <1>1, <2>3, <2>6, <2>7
<1>6. pages = parts
  BY <1>5
<1>7. parts = [p \in 1..n |-> SubSeq(rows, cut[p - 1] + 1, cut[p])]
  OBVIOUS
<1> HIDE DEF n, cut, parts, pages
<1>8. FlattenSeq(parts) = rows
  <2>1. n \in Nat /\ n > 0
    BY <1>1
  <2>2. /\ cut \in [0..n -> 0..Len(rows)] /\ cut[0] = 0 /\ cut[n] = Len(rows)
        /\ \A i \in 1..n : cut[i - 1] <= cut[i]
    BY <1>4
  <2> QED BY <2>1, <2>2, <1>7, CutsJoin
<1> QED BY <1>6, <1>8 DEF n, pages

(* There are finitely many rows: one request or call makes one key live at *)
(* a time, a scan finds none but live ones, and one row is read at a time. *)

LiveKeys == {k \in Key : store[k].live}

FewKeys ==
    /\ IsFiniteSet(LiveKeys)
    /\ \A a \in Calls : IsFiniteSet(call[a].keys) /\ IsFiniteSet(call[a].rows)

KeysRead(p) == {row.key : row \in p.rows}

Grows(p, q) ==
    /\ q.keys \subseteq p.keys \cup LiveKeys \cup KeysRead(p)
    /\ \E x : q.rows \subseteq p.rows \cup {x}

KeysFound == \A b \in Calls : Grows(call[b], call'[b])

LEMMA OneComesAlive ==
    ASSUME TypeInv, [Next]_vars
    PROVE  \E k : LiveKeys' \subseteq LiveKeys \cup {k}
<1>1. store \in [Key -> Hash(Rules)]
  BY DEF TypeInv, Typed
<1>2. ASSUME NEW k, NEW g, store' = [store EXCEPT ![k] = g]
      PROVE  LiveKeys' \subseteq LiveKeys \cup {k}
  BY <1>1, <1>2 DEF LiveKeys
<1>3. ASSUME NEW r \in Reqs, Executed(r) PROVE \E k : LiveKeys' \subseteq LiveKeys \cup {k}
  <2>1. \E k, g : store' = [store EXCEPT ![k] = g]
    BY <1>3 DEF Executed, ReserveExecuted, SettleExecuted
  <2> QED BY <1>2, <2>1
<1>4. CASE \A k \in Key : store'[k].live => store[k].live
  BY <1>4 DEF LiveKeys
<1>5. ASSUME NEW r \in Reqs, Handler(r) PROVE \E k : LiveKeys' \subseteq LiveKeys \cup {k}
  <2>1. CASE Executed(r)
    BY <1>3, <2>1
  <2>2. CASE store' = store
    BY <1>4, <2>2
  <2>3. Executed(r) \/ store' = store
    BY <1>5 DEF Handler, RedisCall, Executed, Pass, Match, ReadTTL, UpstreamFails,
                UpstreamSucceeds, FirstEvent, Settle, SettleKey, ReserveReply, SettleReply,
                LoseReply, LoseCall, StreamEnds, Forwarded, redis
  <2> QED BY <2>1, <2>2, <2>3
<1>6. CASE Advance
  <2>1. PICK t \in Instants : store' = [k \in Key |-> IF Expired(k, t) THEN NoHash ELSE store[k]]
    BY <1>6 DEF Advance
  <2>2. ~NoHash.live
    BY DEF NoHash
  <2> QED BY <1>4, <2>1, <2>2
<1>7. CASE Crash \/ Finished \/ UNCHANGED vars
  <2>1. store' = store
    BY <1>7 DEF Crash, Finished, vars, redis
  <2> QED BY <1>4, <2>1
<1> QED BY <1>5, <1>6, <1>7 DEF Next

LEMMA WriteComesAlive ==
    ASSUME NEW a \in Calls, WriteExecuted(a)
    PROVE  LiveKeys' \subseteq LiveKeys \cup {call[a].key}
<1>1. \A h : ~ResetScript(h).live
  BY DEF ResetScript, NoHash
<1>2. ASSUME NEW k \in Key, store'[k].live, ~store[k].live PROVE k = call[a].key
  <2>1. store'[k] = IF k \in Written(a) THEN AfterWrite(a, store[k]) ELSE store[k]
    BY DEF WriteExecuted
  <2>2. k \in Written(a) /\ at[a] = "reject"
    BY <1>1, <1>2, <2>1 DEF AfterWrite
  <2> QED BY <2>2 DEF Written
<1> QED BY <1>2 DEF LiveKeys

LEMMA KeysMoved ==
    ASSUME CallsInv, NEW a \in Calls, NEW to, NEW q, Grows(call[a], q),
           Enter(a, to, q) \/ (at' = [at EXCEPT ![a] = to] /\ call' = [call EXCEPT ![a] = q])
    PROVE  KeysFound
<1>1. Only(a)
  BY EnterOnly
<1>2. call'[a] \in {q, NoCall}
  BY DEF Enter, CallsInv
<1>3. NoCall.keys = {} /\ NoCall.rows = {}
  BY DEF NoCall
<1> SUFFICES ASSUME NEW b \in Calls PROVE Grows(call[b], call'[b])
  BY DEF KeysFound
<1>4. CASE b # a
  BY <1>1, <1>4 DEF Only, Grows
<1>5. CASE b = a
  BY <1>2, <1>3, <1>5 DEF Grows
<1> QED BY <1>4, <1>5

LEMMA NoReplyKeys == ASSUME CallsInv, NEW a \in Calls, AdminNoReply(a) PROVE KeysFound
<1>1. call[a] \in CallLocals
  BY CallType
<1>2. ASSUME NEW to, NEW q, Enter(a, to, q), Grows(call[a], q) PROVE KeysFound
  BY <1>2, KeysMoved
<1>3. Grows(call[a], NoCall)
  BY DEF NoCall, Grows
<1>4. ASSUME NEW n, NEW t
      PROVE  /\ Grows(call[a], [call[a] EXCEPT !.limit = t, !.try = n])
             /\ Grows(call[a], [call[a] EXCEPT !.ttl = t, !.try = n])
  <2> DEFINE p == [call[a] EXCEPT !.limit = t, !.try = n]
             q == [call[a] EXCEPT !.ttl = t, !.try = n]
  <2>1. /\ p.keys = call[a].keys /\ p.rows = call[a].rows
        /\ q.keys = call[a].keys /\ q.rows = call[a].rows
    BY <1>1 DEF CallLocals
  <2> HIDE DEF p, q
  <2>2. Grows(call[a], p) /\ Grows(call[a], q)
    BY <2>1 DEF Grows
  <2> QED BY <2>2 DEF p, q
<1>5. CASE call[a].try < MaxRetries
  <2> DEFINE n == call[a].try + 1
             keys == call[a].keys \cup {row.key : row \in call[a].rows}
             q == [call[a] EXCEPT !.try = n, !.rows = {}, !.keys = keys]
  <2>1. Enter(a, at[a], q)
    BY <1>5 DEF AdminNoReply
  <2>2. keys \subseteq call[a].keys \cup LiveKeys \cup KeysRead(call[a])
    BY DEF KeysRead
  <2> HIDE DEF n, keys
  <2>3. q.keys = keys /\ q.rows = {}
    BY <1>1 DEF CallLocals
  <2> HIDE DEF q
  <2>4. Grows(call[a], q)
    BY <2>2, <2>3 DEF Grows
  <2> QED BY <1>2, <2>1, <2>4
<1>6. CASE ~(call[a].try < MaxRetries)
  <2>1. \/ Enter(a, "httl", [call[a] EXCEPT !.limit = 1, !.try = 0])
        \/ Enter(a, "reject", [call[a] EXCEPT !.ttl = DaySeconds, !.try = 0])
        \/ Enter(a, "failed", NoCall)
    BY <1>6 DEF AdminNoReply
  <2>2. \E to, q : Enter(a, to, q) /\ Grows(call[a], q)
    BY <1>3, <1>4, <2>1
  <2> QED BY <1>2, <2>2
<1> QED BY <1>5, <1>6

LEMMA CallKeys == ASSUME CallsInv, NEW a \in Calls, AdminCall(a) PROVE KeysFound
<1>0. /\ at \in [Calls -> Places] /\ call \in [Calls -> CallLocals]
      /\ call[a] \in CallLocals /\ NoCall \in CallLocals
      /\ NoCall.keys = {} /\ NoCall.rows = {}
  BY CallType, NoCallType DEF CallsInv, NoCall
<1>1. ASSUME NEW q, q.keys \subseteq call[a].keys \cup LiveKeys, q.rows \in {call[a].rows, {}},
             \E to : \/ Enter(a, to, q)
                     \/ at' = [at EXCEPT ![a] = to] /\ call' = [call EXCEPT ![a] = q]
      PROVE  KeysFound
  <2>1. Grows(call[a], q)
    BY <1>1 DEF Grows
  <2> QED BY <1>1, <2>1, KeysMoved
<1>2. CASE Ask(a)
  <2>1. PICK ask \in Asked, ident \in Idents :
           call' = [call EXCEPT ![a] = [NoCall EXCEPT
                       !.kind = ask.kind, !.rule = ask.rule, !.ident = ident,
                       !.todo = RulesMeant(ask), !.left = Key]]
    BY <1>2 DEF Ask
  <2> DEFINE q == [NoCall EXCEPT !.kind = ask.kind, !.rule = ask.rule, !.ident = ident,
                                 !.todo = RulesMeant(ask), !.left = Key]
  <2>2. q.keys = {} /\ q.rows = {}
    BY <1>0 DEF CallLocals
  <2>3. \E to : at' = [at EXCEPT ![a] = to]
    BY <1>2 DEF Ask, Jump
  <2>4. call' = [call EXCEPT ![a] = q]
    BY <2>1
  <2> HIDE DEF q
  <2> QED BY <1>1, <2>2, <2>3, <2>4
<1>3. CASE NextRule(a) \/ ReadExpiry(a) \/ PickKey(a) \/ HGetReply(a) \/ TTLReply(a)
  <2>1. \E to : at' = [at EXCEPT ![a] = to]
    BY <1>0, <1>3 DEF NextRule, ReadExpiry, PickKey, HGetReply, TTLReply, GoOn, Jump
  <2>2. \E q : /\ q.keys = call[a].keys /\ q.rows = call[a].rows
               /\ call' = [call EXCEPT ![a] = q]
    <3>1. CASE NextRule(a)
      <4>1. \E l, k : call' = [call EXCEPT ![a] = [call[a] EXCEPT !.limit = l, !.try = 0, !.key = k]]
        BY <1>0, <3>1 DEF NextRule
      <4> QED BY <1>0, <4>1 DEF CallLocals
    <3>2. CASE ReadExpiry(a)
      <4>1. \E t : call' = [call EXCEPT ![a] = [call[a] EXCEPT !.ttl = t]]
        BY <1>0, <3>2 DEF ReadExpiry
      <4> QED BY <1>0, <4>1 DEF CallLocals
    <3>3. CASE PickKey(a)
      <4>1. \E k : call' = [call EXCEPT ![a] = [call[a] EXCEPT !.key = k]]
        BY <1>0, <3>3 DEF PickKey
      <4> QED BY <1>0, <4>1 DEF CallLocals
    <3>4. CASE HGetReply(a) \/ TTLReply(a)
      <4>1. \E v : \/ call' = [call EXCEPT ![a] = [call[a] EXCEPT !.try = 0, !.limit = v]]
                  \/ call' = [call EXCEPT ![a] = [call[a] EXCEPT !.try = 0, !.ttl = v]]
        BY <1>0, <3>4 DEF HGetReply, TTLReply, GoOn
      <4> QED BY <1>0, <4>1 DEF CallLocals
    <3> QED BY <1>3, <3>1, <3>2, <3>3, <3>4
  <2> QED BY <1>1, <2>1, <2>2
<1>4. CASE ScanBatch(a)
  <2>1. PICK slots, to, left, keys :
           /\ keys \in {Found(a, slots), call[a].keys \cup Found(a, slots)}
           /\ Enter(a, to, [call[a] EXCEPT !.left = left, !.keys = keys])
           /\ slots \in SUBSET call[a].left
    BY <1>4 DEF ScanBatch
  <2> DEFINE q == [call[a] EXCEPT !.left = left, !.keys = keys]
  <2>2. q.keys = keys /\ q.rows = call[a].rows
    BY <1>0 DEF CallLocals
  <2>3. Found(a, slots) \subseteq LiveKeys
    <3>1. slots \subseteq Key
      BY <1>0, <2>1 DEF CallLocals
    <3> QED BY <3>1 DEF Found, Live, KeysOf, LiveKeys
  <2>4. Enter(a, to, q)
    BY <2>1
  <2> HIDE DEF q
  <2>5. q.keys \subseteq call[a].keys \cup LiveKeys
    BY <2>1, <2>2, <2>3
  <2> QED BY <1>1, <2>2, <2>4, <2>5
<1>5. ASSUME Proceed(a) PROVE KeysFound
  <2>1. PICK to, todo : Enter(a, to, [call[a] EXCEPT !.todo = todo,
                                         !.keys = call[a].keys \ Written(a), !.try = 0])
    BY <1>5 DEF Proceed
  <2> DEFINE keys == call[a].keys \ Written(a)
             q == [call[a] EXCEPT !.todo = todo, !.keys = keys, !.try = 0]
  <2>2. q.keys = keys /\ q.rows = call[a].rows
    <3> HIDE DEF keys
    <3> QED BY <1>0 DEF CallLocals
  <2>3. Enter(a, to, q)
    BY <2>1
  <2>4. keys \subseteq call[a].keys \cup LiveKeys
    OBVIOUS
  <2> HIDE DEF q, keys
  <2> QED BY <1>1, <2>2, <2>3, <2>4
<1>6. CASE StatusReply(a) \/ ListReply(a)
  <2>1. Proceed(a) \/ \E to : Enter(a, to, NoCall)
    BY <1>6 DEF StatusReply, ListReply
  <2> QED BY <1>0, <1>1, <1>5, <2>1
<1>7. CASE WriteReply(a)
  BY <1>5, <1>7 DEF WriteReply
<1>8. CASE AdminLoseReply(a) \/ AdminLoseCall(a)
  BY <1>8, NoReplyKeys DEF AdminLoseReply, AdminLoseCall
<1>9. CASE ReadRow(a)
  <2>1. PICK k, to : LET keys == call[a].keys \ {k}
                        rows == call[a].rows \cup {Row(k, k[2], store[k], Limits)}
                    IN  Enter(a, to, [call[a] EXCEPT !.keys = keys, !.rows = rows])
    BY <1>9 DEF ReadRow
  <2> DEFINE keys == call[a].keys \ {k}
             row == Row(k, k[2], store[k], Limits)
             rows == call[a].rows \cup {row}
             q == [call[a] EXCEPT !.keys = keys, !.rows = rows]
  <2>2. Enter(a, to, q)
    BY <2>1
  <2>3. keys \subseteq call[a].keys
    OBVIOUS
  <2> HIDE DEF keys, row
  <2>4. q.keys = keys /\ q.rows = rows
    BY <1>0 DEF CallLocals
  <2> HIDE DEF q
  <2>5. Grows(call[a], q)
    BY <2>3, <2>4 DEF Grows
  <2> QED BY <2>2, <2>5, KeysMoved
<1> QED BY <1>2, <1>3, <1>4, <1>6, <1>7, <1>8, <1>9 DEF AdminCall

LEMMA FewInit == AdminInit => FewKeys
<1> SUFFICES ASSUME AdminInit PROVE FewKeys
  OBVIOUS
<1>1. \A k \in Key : ~store[k].live
  BY DEF AdminInit, Init, NoHash
<1>2. LiveKeys = {}
  BY <1>1 DEF LiveKeys
<1>3. \A a \in Calls : call[a].keys = {} /\ call[a].rows = {}
  BY DEF AdminInit, NoCall
<1> QED BY <1>2, <1>3, FS_EmptySet DEF FewKeys

LEMMA FewStep == AdminInv /\ FewKeys /\ [AdminNext]_allvars => FewKeys'
<1> SUFFICES ASSUME AdminInv, FewKeys, [AdminNext]_allvars PROVE FewKeys'
  OBVIOUS
<1>1. TypeInv /\ CallsInv
  BY DEF AdminInv
<1>2. ASSUME \E k : LiveKeys' \subseteq LiveKeys \cup {k}, KeysFound PROVE FewKeys'
  <2>1. IsFiniteSet(LiveKeys')
    <3>1. PICK k : LiveKeys' \subseteq LiveKeys \cup {k}
      BY <1>2
    <3>2. IsFiniteSet(LiveKeys \cup {k})
      BY FS_AddElement DEF FewKeys
    <3> QED BY <3>1, <3>2, FS_Subset
  <2>2. ASSUME NEW b \in Calls PROVE IsFiniteSet(call'[b].keys) /\ IsFiniteSet(call'[b].rows)
    <3>1. Grows(call[b], call'[b])
      BY <1>2 DEF KeysFound
    <3>2. IsFiniteSet(call[b].keys) /\ IsFiniteSet(call[b].rows) /\ IsFiniteSet(LiveKeys)
      BY DEF FewKeys
    <3>3. IsFiniteSet(KeysRead(call[b]))
      <4> DEFINE rows == call[b].rows
                 keys == {row.key : row \in rows}
      <4>1. [row \in rows |-> row.key] \in Surjection(rows, keys)
        BY DEF Surjection
      <4>2. IsFiniteSet(keys)
        BY <3>2, <4>1, FS_Surjection
      <4> QED BY <4>2 DEF KeysRead
    <3>4. IsFiniteSet(call[b].keys \cup LiveKeys)
      BY <3>2, FS_Union
    <3>5. IsFiniteSet(call[b].keys \cup LiveKeys \cup KeysRead(call[b]))
      BY <3>3, <3>4, FS_Union
    <3>6. PICK x : call'[b].rows \subseteq call[b].rows \cup {x}
      BY <3>1 DEF Grows
    <3>7. IsFiniteSet(call[b].rows \cup {x})
      BY <3>2, FS_AddElement
    <3>8. call'[b].keys \subseteq call[b].keys \cup LiveKeys \cup KeysRead(call[b])
      BY <3>1 DEF Grows
    <3>9. IsFiniteSet(call'[b].keys)
      BY <3>5, <3>8, FS_Subset
    <3>10. IsFiniteSet(call'[b].rows)
      BY <3>6, <3>7, FS_Subset
    <3> QED BY <3>9, <3>10
  <2> QED BY <2>1, <2>2 DEF FewKeys
<1>3. ASSUME call' = call PROVE KeysFound
  BY <1>3 DEF KeysFound, Grows
<1>4. CASE /\ (\E r \in Reqs : Handler(r)) \/ Advance
           /\ UNCHANGED <<at, call>>
           /\ Track
  <2>1. [Next]_vars /\ call' = call
    BY <1>4 DEF Next
  <2> QED BY <1>1, <1>2, <1>3, <2>1, OneComesAlive
<1>5. ASSUME NEW a \in Calls, AdminCall(a) PROVE FewKeys'
  <2>1. KeysFound
    BY <1>1, <1>5, CallKeys
  <2>2. WriteExecuted(a) \/ UNCHANGED vars
    BY <1>5 DEF AdminCall, Ask, NextRule, ReadExpiry, ScanBatch, PickKey, HGetReply, TTLReply,
                GoOn, WriteReply, StatusReply, ReadRow, ListReply, AdminLoseReply, AdminLoseCall,
                ReadsOnly
  <2>3. \E k : LiveKeys' \subseteq LiveKeys \cup {k}
    BY <1>1, <2>2, WriteComesAlive, OneComesAlive
  <2> QED BY <1>2, <2>1, <2>3
<1>6. CASE AdminCrash
  <2>1. [Next]_vars
    BY <1>6 DEF AdminCrash, Next
  <2>2. KeysFound
    <3>1. NoCall.keys = {} /\ NoCall.rows = {}
      BY DEF NoCall
    <3>2. \A b \in Calls : call'[b] \in {call[b], NoCall}
      BY <1>6 DEF AdminCrash
    <3> QED BY <3>1, <3>2 DEF KeysFound, Grows
  <2> QED BY <1>1, <1>2, <2>1, <2>2, OneComesAlive
<1>7. CASE AdminFinished \/ UNCHANGED allvars
  <2>1. [Next]_vars /\ call' = call
    BY <1>7 DEF AdminFinished, Finished, allvars, admin
  <2> QED BY <1>1, <1>2, <1>3, <2>1, OneComesAlive
<1> QED BY <1>4, <1>5, <1>6, <1>7 DEF AdminNext

LEMMA ListedFew ==
    ASSUME AdminInv, FewKeys, NEW a \in Calls
    PROVE  IsFiniteSet(ListedRows(a)) /\ \A x \in ListedRows(a) : IsRow(x)
<1>1. IsFiniteSet(call[a].rows) /\ call[a].rows \subseteq Listed
  BY CallType DEF AdminInv, FewKeys, CallLocals
<1>2. ListedRows(a) \subseteq call[a].rows
  BY DEF ListedRows
<1>3. \A x \in Listed : IsRow(x)
  BY DEF Listed, IsRow, Ranked
<1> QED BY <1>1, <1>2, <1>3, FS_Subset

-------------------------------------------------------------------------------
(* The theorems.                                                           *)

LEMMA AdminInvariant == AdminSpec => []AdminInv
BY AdminInvInit, AdminInvStep, PTL DEF AdminSpec

(* The variables have their types whatever is asked, and a call has what   *)
(* its next step takes: a rule, a key or keys, a time to live that EXPIRE  *)
(* does not take for a deletion and, where Reject's count comes from a     *)
(* hash, a count of at least one; no call makes more tries than it may.    *)
THEOREM AdminTypeCorrect == AdminSpec => []AdminTypeOK
<1>1. AdminInv => AdminTypeOK
  BY DEF AdminInv, TypeInv, TypeOK, CallsInv, Fitting, Histories, AdminTypeOK, CallLocals, Places,
         Todos, Names
<1> QED BY <1>1, AdminInvariant, PTL

(* A rejection stands: no settlement of a request in flight takes back the *)
(* count an operator gave a key, and no other rule's request on the key.   *)
THEOREM RejectionLasts == AdminSpec => []RejectionStands
<1>1. AdminInv => RejectionStands
  BY DEF AdminInv, KeyInv, RejectionStands
<1> QED BY <1>1, AdminInvariant, PTL

(* Whatever operators reset and reject beside the requests, and whatever   *)
(* fails, only a settlement on a key without a seat there can let          *)
(* successes above the limit.                                              *)
THEOREM BoundedWithOperators ==
    ASSUME EveryRuleCounts
    PROVE  AdminSpec => []OvershootBounded
<1>1. AdminInit => OvershootInv
  BY OvershootInit
<1>2. OvershootInv /\ [AdminNext]_allvars => OvershootInv'
  BY OvershootStep
<1>3. OvershootInv => OvershootBounded
  BY DEF OvershootInv, Bounds, Within, OvershootBounded
<1> QED BY <1>1, <1>2, <1>3, PTL DEF AdminSpec

(* The status of a rule agrees with what its next request would meet: the  *)
(* rule admits exactly when more is shown to remain than to be pending.    *)
THEOREM StatusTells == AdminSpec => []StatusMatchesAdmission
<1>1. AdminInv => StatusMatchesAdmission
  <2> SUFFICES ASSUME AdminInv, NEW k \in Key, NEW rule \in SharedBy(k)
               PROVE  LET shown == Status(rule, Limit(rule), store[k])
                      IN  Granted(store[k], Limit(rule)) <=> shown.remaining > shown.pending
    BY DEF StatusMatchesAdmission
  <2> DEFINE h == store[k]
             limit == Limit(rule)
             shown == Status(rule, limit, h)
  <2>1. h.success \in Int /\ h.pending \in Nat /\ limit \in Int
    BY CountersType, RuleType DEF AdminInv, TypeInv, Typed, SharedBy
  <2>2. shown.remaining = Remaining(limit, h.success) /\ shown.pending = h.pending
    BY DEF Status
  <2> HIDE DEF h, limit, shown
  <2>3. Granted(h, limit) <=> shown.remaining > shown.pending
    BY <2>1, <2>2 DEF Granted, Remaining
  <2> QED BY <2>3 DEF h, limit, shown
<1> QED BY <1>1, AdminInvariant, PTL

(* Beside operators too pending misses no seat but those that settlements  *)
(* without one took, and no path of a request forgets its seat: a reset    *)
(* or a rejection takes the seats it finds, and leaves no other behind.    *)
THEOREM SeatsBesideOperators == AdminSpec => [](SeatsCounted /\ NoForgottenSeat)
<1>1. SeatsStay => SeatsCounted /\ NoForgottenSeat
  <2>1. SeatsStay => SeatsCounted
    BY DEF SeatsStay, AllCovered, Covered, SeatsCounted
  <2>2. SeatsStay => NoForgottenSeat
    BY DEF SeatsStay, Remembered, Remembers, NoForgottenSeat, Final
  <2> QED BY <2>1, <2>2
<1> QED BY <1>1, SeatsStayInit, SeatsStayStep, PTL DEF AdminSpec

(* The pages of a listing are its rows, each once and in order, whatever   *)
(* became of the keys since the scan.                                      *)
THEOREM ListingInPages == AdminSpec => []PagesPartition
<1>1. AdminInv /\ FewKeys => PagesPartition
  <2> SUFFICES ASSUME AdminInv, FewKeys, NEW a \in Calls
               PROVE  /\ SortedRows(ListedRows(a), Rank) # {}
                      /\ \A rows \in SortedRows(ListedRows(a), Rank) :
                            /\ \A i, j \in 1..Len(rows) :
                                  i < j => rows[i].remaining <= rows[j].remaining
                            /\ \A size \in 1..3 :
                                  /\ Len(rows) * size <= MaxInt =>
                                        FlattenSeq([page \in 1..(Len(rows) + 1) |->
                                                       PageOf(rows, page, size)]) = rows
                                  /\ \A page \in 1..(MaxInt + 1) : (page - 1) * size <= MaxInt =>
                                        /\ ~Panics(page, size)
                                        /\ Len(rows) <= (page - 1) * size =>
                                              PageOf(rows, page, size) = <<>>
    BY DEF PagesPartition
  <2> DEFINE all == ListedRows(a)
  <2>1. IsFiniteSet(all) /\ \A x \in all : IsRow(x)
    BY ListedFew
  <2> HIDE DEF all
  <2>2. /\ SortedRows(all, Rank) # {}
        /\ \A rows \in SortedRows(all, Rank) :
              /\ rows \in Seq(all)
              /\ \A i, j \in 1..Len(rows) : i < j => rows[i].remaining <= rows[j].remaining
    BY <2>1, RowsSorted
  <2>3. ASSUME NEW rows \in Seq(all), NEW size \in 1..3, Len(rows) * size <= MaxInt
        PROVE  FlattenSeq([page \in 1..(Len(rows) + 1) |-> PageOf(rows, page, size)]) = rows
    <3>1. size \in 1..200
      OBVIOUS
    <3> QED BY <2>3, <3>1, PagesJoin
  <2>4. ASSUME NEW rows \in Seq(all), NEW size \in 1..3, NEW page \in 1..(MaxInt + 1),
               (page - 1) * size <= MaxInt
        PROVE  /\ ~Panics(page, size)
               /\ Len(rows) <= (page - 1) * size => PageOf(rows, page, size) = <<>>
    <3>1. size \in 1..200 /\ page \in Nat \ {0}
      BY MaxIntAssumption
    <3> QED BY <2>4, <3>1, PageBeyond
  <2> QED BY <2>2, <2>3, <2>4 DEF all
<1>2. AdminInit => AdminInv /\ FewKeys
  BY AdminInvInit, FewInit
<1>3. AdminInv /\ FewKeys /\ [AdminNext]_allvars => AdminInv' /\ FewKeys'
  BY AdminInvStep, FewStep
<1> QED BY <1>1, <1>2, <1>3, PTL DEF AdminSpec

(* Only a settlement that had no seat at the key leaves a key for ever. *)
THEOREM StraysOnlyStay == AdminSpec => []OnlyStraysNeverExpire
<1>1. AdminInv => OnlyStraysNeverExpire
  BY DEF AdminInv, KeyInv, Kept, OnlyStraysNeverExpire
<1> QED BY <1>1, AdminInvariant, PTL

(* A scan that is over has every key of the identity that was there from   *)
(* the call's arrival on, whatever batches Redis answered and whatever     *)
(* expired, was reset or came meanwhile.                                   *)
THEOREM ScanComplete == AdminSpec => ScanMissesNothing
<1> DEFINE Complete(a) == (at[a] = "scan" /\ at'[a] \notin {"scan", "failed"})
                             => must[a] \subseteq call'[a].keys
<1>1. ASSUME AdminInv, [AdminNext]_allvars, NEW a \in Calls PROVE Complete(a)
  <2> SUFFICES ASSUME at[a] = "scan", at'[a] \notin {"scan", "failed"}
               PROVE  must[a] \subseteq call'[a].keys
    OBVIOUS
  <2>1. CallsInv /\ ScanInv
    BY <1>1 DEF AdminInv
  <2>2. CASE ScanBatch(a)
    <3>1. PICK slots \in SUBSET call[a].left :
             LET left == call[a].left \ slots
                 keys == call[a].keys \cup Found(a, slots)
             IN  Enter(a, IF left = {} THEN AfterScan(a, keys) ELSE "scan",
                          [call[a] EXCEPT !.left = left, !.keys = keys])
      BY <2>2 DEF ScanBatch
    <3> DEFINE left == call[a].left \ slots
               keys == call[a].keys \cup Found(a, slots)
               q == [call[a] EXCEPT !.left = left, !.keys = keys]
               to == IF left = {} THEN AfterScan(a, keys) ELSE "scan"
    <3>2. call[a] \in CallLocals
      BY <2>1, CallType
    <3>3. q.keys = keys
      BY <3>2 DEF CallLocals
    <3>4. at'[a] = to /\ (to \notin Answered => call'[a] = q)
      <4>1. Enter(a, to, q)
        BY <3>1
      <4> HIDE DEF q, to
      <4> QED BY <2>1, <4>1, EnterOnly
    <3>5. left = {}
      BY <3>4
    <3>6. must[a] \subseteq keys
      <4> SUFFICES ASSUME NEW k \in must[a] PROVE k \in keys
        OBVIOUS
      <4>1. store[k].live /\ k \in KeysOf(call[a].ident) /\ k \in call[a].left \cup call[a].keys
        BY <2>1 DEF ScanInv
      <4> QED BY <3>5, <4>1 DEF Found, Live
    <3>7. CASE to \in Answered
      <4>1. to = AfterScan(a, keys)
        BY <3>5
      <4>2. keys = {}
        <5> SUFFICES ASSUME keys # {} PROVE FALSE
          OBVIOUS
        <5>1. call[a].kind \in Kinds
          BY <2>1, CallType DEF Busy, OnRedis
        <5> HIDE DEF keys, left
        <5> QED BY <3>7, <4>1, <5>1 DEF AfterScan, Kinds, Answered
      <4> QED BY <3>6, <4>2
    <3>8. CASE to \notin Answered
      <4> HIDE DEF keys, to, q
      <4> QED BY <3>3, <3>4, <3>6, <3>8
    <3> QED BY <3>7, <3>8
  <2>3. CASE AdminLoseCall(a)
    <3>1. CASE call[a].try < MaxRetries
      <4>1. PICK q : Enter(a, at[a], q)
        BY <2>3, <3>1 DEF AdminLoseCall, AdminNoReply
      <4> QED BY <2>1, <4>1, EnterOnly
    <3>2. CASE ~(call[a].try < MaxRetries)
      <4>1. PICK q : Enter(a, "failed", q)
        BY <2>3, <3>2 DEF AdminLoseCall, AdminNoReply
      <4> QED BY <2>1, <4>1, EnterOnly
    <3> QED BY <3>1, <3>2
  <2>4. CASE at'[a] = at[a]
    BY <2>4
  <2>5. ASSUME NEW b \in Calls, AdminCall(b), b # a PROVE at'[a] = at[a]
    <3>1. \E to : at' = [at EXCEPT ![b] = to]
      <4>1. at \in [Calls -> Places]
        BY <2>1 DEF CallsInv
      <4> QED BY <2>5, <4>1 DEF AdminCall, Ask, NextRule, ReadExpiry, ScanBatch, PickKey,
                 HGetReply, TTLReply, GoOn, Jump, WriteReply, Proceed, StatusReply, ReadRow,
                 ListReply, AdminLoseReply, AdminLoseCall, AdminNoReply, Enter
    <3> QED BY <2>1, <2>5, <3>1 DEF CallsInv
  <2>6. CASE AdminCall(a)
    <3>1. ScanBatch(a) \/ AdminLoseCall(a)
      BY <2>6 DEF AdminCall, Ask, NextRule, ReadExpiry, PickKey, HGetReply, TTLReply, GoOn,
                  Jump, WriteReply, WriteExecuted, StatusReply, ReadRow, ListReply, AdminLoseReply
    <3> QED BY <2>2, <2>3, <3>1
  <2>7. CASE AdminCrash
    <3>1. at'[a] = "failed"
      BY <2>7 DEF AdminCrash, Busy, OnRedis
    <3> QED BY <3>1
  <2>8. CASE UNCHANGED at
    BY <2>4, <2>8
  <2> QED BY <1>1, <2>4, <2>5, <2>6, <2>7, <2>8 DEF AdminNext, AdminFinished, allvars, admin
<1>2. AdminInv /\ [AdminNext]_allvars => [\A a \in Calls : Complete(a)]_allvars
  BY <1>1
<1> QED BY <1>2, AdminInvariant, PTL DEF AdminSpec, ScanMissesNothing

===============================================================================
