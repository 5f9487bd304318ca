------------------------------- MODULE AdminQuota ------------------------------
(***************************************************************************)
(* The operators' calls on quotas (admin.go: GetQuota, ListQuotas,         *)
(* ResetQuota, RejectQuota) beside the requests of QuotaProxy.             *)
(*                                                                         *)
(* A call makes one or more Redis calls: rule by rule, or, where no rule   *)
(* is meant or known, by a SCAN of the keys and a call for what it found.  *)
(* Each clock reading and each Redis call is a step of its own.            *)
(***************************************************************************)
EXTENDS QuotaProxy, QuotaStatus

CONSTANTS
    Calls,      \* the operators' HTTP calls (one goroutine each)
    Asked,      \* what they may ask: a kind, and a rule name or ""
    RuleOrder,  \* the rules as configured, in order
    Rank        \* identities and rule names, in the order of their strings

Kinds == {"status", "list", "reset", "reject"}

ASSUME AdminAssumption ==
    /\ Asked \subseteq [kind : Kinds, rule : STRING]
    /\ RuleOrder \in Seq(Rules) /\ RuleOrder # <<>> /\ ToSet(RuleOrder) = Rules
    /\ Rank \in [Idents \cup Rules \cup {""} -> Nat]

VARIABLES
    at,     \* where each call is
    call,   \* the locals of each call
    bar,    \* history: the count an operator last put under each key
    must    \* history: of a call that scans, the keys it has to find: those of its
            \* identity that have been live ever since it came

admin == <<at, call, bar, must>>
allvars == <<vars, admin>>

NoCall == [kind |-> "", rule |-> "", ident |-> NoKey, todo |-> <<>>,
           left |-> {}, keys |-> {}, rows |-> {}, key |-> NoKey, limit |-> 0,
           ttl |-> 1, try |-> 0]

OnRedis == {"scan", "delete", "hget", "httl", "reset", "reject", "get", "read"}
Busy == {"rule", "expiry", "listed"} \cup OnRedis
Answered == {"ok", "failed"}

AdminInit ==
    /\ Init
    /\ at = [a \in Calls |-> "idle"]
    /\ call = [a \in Calls |-> NoCall]
    /\ bar = [k \in Key |-> 0]
    /\ must = [a \in Calls |-> {}]

KeysOf(ident) == {k \in Key : k[2] = ident}
Live(keys) == {k \in keys : store[k].live}

(* The history of a step: what a scan has to find, and what stays barred. *)
StillLive == must' = [a \in Calls |-> IF at'[a] = "scan" THEN {k \in must[a] : store'[k].live}
                                                         ELSE {}]

Track ==
    /\ StillLive
    /\ bar' = [k \in Key |-> IF store'[k].live THEN bar[k] ELSE 0]

ReadsOnly == UNCHANGED <<vars, bar>> /\ StillLive

Jump(a, from, to) == at[a] = from /\ at' = [at EXCEPT ![a] = to]

(* An answered call has no locals. *)
Enter(a, to, locals) ==
    /\ at' = [at EXCEPT ![a] = to]
    /\ call' = [call EXCEPT ![a] = IF to \in Answered THEN NoCall ELSE locals]

-------------------------------------------------------------------------------
(* A call comes in.  The rule named, or else all of them, one by one; a    *)
(* reset of all, a reject of an unknown name and a listing scan the keys.  *)
RulesMeant(ask) ==
    IF ask.kind = "list" THEN <<>>
    ELSE IF ask.rule \in Rules THEN <<ask.rule>>
    ELSE IF ask.rule = "" /\ ask.kind \in {"status", "reject"} THEN RuleOrder
    ELSE <<>>

Ask(a) ==
    /\ at[a] = "idle"
    /\ \E ask \in Asked, ident \in Idents :
          /\ call' = [call EXCEPT ![a] = [NoCall EXCEPT
                         !.kind = ask.kind, !.rule = ask.rule, !.ident = ident,
                         !.todo = RulesMeant(ask), !.left = Key]]
          /\ must' = [must EXCEPT ![a] = Live(KeysOf(ident))]
          /\ Jump(a, "idle", IF RulesMeant(ask) = <<>> THEN "scan" ELSE "rule")
    /\ UNCHANGED <<vars, bar>>

(* The key of the next rule, from the clock. *)
NextRule(a) ==
    /\ at[a] = "rule"
    /\ LET rule == Head(call[a].todo) IN
           call' = [call EXCEPT ![a].limit = Limit(rule), ![a].try = 0, ![a].key =
                       BuildKey(PeriodKey(RuleConf[rule], now), call[a].ident)]
    /\ Jump(a, "rule", CASE call[a].kind = "reject" -> "expiry"
                         [] call[a].kind = "reset"  -> "reset"
                         [] call[a].kind = "status" -> "get")
    /\ ReadsOnly

(* rejectByRule reads the clock again for the expiry. *)
ReadExpiry(a) ==
    /\ Jump(a, "expiry", "reject")
    /\ call' = [call EXCEPT ![a].ttl = PeriodTTL(RuleConf[Head(call[a].todo)], now)]
    /\ ReadsOnly

-------------------------------------------------------------------------------
(* SCAN answers in batches: some of the slots not visited yet, and of the  *)
(* keys in them those that are live at that time and the identity's own;   *)
(* the listing takes every identity's.                                     *)
Found(a, slots) ==
    Live(IF call[a].kind = "list" THEN slots ELSE slots \cap KeysOf(call[a].ident))

AfterScan(a, keys) ==
    IF keys = {} THEN IF call[a].kind = "status" THEN "failed" ELSE "ok"
    ELSE CASE call[a].kind = "reset"  -> "delete"
           [] call[a].kind = "reject" -> "hget"
           [] call[a].kind = "status" -> "get"
           [] call[a].kind = "list"   -> "read"

ScanBatch_Forgets(a) ==
    /\ at[a] = "scan"
    /\ \E slots \in SUBSET call[a].left \ {{}} :
          LET left == call[a].left \ slots
              keys == Found(a, slots)
          IN  Enter(a, IF left = {} THEN AfterScan(a, keys) ELSE "scan",
                       [call[a] EXCEPT !.left = left, !.keys = keys])
    /\ ReadsOnly

ScanBatch(a) ==
    /\ at[a] = "scan"
    /\ \E slots \in SUBSET call[a].left \ {{}} :
          LET left == call[a].left \ slots
              keys == call[a].keys \cup Found(a, slots)
          IN  Enter(a, IF left = {} THEN AfterScan(a, keys) ELSE "scan",
                       [call[a] EXCEPT !.left = left, !.keys = keys])
    /\ ReadsOnly

(* rejectByIdentity, for each key found: its limit and its time to live,   *)
(* and defaults where Redis has none.  TTL answers the nearest second.     *)
GoOn(a, from, to, field, value) ==
    /\ Jump(a, from, to)
    /\ call' = [call EXCEPT ![a] = [@ EXCEPT !.try = 0, ![field] = value]]
    /\ ReadsOnly

DaySeconds == 86400

LimitFound(h) == IF h.limit <= 0 THEN 1 ELSE h.limit

TimeToLive_Raw(h) == (2 * (h.expireAt - now) + Second) \div (2 * Second)

TimeToLive(h) ==
    LET left == (2 * (h.expireAt - now) + Second) \div (2 * Second)
    IN  IF ~h.live \/ h.expireAt = NoExpiry \/ left <= 0 THEN DaySeconds ELSE left

PickKey(a) ==
    /\ at[a] = "hget"
    /\ call[a].key \notin call[a].keys
    /\ \E k \in call[a].keys : call' = [call EXCEPT ![a].key = k]
    /\ UNCHANGED at
    /\ ReadsOnly

HGetReply(a) ==
    /\ call[a].key \in call[a].keys
    /\ GoOn(a, "hget", "httl", "limit", LimitFound(store[call[a].key]))

TTLReply(a) == GoOn(a, "httl", "reject", "ttl", TimeToLive(store[call[a].key]))

-------------------------------------------------------------------------------
(* Writes.  The requests a key seated are forgotten with its counts. *)
Written(a) ==
    IF at[a] = "delete" THEN call[a].keys ELSE {call[a].key}

AfterWrite(a, h) ==
    IF at[a] = "reject" THEN RejectScript(h, call[a].limit, now + call[a].ttl * Second)
                        ELSE ResetScript(h)

WriteExecuted(a) ==
    /\ at[a] \in {"reset", "reject", "delete"}
    /\ store' = [k \in Key |-> IF k \in Written(a) THEN AfterWrite(a, store[k]) ELSE store[k]]
    /\ held'  = [k \in Key |-> IF k \in Written(a) THEN {} ELSE held[k]]
    /\ stray' = [k \in Key |-> IF k \in Written(a) THEN 0 ELSE stray[k]]
    /\ bar'   = [k \in Key |-> IF k \notin Written(a) THEN bar[k]
                               ELSE IF at[a] = "reject" THEN call[a].limit ELSE 0]
    /\ UNCHANGED <<now, pc, req>>

(* The next rule, the next key, or the answer. *)
Proceed(a) ==
    LET todo == IF call[a].todo = <<>> THEN <<>> ELSE Tail(call[a].todo)
        keys == call[a].keys \ Written(a)
    IN  Enter(a, IF todo # <<>> THEN "rule" ELSE IF keys # {} THEN "hget" ELSE "ok",
              [call[a] EXCEPT !.todo = todo, !.keys = keys, !.try = 0])

WriteReply(a) == WriteExecuted(a) /\ Proceed(a) /\ StillLive

(* The status of a rule; or, for a name no rule has, the first key found,  *)
(* shown only if its hash has that name.                                   *)
StatusReply(a) ==
    /\ at[a] = "get"
    /\ IF call[a].keys = {} THEN Proceed(a)
       ELSE \E k \in call[a].keys :
               Enter(a, IF store[k].rule = call[a].rule THEN "ok" ELSE "failed", NoCall)
    /\ ReadsOnly

(* ListActiveStatuses reads the keys it scanned in pipelines of up to 200  *)
(* commands.  A pipeline is no transaction: others' calls come between.    *)
Limits == [rule \in Rules |-> Limit(rule)]

ReadRow(a) ==
    /\ at[a] = "read"
    /\ \E k \in call[a].keys :
          LET keys == call[a].keys \ {k}
              rows == call[a].rows \cup {Row(k, k[2], store[k], Limits)}
          IN  Enter(a, IF keys = {} THEN "listed" ELSE "read",
                       [call[a] EXCEPT !.keys = keys, !.rows = rows])
    /\ ReadsOnly

(* Of those rows, the ones whose rule passes the filter. *)
ListedRows(a) == {row \in call[a].rows : call[a].rule = "" \/ row.rule = call[a].rule}

ListReply(a) ==
    /\ at[a] = "listed"
    /\ Enter(a, "ok", NoCall)
    /\ ReadsOnly

-------------------------------------------------------------------------------
(* A Redis call of an operator's call fails, after the client's retries.   *)
(* rejectByIdentity takes the defaults when HGET or TTL fails; a pipeline  *)
(* is sent again as a whole.                                               *)
AdminNoReply(a) ==
    IF call[a].try < MaxRetries
    THEN Enter(a, at[a], [call[a] EXCEPT !.try = @ + 1, !.rows = {},
                              !.keys = @ \cup {row.key : row \in call[a].rows}])
    ELSE CASE at[a] = "hget" -> Enter(a, "httl", [call[a] EXCEPT !.limit = 1, !.try = 0])
           [] at[a] = "httl" -> Enter(a, "reject", [call[a] EXCEPT !.ttl = DaySeconds, !.try = 0])
           [] OTHER -> Enter(a, "failed", NoCall)

AdminLoseReply(a) ==
    "lose" \in Faults /\ WriteExecuted(a) /\ AdminNoReply(a) /\ StillLive

AdminLoseCall(a) ==
    /\ "drop" \in Faults
    /\ at[a] \in OnRedis
    /\ at[a] = "hget" => call[a].key \in call[a].keys
    /\ AdminNoReply(a)
    /\ ReadsOnly

(* A crash ends the operators' calls with the requests. *)
AdminCrash ==
    /\ at' = [a \in Calls |-> IF at[a] \in Busy THEN "failed" ELSE at[a]]
    /\ call' = [a \in Calls |-> IF at[a] \in Busy THEN NoCall ELSE call[a]]
    /\ \/ Crash
       \/ /\ "crash" \in Faults
          /\ \A r \in Reqs : pc[r] \notin InFlight
          /\ \E a \in Calls : at[a] \in Busy
          /\ UNCHANGED vars
    /\ UNCHANGED bar
    /\ StillLive

AdminCall(a) ==
    \/ Ask(a) \/ NextRule(a) \/ ReadExpiry(a)
    \/ ScanBatch(a) \/ PickKey(a) \/ HGetReply(a) \/ TTLReply(a)
    \/ WriteReply(a) \/ StatusReply(a) \/ ReadRow(a) \/ ListReply(a)
    \/ AdminLoseReply(a) \/ AdminLoseCall(a)

AdminFinished ==
    /\ Finished
    /\ \A a \in Calls : at[a] \in Answered
    /\ UNCHANGED admin

AdminNext ==
    \/ /\ (\E r \in Reqs : Handler(r)) \/ Advance
       /\ UNCHANGED <<at, call>>
       /\ Track
    \/ \E a \in Calls : AdminCall(a)
    \/ AdminCrash
    \/ AdminFinished

AdminSpec == AdminInit /\ [][AdminNext]_allvars

-------------------------------------------------------------------------------
(* Properties.                                                             *)

(* The locals of a call, and what its next step takes of them. *)
Listed == [key : Key, ident : Idents, rule : Rules \cup {""}, limit : Int, success : Int,
           pending : Nat, rejected : Nat, remaining : Int]

Todos == {<<>>} \cup Suffixes(RuleOrder) \cup {<<rule>> : rule \in Rules}
Names == {ask.rule : ask \in Asked} \cup {""}

CallLocals == [kind : Kinds \cup {""}, rule : Names, ident : Idents \cup {NoKey}, todo : Todos,
               left : SUBSET Key, keys : SUBSET Key, rows : SUBSET Listed,
               key : Key \cup {NoKey}, limit : Int, ttl : Nat \ {0}, try : 0..MaxRetries]

WorksOn(place, q) ==
    /\ place \in {"rule", "expiry"} => q.todo # <<>>
    /\ place \in {"expiry", "httl", "reset", "reject"} => q.key \in Key
    /\ place \in {"delete", "hget", "read"} => q.keys # {}
    /\ place = "get" => q.key \in Key \/ q.keys # {}
    /\ place \in {"httl", "reject"} /\ q.todo = <<>> => q.limit >= 1

(* Every variable has its type, and a call has what its next step takes:   *)
(* a rule; a key, or keys to choose one from; a time that EXPIRE does not  *)
(* take for a deletion; and, where Reject's count comes from a hash, a     *)
(* count of at least one.                                                  *)
AdminTypeOK ==
    /\ TypeOK
    /\ at \in [Calls -> {"idle"} \cup Busy \cup Answered]
    /\ call \in [Calls -> CallLocals]
    /\ \A a \in Calls : WorksOn(at[a], call[a])
    /\ bar \in [Key -> Int]
    /\ must \in [Calls -> SUBSET Key]

(* A key an operator rejected stays at the count the operator gave it, or  *)
(* above, until it expires or is reset or rejected again: whatever the     *)
(* requests in flight at that time settle, no request is let in that this  *)
(* count excludes.                                                         *)
RejectionStands ==
    \A k \in Key : bar[k] > 0 => store[k].success >= bar[k]

(* When a scan is over, it has found every key of the identity that was    *)
(* there from the call's arrival on, whatever came and went meanwhile: a   *)
(* reset of all leaves no such key, a listing omits none.                  *)
ScanMissesNothing ==
    [][\A a \in Calls :
          (at[a] = "scan" /\ at'[a] \notin {"scan", "failed"})
             => must[a] \subseteq call'[a].keys]_allvars

(* A key without expiry, which stays for ever, is the work of a settlement *)
(* that had no seat at it: of a Confirm after a reset, after a change of   *)
(* the window, or after its key expired in the window's last second.       *)
OnlyStraysNeverExpire ==
    \A k \in Key : store[k].live /\ store[k].expireAt = NoExpiry => stray[k] > 0

(* What an operator is shown agrees with what a request would meet: the    *)
(* rule admits exactly when more remains than is pending, whatever limit   *)
(* the hash has kept from a rejection.                                     *)
StatusMatchesAdmission ==
    \A k \in Key : \A rule \in SharedBy(k) :
        LET shown == Status(rule, Limit(rule), store[k])
        IN  Granted(store[k], Limit(rule)) <=> shown.remaining > shown.pending

(* The pages of a listing, one after another, are its rows: each once, in  *)
(* the order of what remains; whatever expired between scan and reading.   *)
(* As long as the row to start after fits in an int, there is such a page, *)
(* and it is empty beyond the last row.                                    *)
PagesPartition ==
    \A a \in Calls : at[a] = "listed" =>
        LET listings == SortedRows(ListedRows(a), Rank)
        IN  /\ listings # {}
            /\ \A rows \in listings :
                  /\ \A i, j \in 1..Len(rows) : i < j => rows[i].remaining <= rows[j].remaining
                  /\ \A size \in 1..3 :
                        /\ Len(rows) * size <= MaxInt =>
                              FlattenSeq([page \in 1..(Len(rows) + 1) |->
                                             PageOf(rows, page, size)]) = rows
                        /\ \A page \in 1..(MaxInt + 1) : (page - 1) * size <= MaxInt =>
                              /\ ~Panics(page, size)
                              /\ Len(rows) <= (page - 1) * size => PageOf(rows, page, size) = <<>>

===============================================================================
