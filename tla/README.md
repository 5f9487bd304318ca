# quota-proxy in TLA+

quota-proxy is a reverse proxy that lets each client identity have a limited
number of *successful* requests per time window. This directory holds TLA+
models of it, TLC configurations that check them, and TLAPS proofs. Line
numbers refer to the repository at the commit these files were written for;
`PROJECT.json` gives, for every definition, the lines it models.

## 1. The system

| Component | State | Operations | Hard behaviour |
|---|---|---|---|
| Redis scripts (`app/quota/lua_scripts.go`) | a hash per key: `success`, `pending`, `rejected_429`, `limit`, `rule_name`, expiry | TryReserve, Confirm, Rollback, GetQuota, Reject, Reset; each atomic | not idempotent; act on keys that have expired or were never created |
| Window arithmetic (`app/quota/manager.go` 111-180) | none | window start and end, key name, expiry | timezones, summer time, whole seconds |
| Quota enforcement (`app/middleware/quota.go`, `manager.go` 183-223) | locals of each request goroutine | reserve, forward, settle | concurrency, window changes between steps, lost replies and resends, crashes |
| Admin operations on quotas (`manager.go` 226-603, `app/handler/admin.go`) | none | Reset, Reject, status, listing | several Redis calls per operation, requests in flight |
| Reverse proxy and SSE (`app/proxy/reverse_proxy.go`) | stream position, frame buffer | Do, ReadResponse, StreamSSE | no timeout on bodies and streams; success at the first event |
| Runtime reload (`app/middleware/runtime_store.go`) | current runtime, mutex, old clients about to close | Reload, Handler | swap while requests are in flight; failure half-way |
| Configuration (`app/config/config.go`) | the file, a global pointer | Load, Validate, Save | file written in place; unsynchronised global |
| Rule matching (`quota.go` 44-112, 398-683) | compiled rules; per request, the canonical forms computed so far | matchRule | order of rules, excludes, a body that is read, parsed and put back |
| Identity extraction (`app/identity/identifier.go`) | none | Identify | normalisation, fallbacks, joined parts |
| Success judgement (`app/success/judge.go`) | none | IsSuccess | numbers in JSON |
| Server start and shutdown (`bin/serve.go`) | – | StartServer | exits when it cannot start; shutdown does not wait for streams |
| Admin authentication, logging, web page | – | – | – |

The path of a request: `Handler` finds the rule and the identity; `TryReserve`
asks Redis for a seat (`pending` + 1, if `success + pending < limit`); the
request goes upstream; a success turns the seat into a success (`Confirm`), a
failure gives it back (`Rollback`). On an SSE stream the success is the first
event written to the client. Proxy processes share nothing but Redis.

What makes each component correct:

- *enforcement*: successes do not exceed the limit; no seat is invented, lost or
  forgotten; nobody is refused while there is room; every seat is given back;
- *windows*: an instant lies in the window computed for it; windows follow one
  another, have different names, and expire when they end;
- *admin operations*: a reject stands whatever is in flight; a scan misses no
  key; what is shown is what requests meet;
- *matching and identity*: the rule is the one the configuration means, whatever
  was read and cached on the way; different subjects do not count together; the
  body arrives upstream whole;
- *streams and answers*: a seat is settled once, as a success only if an event
  reached the client; the client gets one answer;
- *configuration and reload*: only a usable configuration comes into force;
  every replaced client is closed, and not under requests shorter than the delay.

`PROJECT.json` lists the hazards, each at its line.

## 2. Modules

| Module | Models |
|---|---|
| `LuaScripts` | the scripts that write, as operators from a hash to a hash |
| `QuotaWindow` | the window arithmetic, with Go's calendar in a timezone |
| `WindowWalk` | a clock walking through instants under one rule: properties of the arithmetic |
| `WindowLemmas` | lemmas about `QuotaWindow`, for every timezone and for those whose offset has settled |
| `QuotaProxy` | requests, Redis calls, store and clock: the core; extends `LuaScripts` and `QuotaWindow` |
| `SeatPool` | what the quota promises in one window: a pool of seats per key |
| `CalmQuota` | `QuotaProxy` in calm conditions, and its mapping to `SeatPool` |
| `QuotaStatus` | what the admin interface shows of a hash; rows and pages of the listing |
| `AdminQuota` | operators' calls beside the requests of `QuotaProxy`, which it extends |
| `RuleMatch`, `Identity`, `SuccessJudge` | path patterns and expressions, identities, success: pure operators |
| `Gateway` | one request's whole way through the handler, upstream and back; extends the three |
| `Config` | what loading makes of a file, and what validation accepts |
| `RuntimeReload` | saves, edits, reloads, crashes and requests around the runtime; extends `Config` |
| `WindowProofs` | proofs about `WindowWalk`, from `WindowLemmas` |
| `ListLemmas` | lemmas about lists and orders, and induction over numbers |
| `QuotaProxyProofs`, `PoolProofs` | proofs about `QuotaProxy` (with `WindowLemmas`) and, in calm conditions, `CalmQuota` |
| `AdminProofs`, `GatewayProofs`, `RuntimeReloadProofs` | proofs about `AdminQuota`, `Gateway` and `RuntimeReload` |
| `MC...` | instances for TLC |

`QuotaProxy` has many requests and little detail of each; `Gateway` has one
request in full detail, and Redis only as what it answers. They meet at the
settlement: `QuotaProxy` lets a request settle as `Gateway`'s `SettledOnce`
says it does, a failed Confirm of a stream followed by a Rollback included.
`RuntimeReload` has what both take as fixed, the configuration and the Redis
client a request works with.

### How QuotaProxy corresponds to the code

| Variable | In the program |
|---|---|
| `now` | `time.Now()` of the proxy, and Redis's clock (assumed equal) |
| `store` | Redis: the hash under each key; a key that does not exist is `NoHash` |
| `pc[r]` | where the goroutine of request `r` is in `Handler` |
| `req[r]` | its locals: rule, identity, key, ttl, the client's retry count, the settlement chosen; `hurt` records that a Redis call of it failed |
| `held[k]`, `stray[k]` | history only: who holds a seat that key `k` still counts, and how many settlements came to `k` from requests it did not seat |

| `pc` | Next steps | Code |
|---|---|---|
| `new` | `Pass`, `Match` (rule, identity, first clock reading) | `quota.go` 172-188, `manager.go` 184 |
| `ttl` | `ReadTTL` (second clock reading) | `manager.go` 186 |
| `reserve` | `ReserveReply`, or `LoseReply`, `LoseCall` with resends, then `GiveUp` | `manager.go` 189, `quota.go` 188-208 |
| `upstream` | `UpstreamFails`, `UpstreamSucceeds`, `FirstEvent` | `quota.go` 210-332 |
| `settle` | `SettleKey` (third clock reading) | `manager.go` 211, 219 |
| `eval` | `SettleReply`, or a failure; on a stream a failed Confirm leads to a Rollback | `quota.go` 277-292, 334-344 |
| `stream`, `forward` | `StreamEnds`, `Forwarded` | `quota.go` 290-332, 354-396 |

`Advance` moves the clock and drops the keys whose expiry has come; `Crash`
ends every request in flight and leaves the store.

Abstractions of `QuotaProxy`: which rule and identity a request gets, and whether the upstream
succeeds, are free choices here; the hash fields `window`, `window_count` and
`period_key` follow from rule and key and are left out; requests of several proxy processes are requests of
one: they share only Redis, and `Crash` stops all of them at once.

### How AdminQuota corresponds to the code

`at[a]` is where operator's call `a` is, `call[a]` its locals; `bar` and `must`
are history (the count an operator last put under a key; the keys a scan must
find).

| `at` | Next steps | Code |
|---|---|---|
| `idle` | `Ask`: with a rule's name that rule, without one all of them, otherwise a scan | `admin.go` 126-357, `manager.go` 226-386 |
| `rule`, `expiry` | `NextRule`, `ReadExpiry` (two clock readings) | `manager.go` 256-258, 388-391 |
| `scan` | `ScanBatch`: any part of the keyspace not visited yet, as it is then | `manager.go` 547-587 |
| `hget`, `httl` | `PickKey`, `HGetReply`, `TTLReply`, with defaults where Redis has nothing or fails | `manager.go` 396-411 |
| `reset`, `reject`, `delete` | `WriteReply`, or lost calls and replies | `manager.go` 382-424 |
| `get` | `StatusReply` | `manager.go` 256-265 |
| `read`, `listed` | `ReadRow` for each key, then `ListReply`: the filter by rule, the sort, the page | `manager.go` 466-545 |

SCAN's guarantee is modelled by its documentation: an element present during
the whole scan is returned. The listing's filter by part of an identity and the
labels it shows are left out. A listing reads the keys in pipelines of up to 200
commands (`manager.go:468-486`). A pipeline is not a transaction, so the keys
are read one by one, in any order, and every other step may come between; a
pipeline that fails is sent again as a whole. The listing is sorted by what
remains, identity and rule name with a sort that is not stable
(`manager.go:525`), so rows alike in all three may come in any order:
`SortedRows` is the set of the listings it may come to. The row a page starts
after is a product of two numbers the client gives and keeps the width of an
int (`PageStart`, with `MaxInt` for the largest).

### How Gateway corresponds to the code

`pc` runs through `matchRule` path by path and domain by domain (`try`, `form`,
`json`, `headers`, `ip`), `TryReserve` (`reserve`), `Do` (`send`, `roundtrip`),
`ReadResponse`, the judge and `WriteResponse` (`read`, `judge`, `write`), or
`StreamSSE` (`line`, `frame`, `flush`, `confirm`, `ended`) and the error answers
(`rollback502`, `502`). `body` is what reading the request's body would still
give, `canon` the request's cache of canonical forms, `stream` the locals of the
frame loop with three histories: the lines `Write` took without an error
(`taken`), those that went out to the client (`out`), and whether its connection
has failed (`lost`). `WriteFrame` is `c.Writer.Write` (`reverse_proxy.go:186`):
it fails, and a part of the frame may be out, or it takes the frame, which says
nothing of the connection. `Flush` (`reverse_proxy.go:189`) sends all of the
frame or a part of it and reports neither, so the Confirm follows in both cases.
A line cut in two counts as one that was not sent. What Go's libraries say of
patterns, expressions and texts is given by constants, so matching is modelled
for every such library. A body has a size in units of which `MaxBodySize` is the
limit, and may break off while it is read. Headers are one canonical text on the
way in and not modelled on the way out. An identity is the sequence of its
parts, a part being a name and a value; the program joins them with `|` and
escapes nothing, so `SplitValue` says where a value falls apart into further
parts. The names that configurations give their extractors are taken to have no
separator in them.

### How RuntimeReload corresponds to the code

`file` is what is on disk: a whole document, the remains of two writers, or cut
to nothing (`os.WriteFile` truncates, then writes; the process may crash, load
or write again in between). `runtimes` are numbered as they are built, `open`
are those whose Redis client is open, `closers` the goroutines that sleep
(`runtime_store.go` 50-53). `ReloadConfig` is `LoadFile`, `Lock`, `Build`,
`Swap`; the mutex is `mu`. A request takes the runtime in force when it comes
and keeps it: `Take`, `Reserve`, `Settle`. Of the configuration, the keys are
kept on which validation or building depends (target, fail-open, identity,
rules).

Reading the file is one step. An editor's save is one step too (it replaces the
file). `SaveBegin` starts from a configuration fetched earlier, so of two
operators the later save undoes the earlier one's changes; nothing in the code
says otherwise.

## 3. Runs

Half a second is a tick (`Second = 2`), so that requests fall between whole
seconds. Time is bounded by the set `Instants`.

| Run | Instance | What it shows |
|---|---|---|
| `rollover` | 3 requests, rules `chat` (limit 1) and `burst` (limit 2) of one minute on one key, instants 40 s, 59.5 s and 60 s, no faults | the safety properties across a window change and an expiry |
| `faults` | 2 requests, rules of a minute (limit 1) and an hour (limit 2), on both sides of an hour boundary, one resend, lost replies, lost calls, crash, fail-open | the same under failures, and that rules of different units stay apart |
| `progress` | 2 requests, fail-closed, all faults, 59.5 s and a day later | the liveness properties |
| `calm` | 3 requests, 2 rules, two instants of one minute, no faults | `QuotaProxy` implements `SeatPool`; the limit holds |
| `shanghai` | every half hour of a week and instants around it, 9 rules | the window arithmetic at a fixed offset |
| `operator` | 2 requests and one operator's call, one rule (limit 1), 40 s and 60 s, all faults, fail-closed | calls beside requests in flight, key expiry and failures |
| `gateway` | 16 requests, 8 responses, 3 configurations, bodies up to twice the limit, streams of up to 3 lines | every way through the handler |
| `reload` | two saves, two reloads, one request, an editor, one crash; bad groups, duplicate names, an unusable target | files, configurations and runtimes |

Properties:

- `OvershootBounded`: success + held seats ≤ limit + strays, per key. It holds
  through every fault, and says exactly which event can let successes above the
  limit: a settlement at a key that does not hold the request's seat.
- `SeatsCounted`: held seats ≤ pending + strays; with `PendingBacked` (without
  faults, pending ≤ held seats) the counter and the seats agree when no stray
  came.
- `NoForgottenSeat`: a finished request that still has a seat crashed, met a
  failed Redis call, or settled in another window.
- `RefusedOnlyWhenFull`: a 429 is given only when as many requests as the limit
  have succeeded, or may still succeed, under the key that the request computed
  when it came; by the time of the refusal that key's window may be over.
- `KeptToLastSecond`: a key with an expiry is kept until less than a second
  before its window's end.
- `CutsOnLocalTime`: at a fixed offset of whole hours, days begin at local
  midnight and hours on the local hour.
- `RejectionStands`: a key an operator rejected stays at the count he gave it
  until it expires or is reset, whatever the requests in flight settle.
- `OnlyStraysNeverExpire`: the one way to a key without expiry is a Confirm that
  had no seat there: after a window change, a reset, or an expiry in the
  window's last second.
- `ScanMissesNothing`, `StatusMatchesAdmission`, `PagesPartition`: a scan finds
  every key that was there throughout; `remaining > pending` is shown exactly
  when a request would be let in; in every order the sort may leave, the pages
  make up the listing, and every page whose first row fits in an int can be
  asked for.
- `MatchesAsConfigured`: the rule found path by path, with one reading of the
  body and cached forms, is the one `FirstMatch` defines from the configuration
  and the request as sent.
- `BodyForwardedIntact`, `SubjectsKeptApart`: what goes upstream is the client's
  body unless it broke off; requests count together only for the same names and
  values, or when values of both have the separator of identities in them.
- `SettledOnce`, `StreamCountsWhenWritten`, `FramesStayWhole`, `OneAnswer`: one
  settlement per seat (or a failed Confirm and a Rollback); a stream is
  confirmed exactly when `Write` took an event without an error, so a client
  that has seen a whole event is counted, but not the other way round (run
  `unflushed`); the client sees whole frames, a part of one only as the last
  thing before its connection is lost, and one answer.
- `InForceUsable`: no configuration in force has an extractor or an expression
  that would panic, or a rule matched by another's expressions.
- `OpenClientsAccounted`, `ReplacedAreClosed`: the runtime in force has an open
  client, every other one is about to be closed and is in the end, except those
  of reloads that failed half-way, which nobody closes.
- `ShortRequestsUnharmed`: no client is closed under a request younger than the
  delay.
- `ReloadsReturn`, `RedisNeverBlocks`, `SeatsGivenBack`: no reload waits for
  the mutex for ever; no request waits on Redis for ever;
  every seat is given back by the settlement or by the key's expiry.

The bounds are enough because all the arithmetic on counters compares one key's
`success + pending` with one limit: limits 1 and 2 with 3 requests give full,
not yet full and overfull keys; two instants on either side of a boundary give
every split of a request's three clock readings; one resend gives a script run
twice. One operator's call meets two requests at every point of their way;
calls of several operators are writes of the same scripts. In `gateway` the
steps depend only on what each domain says of the request, and the requests
have every combination that ends differently; three lines are two
frames of which the stream's end may close the second, or a frame and a beginning,
and each may be written, flushed, or lost on the way. In
`operator` the largest int is 7, so that the property looks at every page up to
the last whose start fits. In `reload` a delay of one tick is enough to be younger, as old, or
older than it. `SeatPool` in `calm` covers what no window change disturbs.

Fairness (`FairSpec`): weak fairness of the steps that are a few instructions of
a goroutine (`ReadTTL`, `SettleKey`), of a Redis call (bounded by the client's
dial, read and write timeouts, `manager.go` 81-83) and of the clock. None of the
upstream, of streams and of clients: bodies and streams have no timeout.
`ReloadFairSpec`: weak fairness of time, of each reload that holds the mutex or
can take it (Go's mutex is not starved, and building a runtime is bounded by the
five seconds of its Ping), and of the goroutines that close. None of operators,
of requests or of a restart.

### Violations: where the documentation says more than the code does

| Run | Property | What happens |
|---|---|---|
| `straddle` | `NeverOverLimit` | a request that reserves before and settles after a window boundary takes a seat of the new window, which then admits one too many |
| `body_limit` | `MemoryBounded` | a rule that matches on the body reads all of it before the limit on bodies is looked at |
| `unflushed` | `CountedOnlyWhenSeen` | the first event stays in the buffer of a connection that has failed: `Write` and `Flush` report nothing, and the stream is confirmed though README.md:447-449 asks for a flush that succeeds |
| `reload_loses` | `SuccessIsCounted` | a request that takes longer than the delay after a reload settles through a closed client and is not counted |

Further differences met while modelling, which the models contain and no run
singles out:

- The name of a rule is not in its keys (`manager.go:104`), so rules with the
  same unit count under one key, although README.md:160 says that they are
  counted apart. In `rollover`, `chat` and `burst` share their keys;
  `RulesHaveTheirOwnKeys`, which holds for rules of different units, fails there
  once a seat is taken under a key that requests of both rules have computed.
- A page number so large that `(page - 1) * pageSize` leaves the range of an int
  starts at a negative row, which panics and is answered with 500, or wraps to
  another page of the listing (`manager.go:536`, `544`).
- The expiry is cut to whole seconds, so a key goes up to a second before its
  window ends (`manager.go:160`; README.md:481 says at the end), and a Confirm
  that comes first in a window creates a key without expiry
  (`lua_scripts.go:47`; README.md:14). `KeptToLastSecond` and
  `OnlyStraysNeverExpire` say how far each goes.
- A Confirm whose reply is lost is sent again and counts twice (`manager.go:80`;
  README.md:410); `OvershootBounded` counts it as a stray.
- While the offset differs from that of the reference instant, as in summer
  time, days change an hour off local midnight. In the hour between, the window
  computed is one that has ended already, and its key expires after one second,
  again and again (`manager.go:139`, `160`). Hours begin on the hour of UTC in
  timezones with a half-hour offset (`manager.go:144`;
  `config.yaml.example:71-72`).
- Names and values of an identity are joined as they are, so a value with `|` in
  it can make two subjects count together (`identifier.go:105`, `111`;
  README.md:143). An extractor named `ip` counts with the requests that fall
  back to their address.
- Rows alike in what remains, identity and rule name may change places between
  the calls for two pages, so that one is on both and another on neither
  (`manager.go:525`).
- A rejection by identity takes a limit below 1 for 1, so under a rule of limit
  0 it puts the count above the limit (`manager.go:404-405`).
- `RejectAll` writes each rule's own limit, so of rules that share a key the
  last one's stays and another may stay open (`manager.go:367`). A reset of a
  rule nobody configured resets all (`manager.go:353`; README.md:330).
- `WriteResponse` sets headers, so of a repeated header the last value stays
  (`reverse_proxy.go:242`); `json_field` cuts fractions off, so 0.5 counts as 0
  (`judge.go:79`).
- A body that fails while it is read for matching is sent upstream empty, one
  that fails in `Do` as far as it came (`reverse_proxy.go:88`), and rules that
  match on the body do not match it.
- A reload that fails half-way leaves its Redis client open for ever
  (`quota.go:137-148`). Of two reloads the one that read the file earlier may be
  in force at the end (`admin.go:251-256`). A file cut to nothing loads as the
  defaults, without an admin key (`config.go:392`).

## 4. Proofs

Every proof is of a property of the specification for all values of its
constants, by an invariant that the initial states have and every step keeps.
A few have a hypothesis on the constants, which is said with them.
The assumptions are those the modules state by name, and TLC evaluates them on
the instances: `WindowAssumption` (a timezone is a table of offsets),
`WalkAssumption` (some rules, some instants not before 1970),
`ProxyAssumption` (finitely many requests, instants not before 1970),
`CalmAssumption` (no faults, one window, no expiry), `AdminAssumption` (the
operators' rules are the configured ones), `GateAssumption` (rule names are
distinct, which `config.Validate` sees to), `MaxIntAssumption` (the largest int
is a number), `SplitAssumption` (a value is told by
the parts its separators cut it into, and an address has no separator) and
`ReloadAssumption` (the delay is
a number, expressions have a number of groups).

### Window arithmetic: WindowLemmas, WindowProofs

Windows of minutes and hours lie on a grid in every timezone
(`ShortWindowOnGrid`). Windows of days do where the offset has settled
(`OffsetSettled`): it is that of the reference instant now, and has been since
before the windows looked at began. Every timezone of a fixed offset qualifies
(`FixedOffsetSettled`), and so does one whose changes are long past. Without
the hypothesis the statements are false, as the differences above tell of summer
time.

- `WindowContainsNow`: `InsideItsWindow`, and `ExpiryFits`:
  `ExpiryMeetsWindowEnd`, from the grid (`ExpiryAtEnd`).
- `NamesTellWindows`: the action property `KeyNamesTheWindow`. A name gives
  its window back (`NameOfWindow`), because windows of a rule begin whole units
  apart and a name is the wall clock's number of units; and a window that is not
  the same begins where the last has ended or later (`WindowsFollow`).
- `LocalCuts`: `CutsOnLocalTime`, if the offset is one of whole hours as well.

### Lists: ListLemmas

The provers cannot instantiate an induction principle whose parameter is an
operator. They can use one about sets of numbers: a set that has 0 and with
each number the next has them all (`Induction`), because a set of numbers that
is not empty has a least one (`LeastNumber`, from the library's theorem on
well-founded relations). With the numbers for which a statement holds as the
set, this gives what `FlattenSeq` yields, whose definition is a recursive
function (`FlattenByJoins`): a list cut into consecutive parts is the parts
joined (`CutsJoin`), and the length of a join tells whether each part is a
single element (`PartsJoined`). And it gives that every finite set can be listed
in a given order (`OrderExists`).

### Enforcement: QuotaProxyProofs, PoolProofs

- `TypeCorrect`: `TypeOK`, the types (`Typed`) and that a request past its match
  has a key of its own rule (`Attached`). Neither is inductive without the other:
  a script on no key at all would leave the store ill typed. Every step of a request writes locals of the right type
  (`HandlerKeepsControl`) and either runs its script or leaves Redis alone
  (`HandlerOnRedis`).
- `SuccessBounded`: `OvershootBounded`, and `PendingCoversSeats`:
  `SeatsCounted`. `OvershootBounded` is not inductive: that a grant leaves room
  rests on pending covering the held seats. `SeatsInv` has both, and is kept by
  a grant (`GrantKeepsBounds`), a settlement (`SettlementKeepsBounds`), an
  expiry (`EmptyKeyBounds`), and every other step.
- `SeatsRemembered`: `NoForgottenSeat`. `Remembered` says of a held seat at
  every place of the handler, not only at its end, why it is still held: the
  request has yet to settle, or settled elsewhere, or met a failed call.
- `PendingIsHeld`: `PendingBacked`, by `Backed` beside `SeatInv`: a request
  about to reserve must not hold a seat already, or pending would count it
  twice.
- `RefusedWhenFull`: the action property `RefusedOnlyWhenFull`. Only the script
  refuses (`OnlyReserveRefuses`), and pending is backed.
- `KeptLong`: `KeptToLastSecond`, in a settled timezone (`Steady`). `KeptInv`
  says it of expiries before they are written: a request about to read its time
  to live has the key of a window that has begun (`Dated`), and what it read
  lasts to the end of that window even if the clock has moved on (`Timed`,
  `ReadLasts`).
- `OwnKeys`: `RulesHaveTheirOwnKeys`, for rules whose windows have different
  units; rules of one unit do share keys. `Keyed`: a request's key, once
  it has one, is a key of its own rule to the end.
- `Implements`: `Spec => IsASeatPool`, the refinement, and `LimitKept`:
  `NeverOverLimit`, under `CalmAssumption`. `CalmInv` adds to the above that a
  request's key is the same whenever it is computed (`KeysFixed`), so that its
  seat is where it settles (`Seated`, `NoStrays`), and that no key expires
  (`LongLived`). Every step is a step of the pool or a stutter.

### Admin operations: AdminProofs

- `AdminTypeCorrect`: `AdminTypeOK`, with what a call at each place has for its
  next step (`WorksOn`): a rule left where one is computed, a key where its time
  to live is asked for or a script runs, keys to choose from, and a count of at
  least 1 where Reject takes it from a hash. `CallsInv` adds (`Fitting`) that a
  call in progress has a kind and an identity, and that a listing has no rules.
- `RejectionLasts`: `RejectionStands`, and `StraysOnlyStay`:
  `OnlyStraysNeverExpire`, by `KeyInv`. A settlement takes no success away and
  sets no expiry; a settlement of a seated request finds the key there, because
  a key that is not there seats nobody.
- `BoundedWithOperators`: `OvershootBounded` of `QuotaProxy`, with operators
  beside the requests, if every limit is at least 1 (`EveryRuleCounts`): a
  rejection by identity writes the limit that the hash has, or 1.
  `OvershootInv` adds to the bound that the limit of a hash, and that of a call
  on its way to a reject, is at most the limit of a rule that shares the key
  (`LimitsInv`).
- `SeatsBesideOperators`: `SeatsCounted` and `NoForgottenSeat`, with operators
  beside the requests. A write takes all the seats a key has with its counters,
  so pending misses none (`CoverStep`), and the reasons of `Remembered` stay
  true (`SeatsStay`).
- `StatusTells`: `StatusMatchesAdmission`, from the counters' types.
- `ListingInPages`: `PagesPartition`, for any number of rows and as long as the
  row a page starts after fits in an int; the lemma `PagesJoin` has it for every
  size of page, the property for the sizes 1 to 3.
  That there is a listing at all needs finitely many rows, and keys are pairs of
  any period's number and an identity: `FewKeys` says that only finitely many
  exist, or have been found or read by a call, at any time, since a step brings
  one key to life and reads one row at most. That the order of rows is one, so that a finite set can be listed in it,
  is `RowsSorted`.
- `ScanComplete`: the action property `ScanMissesNothing`, by `ScanInv`: a key
  that was there throughout has been found, or its slot is still to come.

`AdminInv` contains the invariant of the requests: their steps are the same
beside an operator's (`RequestSteps`), and an operator's write is a step that
`TypeInv` survives as well (`WriteOnAll`).

### One request's way: GatewayProofs

- `MatchingCorrect`: `MatchesAsConfigured`. `MatchInv` says that the rules
  before the one looked at are no candidates and, if this one is, that a path
  not looked at yet matches; it rests on `CanonOK`, that a canonical form
  computed once is the one that the body, read once, has.
- `CountedApart`: `SubjectsKeptApart`. `IdentInv` says that the identity of a
  matched request is the one `Identify` gives. An identity has as many parts as
  its subject has values exactly when no value has a separator (`Tells`), so of
  two subjects with one identity both have a separator in a value, or neither,
  and then name and value stand in the identity part by part.
- `BodyGoesWhole`: `BodyForwardedIntact`. A body is gone only after it broke
  off while it was read (`BodyKept`).
- `SettlesOnce`: `SettledOnce`, and `AnswersOnce`: `OneAnswer`, by `AnswerInv`,
  which lists for each place what has been settled and whether the head of an
  answer has been written.
- `GateTypeCorrect`: `GateTypeOK`. `TypesInv` has what the types rest on: that
  the rule looked at and the one found are rules of the configuration
  (`RangeInv`), that a body is gone exactly when it broke off while it was read
  for matching (`GoneInv`), and what may go upstream, come back and be settled
  (`SentInv`).
- `FramesWhole`: `FramesStayWhole`. What was read is what `Write` took followed
  by the frame that waits (`StreamInv`); what went out is a beginning of what was
  read, all that was flushed while the connection lasts, and otherwise at most a
  part of the frame that failed beyond what `Write` took (`OutInv`).
- `CountsWhenWritten`: `StreamCountsWhenWritten`, by `CountInv`: a stream is
  confirmed exactly from the flush of the first event that `Write` took on; and
  by `OutInv`, since of a frame that `Write` refused no blank line went out, no
  client has seen a whole event that is not counted.

### Configuration and reload: RuntimeReloadProofs

`ReloadInv` gives all four theorems; its parts need each other.

- `TypeCorrect`: `ReloadTypeOK`: what is fetched, saved, carried by a reload and
  built is valid, and requests hold runtimes that were built. `Types` adds of
  what kind a file's documents are, from which `Load` makes a valid
  configuration or none.
- `OnlyUsableInForce`: `InForceUsable`. What `Validate` accepts is usable
  (`ValidIsUsable`), and only such runtimes are in force.
- `ClientsAccounted`: `OpenClientsAccounted`. A reload that builds holds the
  mutex (`Exclusive`), so no other swaps the runtime it is about to replace.
- `ShortRequestsSafe`: `ShortRequestsUnharmed`. Whoever is about to close a
  client will still wait as long as any request under it lacks of the delay
  (`Sheltered`), and nobody is about to close the one in force (`Spared`).

### What is only model-checked

Liveness (`RedisNeverBlocks`, `SeatsGivenBack`, `ReloadsReturn`,
`ReplacedAreClosed`) is out of reach of the provers. Every other property of the
passing runs is a theorem, some of them with the hypotheses said above.

## 5. Not modelled

- Admin authentication: one comparison with the key in force, without state.
- Logging, the helpers, the recover middleware, the admin web page: no state
  that a quota or an answer depends on.
- Server wiring: ports, routes, embedded files, the command line. Of the start,
  `RuntimeReload` has that it loads, builds and exits on failure.
- Of configuration: a missing file, `LoadFromYAML` (called by tests only), the
  keys that no validation and no building reads. An editor's save and the
  reading of the file are each one step.
- Of the reverse proxy: the target URL, and headers on the way out.
- Of identity: `GetIdentityType` and `GetIdentityValue`, which nothing calls.
- Of the listing: its filter by part of an identity, and the labels it shows.
- Redis itself beyond one atomic script at a time, expiry and SCAN's guarantee;
  its clock is the proxy's. A Redis that loses its data is not modelled: the
  code has nothing to say to it.

What could come next: `QuotaProxy` with a reload in the middle of it, so that
rules change under requests in flight; the identity filter of the listing.
