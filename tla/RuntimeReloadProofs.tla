-------------------------- MODULE RuntimeReloadProofs --------------------------
(***************************************************************************)
(* Proofs about RuntimeReload, for any number of operators, reloads and    *)
(* requests, any delay, and any documents in the file: only usable         *)
(* configurations come into force, every open client is accounted for, and *)
(* no client is closed under a request younger than the delay.             *)
(***************************************************************************)
EXTENDS RuntimeReload, TLAPS

(* A configuration, and a document that says something of one. *)
Conf == {c \in [Keys -> UNION {ValuesOf(k) : k \in Keys}] : \A k \in Keys : c[k] \in ValuesOf(k)}
Says(doc) == \A k \in Keys : k \in DOMAIN doc => doc[k] \in ValuesOf(k)

-------------------------------------------------------------------------------
(* What comes of loading and editing is a configuration.                   *)

LEMMA EmptySays == Says(<<>>)
BY DEF Says

LEMMA KnownDocsSay == Says(FirstDoc) /\ Says(Env) /\ \A doc \in HandDocs : Says(doc)
BY DEF Says, ValuesOf

LEMMA ConfSays == \A c \in Conf : Says(c)
BY DEF Conf, Says

LEMMA UnmarshalledType == ASSUME NEW doc, Says(doc) PROVE Unmarshalled(doc) \in Conf
<1>1. \A k \in Keys : Unmarshalled(doc)[k] \in ValuesOf(k)
  BY KnownDocsSay DEF Unmarshalled, Says, ValuesOf
<1>2. Unmarshalled(doc) \in [Keys -> UNION {ValuesOf(k) : k \in Keys}]
  BY <1>1 DEF Unmarshalled
<1> QED BY <1>1, <1>2 DEF Conf

LEMMA EditedType ==
    ASSUME NEW c \in Conf, NEW change \in Changes PROVE Edited(c, change) \in Conf
<1> DEFINE e == Edited(c, change)
<1>1. \A k \in Keys : e[k] \in ValuesOf(k)
  <2> TAKE k \in Keys
  <2>1. CASE k = change.key
    <3>1. e[k] = change.setting
      BY <2>1 DEF Conf, Edited
    <3> QED BY <2>1, <3>1 DEF ValuesOf
  <2>2. CASE k # change.key
    BY <2>2 DEF Conf, Edited
  <2> QED BY <2>1, <2>2
<1>2. e \in [Keys -> UNION {ValuesOf(k) : k \in Keys}]
  <2>1. DOMAIN e = Keys /\ e = [k \in Keys |-> e[k]]
    BY DEF Conf, Edited
  <2> HIDE DEF e
  <2> QED BY <1>1, <2>1
<1> QED BY <1>1, <1>2 DEF Conf

LEMMA LoadType ==
    ASSUME Says(file.doc), NEW c \in Load, c # NoConfig
    PROVE  c \in Conf /\ Validate(c)
<1>1. PICK d \in Read : c = IF d # NoConfig /\ Validate(d) THEN d ELSE NoConfig
  BY DEF Load
<1>2. c = d /\ d # NoConfig /\ Validate(d)
  BY <1>1
<1>3. d = Unmarshalled(file.doc) \/ d = Unmarshalled(<<>>)
  BY <1>2 DEF Read
<1> QED BY <1>2, <1>3, EmptySays, UnmarshalledType

-------------------------------------------------------------------------------
(* Validation: what it accepts, the rest of the program can use.           *)

LEMMA ExtractorUsable ==
    ASSUME NEW ex, ex.group \in Int, NumSubexp(ex.regex) \in Nat, ValidExtractor(ex)
    PROVE  UsableExtractor(ex)
<1>1. ASSUME ~Direct(ex) PROVE Compiles(ex.regex) /\ ex.group \in 0..NumSubexp(ex.regex)
  <2> DEFINE g == ex.group
             n == NumSubexp(ex.regex)
  <2>1. Compiles(ex.regex) /\ g >= 0 /\ g <= n
    BY <1>1 DEF ValidExtractor, GroupInRange
  <2>2. g \in Int /\ n \in Nat
    OBVIOUS
  <2> HIDE DEF g, n
  <2>3. g \in 0..n
    BY <2>1, <2>2
  <2> QED BY <2>1, <2>3 DEF g, n
<1>2. \/ SourceOf(ex) = "ip"
      \/ SourceOf(ex) \in {"header", "query", "cookie"} /\ KeyOf(ex) # ""
  BY DEF ValidExtractor, Sources
<1> QED BY <1>1, <1>2 DEF UsableExtractor

(* With unique names, each rule is matched by its own expressions. *)
LEMMA OwnMatcher ==
    ASSUME NEW rules, DOMAIN rules \subseteq Nat, UniqueNames(rules), NEW i \in DOMAIN rules
    PROVE  MatcherOf(rules, rules[i].name) = rules[i].match
<1> DEFINE Latest(j) == /\ rules[j].name = rules[i].name
                      /\ \A n \in DOMAIN rules : rules[n].name = rules[i].name => n <= j
<1>1. Latest(i)
  BY DEF UniqueNames
<1>2. \A j \in DOMAIN rules : Latest(j) => j = i
  BY DEF UniqueNames
<1>3. (CHOOSE j \in DOMAIN rules : Latest(j)) = i
  BY <1>1, <1>2
<1> QED BY <1>3 DEF MatcherOf

LEMMA WindowWord ==
    ASSUME NEW text, Word(ToLower(text)) \in {"minute", "hour", "day"}
    PROVE  text[1] \in {"minute", "hour", "day"}
BY DEF Word, ToLower

LEMMA ValidIsUsable == ASSUME NEW c \in Conf, Validate(c) PROVE Usable(c)
<1>1. c.identity \in ValuesOf("identity") /\ c.rules \in ValuesOf("rules")
  BY DEF Conf, Keys
<1>2. ASSUME NEW i \in DOMAIN c.identity.extractors
      PROVE  UsableExtractor(c.identity.extractors[i])
  <2> DEFINE ex == c.identity.extractors[i]
  <2>1. ex.group \in Int /\ NumSubexp(ex.regex) \in Nat
    BY <1>1, ReloadAssumption
  <2>2. ValidExtractor(ex)
    BY DEF Validate, ValidIdentity
  <2>3. UsableExtractor(ex)
    <3> HIDE DEF ex
    <3> QED BY <2>1, <2>2, ExtractorUsable
  <2> QED BY <2>3
<1>3. Strategy(c.identity) \in {"header_priority", "merge_all"}
  BY DEF Validate, ValidIdentity, Strategy
<1>4. ASSUME NEW i \in DOMAIN c.rules
      PROVE  LET rule == c.rules[i]
             IN  /\ MatcherOf(c.rules, rule.name) = rule.match
                 /\ \A d \in Domains : MatcherCompiles(rule.match[d])
                 /\ rule.window[1] \in {"minute", "hour", "day"} /\ rule.count > 0
  <2> DEFINE rule == c.rules[i]
  <2>1. UniqueNames(c.rules) /\ ValidRule(rule)
    BY DEF Validate, ValidRules
  <2>2. DOMAIN c.rules \subseteq Nat /\ rule.count \in Int
    BY <1>1, ReloadAssumption
  <2>3. MatcherOf(c.rules, rule.name) = rule.match
    BY <2>1, <2>2, OwnMatcher
  <2>4. \A d \in Domains : MatcherCompiles(rule.match[d])
    BY <2>1 DEF ValidRule, ValidMatcher, MatcherCompiles
  <2>5. rule.window[1] \in {"minute", "hour", "day"}
    BY <2>1, WindowWord DEF ValidRule
  <2>6. rule.count > 0
    BY <2>1, <2>2 DEF ValidRule
  <2> QED BY <2>3, <2>4, <2>5, <2>6
<1> QED BY <1>2, <1>3, <1>4 DEF Usable

-------------------------------------------------------------------------------
(* The inductive invariant.  Types: what the calls hold are configurations, *)
(* and only valid ones are loaded, built and kept.                          *)

Valid == {c \in Conf : Validate(c)}
InReload == {"lock", "build", "swap"}

SaverCall == {Idle, Done} \cup [pc : {"fetched", "open", "write"}, cfg : Valid]
ReloaderCall == {Idle, Done} \cup [pc : InReload, cfg : Valid, prev : Nat, next : Nat]
ReqCall == {Idle, Done}
           \cup [pc : {"reserve", "upstream", "uncounted", "unreturned"},
                 runtime : Nat, age : 0..Delay]

Types ==
    /\ file.kind \in {"whole", "mixed", "cut"} /\ Says(file.doc)
    /\ runtimes \in Seq(Valid)
    /\ current \in Nat
    /\ mu \in Reloaders \cup {"free"}
    /\ closers \subseteq [runtime : Nat, left : 0..Delay]
    /\ saver \in [Savers -> SaverCall]
    /\ reloader \in [Reloaders -> ReloaderCall]
    /\ req \in [Reqs -> ReqCall]

(* No number is in use that was not built. *)
Numbered ==
    /\ open \subseteq 1..Built /\ current \in 0..Built /\ abandoned \subseteq 1..Built
    /\ \A g \in closers : g.runtime \in 1..Built
    /\ \A r \in Reqs : InProgress(r) => req[r].runtime \in 1..Built

(* The mutex is with the one reload that builds or swaps, and a reload is  *)
(* a call of a process that is up.                                         *)
Exclusive ==
    /\ \A p \in Reloaders : mu = p <=> reloader[p].pc \in {"build", "swap"}
    /\ \A p \in Reloaders : reloader[p].pc \in InReload => Up

(* Nobody will close the runtime in force, nor the one about to be. *)
Spared ==
    /\ Up => current \in open /\ \A g \in closers : g.runtime # current
    /\ \A p \in Reloaders : reloader[p].pc = "swap" =>
          /\ reloader[p].next \in open /\ reloader[p].next # current
          /\ \A g \in closers : g.runtime # reloader[p].next

(* A sleeper has left at least what a request under its runtime lacks of   *)
(* the delay.                                                              *)
Sheltered ==
    \A r \in Reqs : InProgress(r) =>
        /\ req[r].age < Delay => req[r].runtime \in open
        /\ \A g \in closers : g.runtime = req[r].runtime => g.left + req[r].age >= Delay

ReloadInv == Types /\ Numbered /\ Exclusive /\ Spared /\ Sheltered /\ OpenClientsAccounted

(* Types.                                                                  *)

LEMMA TypesInit == ReloadInit => Types
<1> SUFFICES ASSUME ReloadInit PROVE Types
  OBVIOUS
<1>1. file.kind \in {"whole", "mixed", "cut"} /\ Says(file.doc)
  BY KnownDocsSay DEF ReloadInit, Whole
<1>2. /\ saver \in [Savers -> SaverCall]
      /\ reloader \in [Reloaders -> ReloaderCall]
      /\ req \in [Reqs -> ReqCall]
  BY DEF ReloadInit, SaverCall, ReloaderCall, ReqCall
<1>3. /\ runtimes \in Seq(Valid) /\ current \in Nat
      /\ mu \in Reloaders \cup {"free"}
      /\ closers \subseteq [runtime : Nat, left : 0..Delay]
  BY DEF ReloadInit
<1> QED BY <1>1, <1>2, <1>3 DEF Types

(* Building a runtime of a valid configuration appends it. *)
LEMMA OpenedType ==
    ASSUME runtimes \in Seq(Valid), NEW c \in Valid, Opened(c)
    PROVE  /\ runtimes' \in Seq(Valid)
           /\ Built \in Nat /\ Built' = Built + 1
           /\ open' = open \cup {Built'}
BY DEF Opened, Built

(* What a call in progress holds. *)
LEMMA CallTypes ==
    ASSUME Types
    PROVE  /\ \A s \in Savers : saver[s].pc \in {"fetched", "open", "write"} =>
                 saver[s] \in [pc : {"fetched", "open", "write"}, cfg : Valid]
           /\ \A p \in Reloaders : reloader[p].pc \in InReload =>
                 reloader[p] \in [pc : InReload, cfg : Valid, prev : Nat, next : Nat]
           /\ \A r \in Reqs : InProgress(r) =>
                 req[r] \in [pc : {"reserve", "upstream"}, runtime : Nat, age : 0..Delay]
<1>1. ASSUME NEW s \in Savers, saver[s].pc \in {"fetched", "open", "write"}
      PROVE  saver[s] \in [pc : {"fetched", "open", "write"}, cfg : Valid]
  BY <1>1 DEF Types, SaverCall, Idle, Done
<1>2. ASSUME NEW p \in Reloaders, reloader[p].pc \in InReload
      PROVE  reloader[p] \in [pc : InReload, cfg : Valid, prev : Nat, next : Nat]
  BY <1>2 DEF Types, ReloaderCall, InReload, Idle, Done
<1>3. ASSUME NEW r \in Reqs, InProgress(r)
      PROVE  req[r] \in [pc : {"reserve", "upstream"}, runtime : Nat, age : 0..Delay]
  BY <1>3 DEF Types, ReqCall, InProgress, Idle, Done
<1> QED BY <1>1, <1>2, <1>3

LEMMA TypesStep == Types /\ Numbered /\ [ReloadNext]_reloadvars => Types'
<1> SUFFICES ASSUME Types, Numbered, [ReloadNext]_reloadvars PROVE Types'
  OBVIOUS
<1> USE DEF store, calls
<1>1. CASE Start
  <2>1. PICK c \in Load \ {NoConfig} : Opened(c)
    BY <1>1 DEF Start
  <2>2. c \in Valid
    BY <2>1, LoadType DEF Types, Valid
  <2>3. runtimes' \in Seq(Valid) /\ current' \in Nat
    BY <1>1, <2>1, <2>2, OpenedType DEF Start, Types
  <2> QED BY <1>1, <2>3 DEF Start, Types
<1>2. CASE Crash
  <2>1. /\ saver' \in [Savers -> SaverCall]
        /\ reloader' \in [Reloaders -> ReloaderCall]
        /\ req' \in [Reqs -> ReqCall]
    BY <1>2 DEF Crash, Lost, Types, SaverCall, ReloaderCall, ReqCall
  <2> QED BY <1>2, <2>1 DEF Crash, Types
<1>3. CASE HandEdit
  BY <1>3, KnownDocsSay DEF HandEdit, Whole, Types
<1>4. CASE Tick
  <2>1. closers' \subseteq [runtime : Nat, left : 0..Delay]
    <3> SUFFICES ASSUME NEW g \in closers
                 PROVE  [g EXCEPT !.left = IF @ > 0 THEN @ - 1 ELSE 0]
                            \in [runtime : Nat, left : 0..Delay]
      BY <1>4 DEF Tick
    <3> DEFINE n == IF g.left > 0 THEN g.left - 1 ELSE 0
    <3>1. g \in [runtime : Nat, left : 0..Delay]
      BY DEF Types
    <3>2. n \in 0..Delay
      BY <3>1, ReloadAssumption
    <3> HIDE DEF n
    <3>3. [g EXCEPT !.left = n] \in [runtime : Nat, left : 0..Delay]
      BY <3>1, <3>2
    <3> QED BY <3>3 DEF n
  <2>2. req' \in [Reqs -> ReqCall]
    <3> SUFFICES ASSUME NEW r \in Reqs PROVE req'[r] \in ReqCall
      BY <1>4 DEF Tick
    <3>1. CASE InProgress(r) /\ req[r].age < Delay
      <4> DEFINE n == req[r].age + 1
      <4>1. req[r] \in [pc : {"reserve", "upstream"}, runtime : Nat, age : 0..Delay]
        BY <3>1, CallTypes
      <4>2. n \in 0..Delay
        BY <3>1, <4>1, ReloadAssumption
      <4>3. req'[r] = [req[r] EXCEPT !.age = n]
        BY <1>4, <3>1 DEF Tick
      <4> HIDE DEF n
      <4> QED BY <4>1, <4>2, <4>3 DEF ReqCall
    <3>2. CASE ~(InProgress(r) /\ req[r].age < Delay)
      BY <1>4, <3>2 DEF Tick, Types
    <3> QED BY <3>1, <3>2
  <2> QED BY <1>4, <2>1, <2>2 DEF Tick, Types
<1>5. ASSUME NEW s \in Savers, Fetch(s) PROVE Types'
  <2>1. runtimes[current] \in Valid
    <3>1. current \in 1..Built
      BY <1>5 DEF Fetch, Up, Numbered, Built, Types
    <3> QED BY <3>1 DEF Types, Built
  <2> QED BY <1>5, <2>1 DEF Fetch, Types, SaverCall
<1>6. ASSUME NEW s \in Savers, SaveBegin(s) PROVE Types'
  <2>1. saver[s].cfg \in Conf
    BY <1>6, CallTypes DEF SaveBegin, Valid
  <2>2. PICK change \in Changes :
           saver' = [saver EXCEPT ![s] =
              IF Binds(change) /\ Validate(Edited(saver[s].cfg, change))
              THEN [pc |-> "open", cfg |-> Edited(saver[s].cfg, change)] ELSE Done]
    BY <1>6 DEF SaveBegin
  <2>3. Edited(saver[s].cfg, change) \in Conf
    BY <2>1, EditedType
  <2> QED BY <1>6, <2>2, <2>3 DEF SaveBegin, Types, SaverCall, Valid
<1>7. ASSUME NEW s \in Savers, Truncate(s) PROVE Types'
  <2>1. saver'[s] \in SaverCall
    BY <1>7, CallTypes DEF Truncate, SaverCall, Types
  <2> QED BY <1>7, <2>1, EmptySays DEF Truncate, Types, Cut
<1>8. ASSUME NEW s \in Savers, Write(s) PROVE Types'
  <2>1. Says(saver[s].cfg)
    BY <1>8, CallTypes, ConfSays DEF Write, Valid
  <2> QED BY <1>8, <2>1 DEF Write, Types, Whole, Mixed, SaverCall
<1>9. ASSUME NEW p \in Reloaders, LoadFile(p) PROVE Types'
  <2>1. PICK c \in Load :
           reloader' = [reloader EXCEPT ![p] =
              IF c = NoConfig THEN Done
              ELSE [pc |-> "lock", cfg |-> c, prev |-> current, next |-> 0]]
    BY <1>9 DEF LoadFile, To
  <2>2. c # NoConfig => c \in Valid
    BY LoadType DEF Types, Valid
  <2> QED BY <1>9, <2>1, <2>2 DEF LoadFile, Types, ReloaderCall, InReload
<1>10. ASSUME NEW p \in Reloaders, Lock(p) PROVE Types'
  <2>1. [reloader[p] EXCEPT !.pc = "build"] \in ReloaderCall
    BY <1>10, CallTypes DEF Lock, InReload, ReloaderCall
  <2> QED BY <1>10, <2>1 DEF Lock, To, Types
<1>11. ASSUME NEW p \in Reloaders, Build(p) PROVE Types'
  <2>1. reloader[p] \in [pc : InReload, cfg : Valid, prev : Nat, next : Nat]
    BY <1>11, CallTypes DEF Build, InReload
  <2>2. runtimes' \in Seq(Valid) /\ Built \in Nat
    BY <1>11, <2>1, OpenedType DEF Build, Types
  <2>3. [reloader[p] EXCEPT !.pc = "swap", !.next = Built + 1] \in ReloaderCall
    <3> DEFINE n == Built + 1
    <3>1. n \in Nat
      BY <2>2
    <3> HIDE DEF n
    <3>2. [reloader[p] EXCEPT !.pc = "swap", !.next = n] \in ReloaderCall
      BY <2>1, <3>1 DEF InReload, ReloaderCall
    <3> QED BY <3>2 DEF n
  <2>4. Done \in ReloaderCall
    BY DEF ReloaderCall
  <2> QED BY <1>11, <2>2, <2>3, <2>4 DEF Build, To, Types, AfterFailure
<1>12. ASSUME NEW p \in Reloaders, Swap(p) PROVE Types'
  <2>1. reloader[p].next \in Nat /\ Done \in ReloaderCall
    BY <1>12, CallTypes DEF Swap, InReload, ReloaderCall
  <2>2. Closer(current) \in [runtime : Nat, left : 0..Delay]
    BY ReloadAssumption DEF Types, Closer
  <2> QED BY <1>12, <2>1, <2>2 DEF Swap, To, Types, Previous
<1>13. ASSUME NEW n \in 1..Built, Close(n) PROVE Types'
  BY <1>13 DEF Close, Types
<1>14. ASSUME NEW r \in Reqs, Take(r) PROVE Types'
  <2>1. [pc |-> "reserve", runtime |-> current, age |-> 0] \in ReqCall
    BY ReloadAssumption DEF Types, ReqCall
  <2> QED BY <1>14, <2>1 DEF Take, Types
<1>15. ASSUME NEW r \in Reqs, Reserve(r) PROVE Types'
  <2>1. [req[r] EXCEPT !.pc = "upstream"] \in ReqCall /\ Done \in ReqCall
    BY <1>15, CallTypes DEF Reserve, InProgress, ReqCall
  <2> QED BY <1>15, <2>1 DEF Reserve, Types
<1>16. ASSUME NEW r \in Reqs, Settle(r) PROVE Types'
  <2>1. \A failure \in {"uncounted", "unreturned"} :
           [req[r] EXCEPT !.pc = failure] \in ReqCall /\ Done \in ReqCall
    BY <1>16, CallTypes DEF Settle, InProgress, ReqCall
  <2> QED BY <1>16, <2>1 DEF Settle, Types
<1>17. CASE UNCHANGED reloadvars
  BY <1>17 DEF reloadvars, Types
<1> QED BY <1>1, <1>2, <1>3, <1>4, <1>5, <1>6, <1>7, <1>8, <1>9, <1>10, <1>11,
           <1>12, <1>13, <1>14, <1>15, <1>16, <1>17 DEF ReloadNext, Quiet

-------------------------------------------------------------------------------
(* Requests: time makes them older, and nothing else; a new one has the    *)
(* runtime in force.                                                       *)

LEMMA RequestsAge ==
    ASSUME Types, Tick, NEW r \in Reqs, InProgress(r)'
    PROVE  /\ InProgress(r) /\ req'[r].runtime = req[r].runtime
           /\ req'[r].age = IF req[r].age < Delay THEN req[r].age + 1 ELSE req[r].age
<1>1. CASE InProgress(r) /\ req[r].age < Delay
  <2> DEFINE n == req[r].age + 1
  <2>1. req[r] \in [pc : {"reserve", "upstream"}, runtime : Nat, age : 0..Delay]
    BY <1>1, CallTypes
  <2>2. req'[r] = [req[r] EXCEPT !.age = n]
    BY <1>1 DEF Tick
  <2>3. req'[r].age = n /\ req'[r].runtime = req[r].runtime
    <3> HIDE DEF n
    <3> QED BY <2>1, <2>2
  <2> QED BY <1>1, <2>3
<1>2. CASE ~(InProgress(r) /\ req[r].age < Delay)
  <2>1. req'[r] = req[r]
    BY <1>2 DEF Tick
  <2> QED BY <1>2, <2>1 DEF InProgress
<1> QED BY <1>1, <1>2

LEMMA RequestsMove ==
    ASSUME Types, NEW r \in Reqs, Take(r) \/ Reserve(r) \/ Settle(r),
           NEW q \in Reqs, InProgress(q)'
    PROVE  \/ /\ InProgress(q)
              /\ req'[q].runtime = req[q].runtime /\ req'[q].age = req[q].age
           \/ Up /\ req'[q].runtime = current /\ req'[q].age = 0
<1>1. CASE q # r
  <2>1. req'[q] = req[q]
    BY <1>1 DEF Take, Reserve, Settle, Types
  <2> QED BY <2>1 DEF InProgress
<1>2. CASE q = r /\ Take(r)
  BY <1>2 DEF Take, Types
<1>3. CASE q = r /\ Reserve(r)
  <2>1. req[r] \in [pc : {"reserve", "upstream"}, runtime : Nat, age : 0..Delay]
    BY <1>3, CallTypes DEF Reserve, InProgress
  <2>2. req'[r] = Done \/ req'[r] = [req[r] EXCEPT !.pc = "upstream"]
    BY <1>3 DEF Reserve, Types
  <2> QED BY <1>3, <2>1, <2>2 DEF InProgress, Done
<1>4. CASE q = r /\ Settle(r)
  <2>1. req[r] \in [pc : {"reserve", "upstream"}, runtime : Nat, age : 0..Delay]
    BY <1>4, CallTypes DEF Settle, InProgress
  <2>2. \/ req'[r] = Done
        \/ \E failure \in {"uncounted", "unreturned"} :
              req'[r] = [req[r] EXCEPT !.pc = failure]
    BY <1>4 DEF Settle, Types
  <2> QED BY <1>4, <2>1, <2>2 DEF InProgress, Done
<1> QED BY <1>1, <1>2, <1>3, <1>4

(* The sleepers that remain grow older with time, at the same rate. *)
LEMMA SleepersAge ==
    ASSUME Types, Tick, NEW g \in closers'
    PROVE  \E h \in closers : /\ g.runtime = h.runtime
                              /\ g.left = IF h.left > 0 THEN h.left - 1 ELSE 0
<1>1. PICK h \in closers : g = [h EXCEPT !.left = IF @ > 0 THEN @ - 1 ELSE 0]
  BY DEF Tick
<1> DEFINE n == IF h.left > 0 THEN h.left - 1 ELSE 0
<1>2. g.runtime = h.runtime /\ g.left = n
  <2>1. h \in [runtime : Nat, left : 0..Delay] /\ g = [h EXCEPT !.left = n]
    BY <1>1 DEF Types
  <2> HIDE DEF n
  <2> QED BY <2>1
<1> QED BY <1>2

-------------------------------------------------------------------------------
(* Numbers.                                                                *)

LEMMA NumberedStep ==
    Types /\ Numbered /\ Exclusive /\ Spared /\ [ReloadNext]_reloadvars => Numbered'
<1> SUFFICES ASSUME Types, Numbered, Exclusive, Spared, [ReloadNext]_reloadvars
             PROVE  Numbered'
  OBVIOUS
<1> USE DEF store, calls
<1>0. Built \in Nat
  BY DEF Types, Built
<1>1. CASE Start
  <2>1. PICK c \in Load \ {NoConfig} : Opened(c)
    BY <1>1 DEF Start
  <2>2. c \in Valid
    BY <2>1, LoadType DEF Types, Valid
  <2>3. Built' = Built + 1 /\ open' = open \cup {Built'}
    BY <2>1, <2>2, OpenedType DEF Types
  <2> QED BY <1>0, <1>1, <2>3 DEF Start, Numbered, InProgress
<1>2. CASE Crash
  <2>1. Built' = Built
    BY <1>2 DEF Crash, Built
  <2>2. \A r \in Reqs : ~InProgress(r)'
    BY <1>2 DEF Crash, Lost, InProgress, Idle, Done, Types
  <2> QED BY <1>0, <1>2, <2>1, <2>2 DEF Crash, Numbered
<1>3. CASE HandEdit
  BY <1>3 DEF HandEdit, Numbered, Built, InProgress
<1>4. CASE Tick
  <2>1. Built' = Built
    BY <1>4 DEF Tick, Built
  <2>2. \A g \in closers' : \E h \in closers : g.runtime = h.runtime
    BY <1>4, SleepersAge
  <2>3. ASSUME NEW r \in Reqs, InProgress(r)' PROVE req'[r].runtime \in 1..Built
    <3>1. InProgress(r) /\ req'[r].runtime = req[r].runtime
      BY <1>4, <2>3, RequestsAge
    <3> QED BY <3>1 DEF Numbered
  <2> QED BY <1>4, <2>1, <2>2, <2>3 DEF Tick, Numbered
<1>5. ASSUME NEW s \in Savers, Fetch(s) \/ SaveBegin(s) \/ Truncate(s) \/ Write(s)
      PROVE  Numbered'
  BY <1>5 DEF Fetch, SaveBegin, Truncate, Write, Numbered, Built, InProgress
<1>6. ASSUME NEW p \in Reloaders, LoadFile(p) \/ Lock(p)
      PROVE  Numbered'
  BY <1>6 DEF LoadFile, Lock, Numbered, Built, InProgress
<1>7. ASSUME NEW p \in Reloaders, Build(p) PROVE Numbered'
  <2>1. reloader[p].cfg \in Valid
    BY <1>7, CallTypes DEF Build, InReload
  <2>2. Built' = Built + 1 /\ open' = open \cup {Built'}
    BY <1>7, <2>1, OpenedType DEF Build, Types
  <2> QED BY <1>0, <1>7, <2>2 DEF Build, Numbered, InProgress
<1>8. ASSUME NEW p \in Reloaders, Swap(p) PROVE Numbered'
  <2>1. Built' = Built /\ current' = reloader[p].next
    BY <1>8 DEF Swap, Built
  <2>2. current \in 1..Built
    BY <1>0, <1>8 DEF Swap, Exclusive, InReload, Up, Numbered
  <2>3. current' \in 1..Built
    BY <1>8, <2>1 DEF Swap, Spared, Numbered
  <2>4. \A g \in closers' : g.runtime \in 1..Built
    BY <1>8, <2>2 DEF Swap, Closer, Previous, Numbered
  <2> QED BY <1>0, <1>8, <2>1, <2>3, <2>4 DEF Swap, Numbered, InProgress
<1>9. ASSUME NEW n \in 1..Built, Close(n) PROVE Numbered'
  BY <1>9 DEF Close, Numbered, Built, InProgress
<1>10. ASSUME NEW r \in Reqs, Take(r) \/ Reserve(r) \/ Settle(r) PROVE Numbered'
  <2>1. Built' = Built /\ UNCHANGED <<open, current, abandoned, closers>>
    BY <1>10 DEF Take, Reserve, Settle, Built
  <2>2. ASSUME NEW q \in Reqs, InProgress(q)' PROVE req'[q].runtime \in 1..Built
    <3>1. Up => current \in 1..Built
      BY <1>0 DEF Up, Numbered
    <3> QED BY <1>10, <2>2, <3>1, RequestsMove DEF Numbered
  <2> QED BY <2>1, <2>2 DEF Numbered
<1>11. CASE UNCHANGED reloadvars
  BY <1>11 DEF reloadvars, Numbered, Built, InProgress
<1> QED BY <1>1, <1>2, <1>3, <1>4, <1>5, <1>6, <1>7, <1>8, <1>9, <1>10, <1>11
        DEF ReloadNext, Quiet

-------------------------------------------------------------------------------
(* The mutex.                                                              *)

(* A build opens the next runtime, and then swaps or gives up. *)
LEMMA BuildMoves ==
    ASSUME Types, NEW p \in Reloaders, Build(p)
    PROVE  /\ Built \in Nat /\ Built' = Built + 1 /\ open' = open \cup {Built'}
           /\ \A q \in Reloaders : q # p => reloader'[q] = reloader[q]
           /\ \/ /\ reloader'[p].pc = "swap" /\ reloader'[p].next = Built'
                 /\ mu' = mu /\ abandoned' = abandoned
              \/ /\ reloader'[p].pc = "done"
                 /\ mu' = "free" /\ abandoned' = abandoned \cup {Built'}
<1> DEFINE n == Built + 1
           call == [reloader[p] EXCEPT !.pc = "swap", !.next = n]
<1>1. reloader[p] \in [pc : InReload, cfg : Valid, prev : Nat, next : Nat]
  BY CallTypes DEF Build, InReload
<1>2. Built \in Nat /\ Built' = n /\ open' = open \cup {n}
  BY <1>1, OpenedType DEF Build, Types
<1>3. call.pc = "swap" /\ call.next = n
  <2> HIDE DEF n
  <2> QED BY <1>1
<1>4. \/ reloader' = [reloader EXCEPT ![p] = call] /\ UNCHANGED <<mu, abandoned>>
      \/ /\ reloader' = [reloader EXCEPT ![p] = Done]
         /\ mu' = "free" /\ abandoned' = abandoned \cup {n}
  BY DEF Build, To, AfterFailure
<1>5. reloader \in [Reloaders -> ReloaderCall]
  BY DEF Types
<1> HIDE DEF n, call
<1>6. CASE reloader' = [reloader EXCEPT ![p] = call] /\ UNCHANGED <<mu, abandoned>>
  BY <1>2, <1>3, <1>5, <1>6 DEF n
<1>7. CASE /\ reloader' = [reloader EXCEPT ![p] = Done]
           /\ mu' = "free" /\ abandoned' = abandoned \cup {n}
  BY <1>2, <1>5, <1>7 DEF n, Done
<1> QED BY <1>4, <1>6, <1>7

LEMMA ExclusiveStep ==
    Types /\ Numbered /\ Exclusive /\ Spared /\ [ReloadNext]_reloadvars => Exclusive'
<1> SUFFICES ASSUME Types, Numbered, Exclusive, Spared, [ReloadNext]_reloadvars
             PROVE  Exclusive'
  OBVIOUS
<1> USE DEF store, calls
<1>1. CASE Start
  BY <1>1 DEF Start, Exclusive, Up, InReload, Types
<1>2. CASE Crash
  <2>1. \A p \in Reloaders : reloader'[p] \in {Idle, Done} /\ mu' # p
    BY <1>2, ReloadAssumption DEF Crash, Lost, Types
  <2> QED BY <2>1 DEF Exclusive, InReload, Idle, Done
<1>3. CASE HandEdit \/ Tick
  BY <1>3 DEF HandEdit, Tick, Exclusive, Up
<1>4. ASSUME NEW s \in Savers, Fetch(s) \/ SaveBegin(s) \/ Truncate(s) \/ Write(s)
      PROVE  Exclusive'
  BY <1>4 DEF Fetch, SaveBegin, Truncate, Write, Exclusive, Up
<1>5. ASSUME NEW p \in Reloaders, LoadFile(p) PROVE Exclusive'
  <2>1. /\ reloader'[p].pc \in {"lock", "done"} /\ reloader[p].pc = "idle"
        /\ \A q \in Reloaders : q # p => reloader'[q] = reloader[q]
    BY <1>5 DEF LoadFile, To, Done, Types
  <2> QED BY <1>5, <2>1 DEF LoadFile, Exclusive, Up, InReload
<1>6. ASSUME NEW p \in Reloaders, Lock(p) PROVE Exclusive'
  <2>1. /\ reloader'[p].pc = "build"
        /\ \A q \in Reloaders : q # p => reloader'[q] = reloader[q]
    BY <1>6, CallTypes DEF Lock, To, Types, InReload
  <2> QED BY <1>6, <2>1, ReloadAssumption DEF Lock, Exclusive, Up, InReload
<1>7. ASSUME NEW p \in Reloaders, Build(p) PROVE Exclusive'
  <2>1. current' = current
    BY <1>7 DEF Build
  <2>2. mu = p
    BY <1>7 DEF Build, Exclusive
  <2> QED BY <1>7, <2>1, <2>2, BuildMoves, ReloadAssumption DEF Exclusive, Up, InReload
<1>8. ASSUME NEW p \in Reloaders, Swap(p) PROVE Exclusive'
  <2>1. /\ reloader'[p].pc = "done"
        /\ \A q \in Reloaders : q # p => reloader'[q] = reloader[q]
    BY <1>8 DEF Swap, To, Types, Done
  <2>2. mu = p /\ mu' = "free"
    BY <1>8 DEF Swap, Exclusive
  <2>3. current' # 0
    <3>1. current' \in 1..Built
      BY <1>8 DEF Swap, Spared, Numbered
    <3>2. Built \in Nat
      BY DEF Types, Built
    <3> QED BY <3>1, <3>2
  <2> QED BY <2>1, <2>2, <2>3, ReloadAssumption DEF Exclusive, Up
<1>9. ASSUME NEW n \in 1..Built, Close(n) PROVE Exclusive'
  BY <1>9 DEF Close, Exclusive, Up
<1>10. ASSUME NEW r \in Reqs, Take(r) \/ Reserve(r) \/ Settle(r) PROVE Exclusive'
  BY <1>10 DEF Take, Reserve, Settle, Exclusive, Up
<1>11. CASE UNCHANGED reloadvars
  BY <1>11 DEF reloadvars, Exclusive, Up
<1> QED BY <1>1, <1>2, <1>3, <1>4, <1>5, <1>6, <1>7, <1>8, <1>9, <1>10, <1>11
        DEF ReloadNext, Quiet

-------------------------------------------------------------------------------
(* What is spared: the mutex lets nobody else swap, and a new number is    *)
(* nobody's to close.                                                      *)

LEMMA SparedStep ==
    Types /\ Numbered /\ Exclusive /\ Spared /\ [ReloadNext]_reloadvars => Spared'
<1> SUFFICES ASSUME Types, Numbered, Exclusive, Spared, [ReloadNext]_reloadvars
             PROVE  Spared'
  OBVIOUS
<1> USE DEF store, calls
<1>0. Built \in Nat
  BY DEF Types, Built
<1>1. CASE Start
  <2>1. current' \in open' /\ current' \notin 1..Built /\ closers' = closers
    BY <1>0, <1>1 DEF Start, Opened
  <2>2. \A p \in Reloaders : reloader'[p].pc # "swap"
    BY <1>1 DEF Start, Exclusive, InReload
  <2> QED BY <2>1, <2>2 DEF Spared, Numbered
<1>2. CASE Crash
  <2>1. \A p \in Reloaders : reloader'[p] \in {Idle, Done}
    BY <1>2 DEF Crash, Lost, Types
  <2> QED BY <1>2, <2>1 DEF Crash, Spared, Up, Idle, Done
<1>3. CASE HandEdit
  BY <1>3 DEF HandEdit, Spared, Up
<1>4. CASE Tick
  <2>1. \A g \in closers' : \E h \in closers : g.runtime = h.runtime
    BY <1>4, SleepersAge
  <2> QED BY <1>4, <2>1 DEF Tick, Spared, Up
<1>5. ASSUME NEW s \in Savers, Fetch(s) \/ SaveBegin(s) \/ Truncate(s) \/ Write(s)
      PROVE  Spared'
  BY <1>5 DEF Fetch, SaveBegin, Truncate, Write, Spared, Up
<1>6. ASSUME NEW p \in Reloaders, LoadFile(p) \/ Lock(p) PROVE Spared'
  <2>1. CASE LoadFile(p)
    <3>1. /\ reloader'[p].pc \in {"lock", "done"}
          /\ \A q \in Reloaders : q # p => reloader'[q] = reloader[q]
      BY <2>1 DEF LoadFile, To, Done, Types
    <3> QED BY <2>1, <3>1 DEF LoadFile, Spared, Up
  <2>2. CASE Lock(p)
    <3>1. /\ reloader'[p].pc = "build"
          /\ \A q \in Reloaders : q # p => reloader'[q] = reloader[q]
      BY <2>2, CallTypes DEF Lock, To, Types, InReload
    <3> QED BY <2>2, <3>1 DEF Lock, Spared, Up
  <2> QED BY <1>6, <2>1, <2>2
<1>7. ASSUME NEW p \in Reloaders, Build(p) PROVE Spared'
  <2>1. UNCHANGED <<current, closers>>
    BY <1>7 DEF Build
  <2>2. Built' \in open' /\ Built' \notin 1..Built /\ open \subseteq open'
    BY <1>7, BuildMoves
  <2>3. Up => Built' # current
    BY <1>0, <2>2 DEF Numbered, Up
  <2>4. Up
    BY <1>7 DEF Build, Exclusive, InReload
  <2>5. \A g \in closers : g.runtime # Built'
    BY <2>2 DEF Numbered
  <2>6. ASSUME NEW q \in Reloaders, reloader'[q].pc = "swap"
        PROVE  q = p /\ reloader'[q].next = Built'
    <3>1. q = p
      BY <1>7, <2>6, BuildMoves DEF Build, Exclusive
    <3> QED BY <1>7, <2>6, <3>1, BuildMoves
  <2> QED BY <2>1, <2>2, <2>3, <2>4, <2>5, <2>6 DEF Spared, Up
<1>8. ASSUME NEW p \in Reloaders, Swap(p) PROVE Spared'
  <2>1. \A q \in Reloaders : reloader'[q].pc # "swap"
    <3>1. /\ reloader'[p].pc = "done"
          /\ \A q \in Reloaders : q # p => reloader'[q] = reloader[q]
      BY <1>8 DEF Swap, To, Types, Done
    <3> QED BY <1>8, <3>1 DEF Swap, Exclusive
  <2>2. current' \in open' /\ current' # current /\ \A g \in closers : g.runtime # current'
    BY <1>8 DEF Swap, Spared
  <2>3. \A g \in closers' : g.runtime # current'
    BY <1>8, <2>2 DEF Swap, Closer, Previous
  <2> QED BY <2>1, <2>2, <2>3 DEF Spared
<1>9. ASSUME NEW n \in 1..Built, Close(n) PROVE Spared'
  <2>1. PICK g \in closers : g.runtime = n /\ closers' = closers \ {g}
    BY <1>9 DEF Close
  <2> QED BY <1>9, <2>1 DEF Close, Spared, Up
<1>10. ASSUME NEW r \in Reqs, Take(r) \/ Reserve(r) \/ Settle(r) PROVE Spared'
  BY <1>10 DEF Take, Reserve, Settle, Spared, Up
<1>11. CASE UNCHANGED reloadvars
  BY <1>11 DEF reloadvars, Spared, Up
<1> QED BY <1>1, <1>2, <1>3, <1>4, <1>5, <1>6, <1>7, <1>8, <1>9, <1>10, <1>11
        DEF ReloadNext, Quiet

-------------------------------------------------------------------------------
(* What is sheltered: a client is closed when its sleeper has slept Delay, *)
(* and by then every request that holds it is that old.                    *)

LEMMA ShelteredStep ==
    /\ Types /\ Numbered /\ Exclusive /\ Spared /\ Sheltered
    /\ [ReloadNext]_reloadvars
    => Sheltered'
<1> SUFFICES ASSUME Types, Numbered, Exclusive, Spared, Sheltered, [ReloadNext]_reloadvars
             PROVE  Sheltered'
  OBVIOUS
<1> USE DEF store, calls
<1>0. Built \in Nat /\ Delay \in Nat
  BY ReloadAssumption DEF Types, Built
<1>1. CASE Start
  BY <1>1 DEF Start, Opened, Sheltered, InProgress
<1>2. CASE Crash
  <2>1. \A r \in Reqs : ~InProgress(r)'
    BY <1>2 DEF Crash, Lost, InProgress, Idle, Done, Types
  <2> QED BY <2>1 DEF Sheltered
<1>3. CASE HandEdit
  BY <1>3 DEF HandEdit, Sheltered, InProgress
<1>4. CASE Tick
  <2> SUFFICES ASSUME NEW r \in Reqs, InProgress(r)'
               PROVE  /\ req'[r].age < Delay => req'[r].runtime \in open'
                      /\ \A g \in closers' :
                            g.runtime = req'[r].runtime => g.left + req'[r].age >= Delay
    BY DEF Sheltered
  <2>1. /\ InProgress(r) /\ req'[r].runtime = req[r].runtime
        /\ req'[r].age = IF req[r].age < Delay THEN req[r].age + 1 ELSE req[r].age
    BY <1>4, RequestsAge
  <2>2. req[r].age \in Nat
    BY <2>1, CallTypes, <1>0
  <2>3. open' = open
    BY <1>4 DEF Tick
  <2>4. req'[r].age < Delay => req[r].age < Delay
    BY <1>0, <2>1, <2>2
  <2>5. ASSUME NEW g \in closers', g.runtime = req'[r].runtime
        PROVE  g.left + req'[r].age >= Delay
    <3>1. PICK h \in closers : /\ g.runtime = h.runtime
                               /\ g.left = IF h.left > 0 THEN h.left - 1 ELSE 0
      BY <1>4, SleepersAge
    <3>2. h.left \in Nat
      BY <1>0 DEF Types
    <3>3. h.left + req[r].age >= Delay
      BY <2>1, <2>5, <3>1 DEF Sheltered
    <3> DEFINE hl == h.left
               ra == req[r].age
               gl == g.left
               na == req'[r].age
    <3> HIDE DEF hl, ra, gl, na
    <3>4. gl + na >= Delay
      <4>1. /\ hl \in Nat /\ ra \in Nat /\ hl + ra >= Delay
            /\ gl = IF hl > 0 THEN hl - 1 ELSE 0
            /\ na = IF ra < Delay THEN ra + 1 ELSE ra
        BY <2>1, <2>2, <3>1, <3>2, <3>3 DEF hl, ra, gl, na
      <4> QED BY <1>0, <4>1
    <3> QED BY <3>4 DEF gl, na
  <2> QED BY <2>1, <2>3, <2>4, <2>5 DEF Sheltered
<1>5. ASSUME NEW s \in Savers, Fetch(s) \/ SaveBegin(s) \/ Truncate(s) \/ Write(s)
      PROVE  Sheltered'
  BY <1>5 DEF Fetch, SaveBegin, Truncate, Write, Sheltered, InProgress
<1>6. ASSUME NEW p \in Reloaders, LoadFile(p) \/ Lock(p) PROVE Sheltered'
  BY <1>6 DEF LoadFile, Lock, Sheltered, InProgress
<1>7. ASSUME NEW p \in Reloaders, Build(p) PROVE Sheltered'
  BY <1>7 DEF Build, Opened, Sheltered, InProgress
<1>8. ASSUME NEW p \in Reloaders, Swap(p) PROVE Sheltered'
  <2>1. closers' = closers \cup {Closer(current)} /\ UNCHANGED <<open, req>>
    BY <1>8 DEF Swap, Previous
  <2>2. ASSUME NEW r \in Reqs, InProgress(r) PROVE Closer(current).left + req[r].age >= Delay
    <3>1. req[r].age \in Nat
      BY <1>0, <2>2, CallTypes
    <3> QED BY <1>0, <3>1 DEF Closer
  <2> QED BY <2>1, <2>2 DEF Sheltered, InProgress
<1>9. ASSUME NEW n \in 1..Built, Close(n) PROVE Sheltered'
  <2>1. PICK g \in closers : g.runtime = n /\ g.left = 0 /\ closers' = closers \ {g}
    BY <1>9 DEF Close
  <2>2. open' = open \ {n} /\ req' = req
    BY <1>9 DEF Close
  <2>3. ASSUME NEW r \in Reqs, InProgress(r), req[r].age < Delay
        PROVE  req[r].runtime # n
    <3>1. req[r].age \in Nat
      BY <1>0, <2>3, CallTypes
    <3>2. req[r].runtime = n => g.left + req[r].age >= Delay
      BY <2>1, <2>3 DEF Sheltered
    <3> QED BY <1>0, <2>1, <2>3, <3>1, <3>2
  <2> QED BY <2>1, <2>2, <2>3 DEF Sheltered, InProgress
<1>10. ASSUME NEW r \in Reqs, Take(r) \/ Reserve(r) \/ Settle(r) PROVE Sheltered'
  <2>1. UNCHANGED <<open, current, closers>>
    BY <1>10 DEF Take, Reserve, Settle
  <2>2. ASSUME NEW q \in Reqs, InProgress(q)'
        PROVE  /\ req'[q].age < Delay => req'[q].runtime \in open
               /\ \A g \in closers :
                     g.runtime = req'[q].runtime => g.left + req'[q].age >= Delay
    <3>1. CASE Up /\ req'[q].runtime = current
      BY <3>1 DEF Spared
    <3>2. CASE /\ InProgress(q)
               /\ req'[q].runtime = req[q].runtime /\ req'[q].age = req[q].age
      BY <3>2 DEF Sheltered
    <3> QED BY <1>10, <2>2, <3>1, <3>2, RequestsMove
  <2> QED BY <2>1, <2>2 DEF Sheltered
<1>11. CASE UNCHANGED reloadvars
  BY <1>11 DEF reloadvars, Sheltered, InProgress
<1> QED BY <1>1, <1>2, <1>3, <1>4, <1>5, <1>6, <1>7, <1>8, <1>9, <1>10, <1>11
        DEF ReloadNext, Quiet

-------------------------------------------------------------------------------
(* Every open client is accounted for.                                     *)

(* Nobody stops sleeping because time passes. *)
LEMMA SleepersRemain ==
    ASSUME Types, Tick, NEW h \in closers
    PROVE  \E g \in closers' : g.runtime = h.runtime
<1> DEFINE n == IF h.left > 0 THEN h.left - 1 ELSE 0
           g == [h EXCEPT !.left = n]
<1>1. g \in closers'
  BY DEF Tick
<1>2. g.runtime = h.runtime
  <2>1. h \in [runtime : Nat, left : 0..Delay]
    BY DEF Types
  <2> HIDE DEF n
  <2> QED BY <2>1
<1> QED BY <1>1, <1>2

LEMMA AccountedStep ==
    /\ Types /\ Numbered /\ Exclusive /\ Spared /\ OpenClientsAccounted
    /\ [ReloadNext]_reloadvars
    => OpenClientsAccounted'
<1> SUFFICES ASSUME Types, Numbered, Exclusive, Spared, OpenClientsAccounted,
                    [ReloadNext]_reloadvars
             PROVE  OpenClientsAccounted'
  OBVIOUS
<1> USE DEF store, calls
<1>0. Built \in Nat
  BY DEF Types, Built
<1>1. CASE Start
  <2>1. open' = open \cup {current'} /\ UNCHANGED <<closers, abandoned>>
    BY <1>1 DEF Start, Opened
  <2>2. \A n \in open : n # current /\ \A p \in Reloaders : reloader[p].pc # "swap"
    BY <1>0, <1>1 DEF Start, Up, Numbered, Exclusive, InReload
  <2> QED BY <2>1, <2>2 DEF OpenClientsAccounted, Up
<1>2. CASE Crash
  BY <1>2 DEF Crash, OpenClientsAccounted, Up
<1>3. CASE HandEdit
  BY <1>3 DEF HandEdit, OpenClientsAccounted, Up
<1>4. CASE Tick
  <2>1. UNCHANGED <<open, current, abandoned, reloader>>
    BY <1>4 DEF Tick
  <2>2. \A h \in closers : \E g \in closers' : g.runtime = h.runtime
    BY <1>4, SleepersRemain
  <2> QED BY <2>1, <2>2 DEF OpenClientsAccounted, Up
<1>5. ASSUME NEW s \in Savers, Fetch(s) \/ SaveBegin(s) \/ Truncate(s) \/ Write(s)
      PROVE  OpenClientsAccounted'
  BY <1>5 DEF Fetch, SaveBegin, Truncate, Write, OpenClientsAccounted, Up
<1>6. ASSUME NEW p \in Reloaders, LoadFile(p) \/ Lock(p) PROVE OpenClientsAccounted'
  <2>1. /\ UNCHANGED <<open, current, abandoned, closers>>
        /\ reloader[p].pc # "swap"
        /\ \A q \in Reloaders : q # p => reloader'[q] = reloader[q]
    BY <1>6 DEF LoadFile, Lock, To, Types
  <2>2. \A q \in Reloaders : reloader[q].pc = "swap" => reloader'[q] = reloader[q]
    BY <2>1
  <2> QED BY <2>1, <2>2 DEF OpenClientsAccounted, Up
<1>7. ASSUME NEW p \in Reloaders, Build(p) PROVE OpenClientsAccounted'
  <2>1. UNCHANGED <<current, closers>> /\ reloader[p].pc # "swap"
    BY <1>7 DEF Build
  <2>2. open' = open \cup {Built'} /\ abandoned \subseteq abandoned'
    BY <1>7, BuildMoves
  <2>3. \/ Built' \in abandoned'
        \/ \E q \in Reloaders : reloader'[q].pc = "swap" /\ reloader'[q].next = Built'
    BY <1>7, BuildMoves
  <2>4. \A q \in Reloaders : reloader[q].pc = "swap" => reloader'[q] = reloader[q]
    BY <1>7, <2>1, BuildMoves
  <2> QED BY <2>1, <2>2, <2>3, <2>4 DEF OpenClientsAccounted, Up
<1>8. ASSUME NEW p \in Reloaders, Swap(p) PROVE OpenClientsAccounted'
  <2>1. /\ closers' = closers \cup {Closer(current)} /\ UNCHANGED <<open, abandoned>>
        /\ current' = reloader[p].next /\ current' \in open
    BY <1>8 DEF Swap, Previous, Spared
  <2>2. \A q \in Reloaders : reloader[q].pc = "swap" => q = p
    BY <1>8 DEF Swap, Exclusive
  <2>3. Closer(current).runtime = current
    BY DEF Closer
  <2>4. ASSUME NEW n \in open
        PROVE  n = current' \/ n \in abandoned' \/ \E g \in closers' : g.runtime = n
    BY <2>1, <2>2, <2>3 DEF OpenClientsAccounted
  <2> QED BY <2>1, <2>4 DEF OpenClientsAccounted, Up
<1>9. ASSUME NEW n \in 1..Built, Close(n) PROVE OpenClientsAccounted'
  <2>1. PICK g \in closers : g.runtime = n /\ closers' = closers \ {g}
    BY <1>9 DEF Close
  <2>2. open' = open \ {n} /\ UNCHANGED <<current, abandoned, reloader>>
    BY <1>9 DEF Close
  <2>3. Up => current # n
    BY <2>1 DEF Spared
  <2> QED BY <2>1, <2>2, <2>3 DEF OpenClientsAccounted, Up
<1>10. ASSUME NEW r \in Reqs, Take(r) \/ Reserve(r) \/ Settle(r)
       PROVE  OpenClientsAccounted'
  BY <1>10 DEF Take, Reserve, Settle, OpenClientsAccounted, Up
<1>11. CASE UNCHANGED reloadvars
  BY <1>11 DEF reloadvars, OpenClientsAccounted, Up
<1> QED BY <1>1, <1>2, <1>3, <1>4, <1>5, <1>6, <1>7, <1>8, <1>9, <1>10, <1>11
        DEF ReloadNext, Quiet

-------------------------------------------------------------------------------
(* The theorems.                                                           *)

LEMMA InvInit == ReloadInit => ReloadInv
<1> SUFFICES ASSUME ReloadInit PROVE ReloadInv
  OBVIOUS
<1>1. Types
  BY TypesInit
<1>2. /\ open = {} /\ closers = {} /\ abandoned = {} /\ current = 0 /\ mu = "free"
      /\ Built = 0
      /\ \A p \in Reloaders : reloader[p].pc = "idle"
      /\ \A r \in Reqs : ~InProgress(r)
  BY DEF ReloadInit, Built, Idle, InProgress
<1>3. Numbered /\ Spared /\ Sheltered /\ OpenClientsAccounted
  BY <1>2 DEF Numbered, Spared, Sheltered, OpenClientsAccounted, Up
<1>4. Exclusive
  BY <1>2, ReloadAssumption DEF Exclusive, InReload
<1> QED BY <1>1, <1>3, <1>4 DEF ReloadInv

LEMMA InvAlways == ReloadSpec => []ReloadInv
<1>1. ReloadInv /\ [ReloadNext]_reloadvars => ReloadInv'
  BY TypesStep, NumberedStep, ExclusiveStep, SparedStep, ShelteredStep, AccountedStep
     DEF ReloadInv
<1> QED BY InvInit, <1>1, PTL DEF ReloadSpec

(* Only valid configurations are built, fetched, saved or carried by a     *)
(* reload; requests and sleepers have numbers of runtimes that were built; *)
(* and the mutex is held by the one reload that builds or swaps.           *)
THEOREM TypeCorrect == ReloadSpec => []ReloadTypeOK
<1>1. ReloadInv => ReloadTypeOK
  <2> SUFFICES ASSUME ReloadInv PROVE ReloadTypeOK
    OBVIOUS
  <2>1. Types /\ Numbered /\ Exclusive
    BY DEF ReloadInv
  <2>2. \A n \in 1..Built : Validate(runtimes[n])
    BY <2>1 DEF Types, Built, Valid
  <2>3. \A p \in Reloaders : reloader[p].pc \in {"lock", "build", "swap"} => Validate(reloader[p].cfg)
    BY <2>1, CallTypes DEF InReload, Valid
  <2>4. \A s \in Savers : saver[s].pc \in {"fetched", "open", "write"} => Validate(saver[s].cfg)
    BY <2>1, CallTypes DEF Valid
  <2>5. \A r \in Reqs : InProgress(r) => req[r].runtime \in 1..Built /\ req[r].age \in 0..Delay
    BY <2>1, CallTypes DEF Numbered
  <2> QED BY <2>1, <2>2, <2>3, <2>4, <2>5 DEF Types, Numbered, Exclusive, ReloadTypeOK
<1> QED BY <1>1, InvAlways, PTL

(* Whatever the operators save, type into the file or leave half written,  *)
(* the configuration in force is one the program can work with.            *)
THEOREM OnlyUsableInForce == ReloadSpec => []InForceUsable
<1>1. ReloadInv => InForceUsable
  <2> SUFFICES ASSUME ReloadInv, Up PROVE Usable(runtimes[current])
    BY DEF InForceUsable
  <2>1. current \in 1..Len(runtimes) /\ runtimes \in Seq(Valid)
    BY DEF ReloadInv, Types, Numbered, Built, Up
  <2>2. runtimes[current] \in Valid
    BY <2>1
  <2> QED BY <2>2, ValidIsUsable DEF Valid
<1> QED BY <1>1, InvAlways, PTL

(* No client is lost: it is in force, about to be, abandoned when its      *)
(* runtime could not be built, or some goroutine will close it.            *)
THEOREM ClientsAccounted == ReloadSpec => []OpenClientsAccounted
<1>1. ReloadInv => OpenClientsAccounted
  BY DEF ReloadInv
<1> QED BY <1>1, InvAlways, PTL

(* However many reloads go on meanwhile, a request younger than the delay  *)
(* still has the client it reserved with.                                  *)
THEOREM ShortRequestsSafe == ReloadSpec => []ShortRequestsUnharmed
<1>1. ReloadInv => ShortRequestsUnharmed
  BY DEF ReloadInv, Sheltered, ShortRequestsUnharmed
<1> QED BY <1>1, InvAlways, PTL

===============================================================================
