----------------------------- MODULE RuntimeReload -----------------------------
(***************************************************************************)
(* Changing the configuration of a running process: operators edit the     *)
(* file or save a new configuration, reload it, and requests go on with    *)
(* the runtime they started with (handler/admin.go, config.Save and Load,  *)
(* middleware/runtime_store.go, bin/serve.go).                             *)
(*                                                                         *)
(* Reading or writing the file is one step; os.WriteFile is two, the file  *)
(* being cut to nothing before it is written.  The process may crash at    *)
(* any step.                                                               *)
(***************************************************************************)
EXTENDS Config, FiniteSets

CONSTANTS
    Savers,     \* calls of POST /__admin/config/save
    Reloaders,  \* calls of POST /__admin/config/reload
    Reqs,       \* requests
    FirstDoc,   \* the file at first
    Changes,    \* what an operator may change in a fetched configuration
    HandDocs,   \* what an operator may write to the file with an editor
    ParseURL(_),\* url.Parse accepts the target
    Delay,      \* how long an old runtime stays open, in ticks
    MaxCrashes  \* bound on the crashes

(* What a key of the configuration may be set to. *)
ValuesOf(k) ==
    {Defaults[k]}
        \cup {doc[k] : doc \in {d \in HandDocs \cup {FirstDoc, Env} : k \in DOMAIN d}}
        \cup {change.setting : change \in {c \in Changes : c.key = k}}

(* The types of Go: numbers are numbers, lists are numbered. *)
ASSUME ReloadAssumption ==
    /\ Delay \in Nat /\ MaxCrashes \in Nat
    /\ "free" \notin Reloaders
    /\ \A id \in ValuesOf("identity") : \A i \in DOMAIN id.extractors :
          /\ id.extractors[i].group \in Int
          /\ NumSubexp(id.extractors[i].regex) \in Nat
    /\ \A rules \in ValuesOf("rules") :
          DOMAIN rules \subseteq Nat /\ \A i \in DOMAIN rules : rules[i].count \in Int

VARIABLES
    file,       \* what is on disk
    runtimes,   \* every runtime built: its configuration, by number
    open,       \* the runtimes whose Redis client is open
    current,    \* RuntimeStore.current; 0 while the process is down
    mu,         \* RuntimeStore.mu: who holds it
    closers,    \* goroutines that sleep before they close a runtime
    abandoned,  \* history: runtimes given up half built
    saver, reloader, req,   \* the calls
    crashes

store == <<runtimes, open, current, mu, closers, abandoned>>
calls == <<saver, reloader, req>>
reloadvars == <<file, store, calls, crashes>>

Whole(doc) == [kind |-> "whole", doc |-> doc]
Mixed(doc) == [kind |-> "mixed", doc |-> doc]
Cut == [kind |-> "cut", doc |-> <<>>]

Idle == [pc |-> "idle"]
Done == [pc |-> "done"]
Up == current # 0
Built == Len(runtimes)

ReloadInit ==
    /\ file = Whole(FirstDoc)
    /\ runtimes = <<>> /\ open = {} /\ current = 0
    /\ mu = "free" /\ closers = {} /\ abandoned = {}
    /\ saver = [s \in Savers |-> Idle]
    /\ reloader = [p \in Reloaders |-> Idle]
    /\ req = [r \in Reqs |-> Idle]
    /\ crashes = 0

-------------------------------------------------------------------------------
(* Load: what may come of reading the file, a configuration or NoConfig.   *)
(* An empty file is a configuration of defaults.  What two writers at once *)
(* left is not YAML, or is the last one's document and some unknown keys.  *)
NoConfig == <<>>

Read ==
    CASE file.kind = "whole" -> {Unmarshalled(file.doc)}
      [] file.kind = "mixed" -> {Unmarshalled(file.doc), NoConfig}
      [] OTHER               -> {Unmarshalled(<<>>)}

Load == {IF c # NoConfig /\ Validate(c) THEN c ELSE NoConfig : c \in Read}

(* newRuntime: NewManager opens a client and pings Redis, then the target  *)
(* is parsed and the matchers compiled.  Nothing closes the client when    *)
(* one of them fails.                                                      *)
Builds(c, pinged) ==
    /\ pinged \/ c.failOpen
    /\ ParseURL(c.target)
    /\ \A i \in DOMAIN c.rules : \A d \in Domains : MatcherCompiles(c.rules[i].match[d])

Opened(c) == /\ runtimes' = Append(runtimes, c)
             /\ open' = open \cup {Built + 1}

(* StartServer: the process is up, or exits at once. *)
Start ==
    /\ ~Up
    /\ \E c \in Load \ {NoConfig}, pinged \in BOOLEAN :
          /\ Builds(c, pinged)
          /\ Opened(c)
    /\ current' = Built + 1
    /\ UNCHANGED <<file, mu, closers, abandoned, calls, crashes>>

(* The calls in progress end with the process, and so do its clients. *)
Lost(call) == [x \in DOMAIN call |-> IF call[x].pc = "idle" THEN Idle ELSE Done]

Crash ==
    /\ Up /\ crashes < MaxCrashes
    /\ crashes' = crashes + 1
    /\ current' = 0 /\ open' = {} /\ mu' = "free" /\ closers' = {} /\ abandoned' = {}
    /\ saver' = Lost(saver) /\ reloader' = Lost(reloader) /\ req' = Lost(req)
    /\ UNCHANGED <<file, runtimes>>

-------------------------------------------------------------------------------
(* SaveConfig, by an operator who fetched the configuration in force with  *)
(* GetConfig before.  No lock orders the writers.                          *)

Fetch(s) ==
    /\ Up /\ saver[s].pc = "idle"
    /\ saver' = [saver EXCEPT ![s] = [pc |-> "fetched", cfg |-> runtimes[current]]]
    /\ UNCHANGED <<file, store, reloader, req, crashes>>

(* bindEditableConfig copies every field; only the durations can be refused. *)
Edited(cfg, change) == [cfg EXCEPT ![change.key] = change.setting]
Binds(change) == change.durations

SaveBegin(s) ==
    /\ saver[s].pc = "fetched"
    /\ \E change \in Changes :
          LET cfg == Edited(saver[s].cfg, change)
          IN  saver' = [saver EXCEPT ![s] =
                           IF Binds(change) /\ Validate(cfg) THEN [pc |-> "open", cfg |-> cfg]
                                                             ELSE Done]
    /\ UNCHANGED <<file, store, reloader, req, crashes>>

Truncate(s) ==
    /\ saver[s].pc = "open"
    /\ file' = Cut
    /\ saver' = [saver EXCEPT ![s].pc = "write"]
    /\ UNCHANGED <<store, reloader, req, crashes>>

(* Over another's document, which may be longer. *)
Write(s) ==
    /\ saver[s].pc = "write"
    /\ file' \in {Whole(saver[s].cfg)} \cup
                 IF file = Cut THEN {} ELSE {Mixed(saver[s].cfg)}
    /\ saver' = [saver EXCEPT ![s] = Done]
    /\ UNCHANGED <<store, reloader, req, crashes>>

HandEdit ==
    /\ \E doc \in HandDocs : file' = Whole(doc)
    /\ UNCHANGED <<store, calls, crashes>>

-------------------------------------------------------------------------------
(* ReloadConfig: the file is loaded first, and only then mu is taken. *)

To(p, call) == reloader' = [reloader EXCEPT ![p] = call]

LoadFile(p) ==
    /\ Up /\ reloader[p].pc = "idle"
    /\ \E c \in Load :
          To(p, IF c = NoConfig THEN Done
                ELSE [pc |-> "lock", cfg |-> c, prev |-> current, next |-> 0])
    /\ UNCHANGED <<file, store, saver, req, crashes>>

Lock(p) ==
    /\ reloader[p].pc = "lock"
    /\ mu = "free"
    /\ mu' = p
    /\ To(p, [reloader[p] EXCEPT !.pc = "build"])
    /\ UNCHANGED <<file, runtimes, open, current, closers, abandoned, saver, req, crashes>>

AfterFailure_KeepLock == mu
AfterFailure == "free"

Build(p) ==
    /\ reloader[p].pc = "build"
    /\ Opened(reloader[p].cfg)
    /\ \E pinged \in BOOLEAN :
          IF Builds(reloader[p].cfg, pinged)
          THEN /\ To(p, [reloader[p] EXCEPT !.pc = "swap", !.next = Built + 1])
               /\ UNCHANGED <<mu, abandoned>>
          ELSE /\ To(p, Done)
               /\ abandoned' = abandoned \cup {Built + 1}
               /\ mu' = AfterFailure
    /\ UNCHANGED <<file, current, closers, saver, req, crashes>>

(* The runtime to close is the one in force now, under the lock. *)
Previous_WhenCalled(p) == reloader[p].prev
Previous(p) == current

Closer_AtOnce(n) == [runtime |-> n, left |-> 0]
Closer(n) == [runtime |-> n, left |-> Delay]

Swap(p) ==
    /\ reloader[p].pc = "swap"
    /\ closers' = closers \cup {Closer(Previous(p))}
    /\ current' = reloader[p].next
    /\ mu' = "free"
    /\ To(p, Done)
    /\ UNCHANGED <<file, runtimes, open, abandoned, saver, req, crashes>>

(* The goroutine that slept wakes, now or later. *)
Close(n) ==
    /\ \E g \in closers : g.runtime = n /\ g.left = 0 /\ closers' = closers \ {g}
    /\ open' = open \ {n}
    /\ UNCHANGED <<file, runtimes, current, mu, abandoned, calls, crashes>>

-------------------------------------------------------------------------------
(* A request keeps the runtime it starts with: it reserves and settles     *)
(* through that one's Redis client, which may have been closed.            *)

Take(r) ==
    /\ Up /\ req[r].pc = "idle"
    /\ req' = [req EXCEPT ![r] = [pc |-> "reserve", runtime |-> current, age |-> 0]]
    /\ UNCHANGED <<file, store, saver, reloader, crashes>>

(* Through a closed client nothing is reserved: the request is forwarded   *)
(* without a seat, or refused.                                             *)
Reserve(r) ==
    /\ req[r].pc = "reserve"
    /\ req' = [req EXCEPT ![r] =
                  IF req[r].runtime \in open THEN [@ EXCEPT !.pc = "upstream"] ELSE Done]
    /\ UNCHANGED <<file, store, saver, reloader, crashes>>

(* The upstream has answered: Confirm or Rollback, whose failure is logged. *)
Settle(r) ==
    /\ req[r].pc = "upstream"
    /\ \E failure \in {"uncounted", "unreturned"} :
          req' = [req EXCEPT ![r] =
                     IF req[r].runtime \in open THEN Done ELSE [@ EXCEPT !.pc = failure]]
    /\ UNCHANGED <<file, store, saver, reloader, crashes>>

(* Time: the sleeping goroutines and the requests in progress grow older. *)
InProgress(r) == req[r].pc \in {"reserve", "upstream"}

Tick ==
    /\ \/ \E g \in closers : g.left > 0
       \/ \E r \in Reqs : InProgress(r) /\ req[r].age < Delay
    /\ closers' = {[g EXCEPT !.left = IF @ > 0 THEN @ - 1 ELSE 0] : g \in closers}
    /\ req' = [r \in Reqs |-> IF InProgress(r) /\ req[r].age < Delay
                              THEN [req[r] EXCEPT !.age = @ + 1] ELSE req[r]]
    /\ UNCHANGED <<file, runtimes, open, current, mu, abandoned, saver, reloader, crashes>>

(* Nothing more is asked of the process. *)
Quiet ==
    /\ Up /\ crashes = MaxCrashes /\ closers = {}
    /\ \A s \in Savers : saver[s] = Done
    /\ \A p \in Reloaders : reloader[p] = Done
    /\ UNCHANGED reloadvars

ReloadNext ==
    \/ Start \/ Crash \/ HandEdit \/ Tick
    \/ \E s \in Savers : Fetch(s) \/ SaveBegin(s) \/ Truncate(s) \/ Write(s)
    \/ \E p \in Reloaders : LoadFile(p) \/ Lock(p) \/ Build(p) \/ Swap(p)
    \/ \E n \in 1..Built : Close(n)
    \/ \E r \in Reqs : Take(r) \/ Reserve(r) \/ Settle(r)
    \/ Quiet

ReloadSpec == ReloadInit /\ [][ReloadNext]_reloadvars

(* Goroutines that can run do, and time passes.  Nothing is asked of the   *)
(* operators, the clients, or a process that crashed.                      *)
ReloadFairness ==
    /\ WF_reloadvars(Tick)
    /\ \A p \in Reloaders : WF_reloadvars(Lock(p) \/ Build(p) \/ Swap(p))
    /\ WF_reloadvars(\E n \in 1..Built : Close(n))

ReloadFairSpec == ReloadSpec /\ ReloadFairness

-------------------------------------------------------------------------------
(* Properties.                                                             *)

(* Only valid configurations are built, fetched, saved or carried by a     *)
(* reload; runtimes and their clients are known by numbers that were given *)
(* out; the mutex is with the one reload that builds or swaps.             *)
ReloadTypeOK ==
    /\ file.kind \in {"whole", "mixed", "cut"}
    /\ \A n \in 1..Built : Validate(runtimes[n])
    /\ \A p \in Reloaders : reloader[p].pc \in {"lock", "build", "swap"} => Validate(reloader[p].cfg)
    /\ \A s \in Savers : saver[s].pc \in {"fetched", "open", "write"} => Validate(saver[s].cfg)
    /\ \A r \in Reqs : InProgress(r) => req[r].runtime \in 1..Built /\ req[r].age \in 0..Delay
    /\ open \subseteq 1..Built /\ current \in 0..Built /\ abandoned \subseteq 1..Built
    /\ mu \in Reloaders \cup {"free"}
    /\ \A g \in closers : g.runtime \in 1..Built /\ g.left \in 0..Delay
    /\ \A p \in Reloaders : mu = p <=> reloader[p].pc \in {"build", "swap"}

(* Whatever was saved, typed into the file, cut off or written by two at   *)
(* once, the configuration in force is one the rest of the program can use. *)
InForceUsable == Up => Usable(runtimes[current])

(* The runtime in force keeps its client.  Any other open client is one    *)
(* that some goroutine will close, the one being built, or one that was    *)
(* given up half built and is never closed.                                *)
OpenClientsAccounted ==
    /\ Up => current \in open
    /\ \A n \in open :
          \/ n = current
          \/ n \in abandoned
          \/ \E g \in closers : g.runtime = n
          \/ \E p \in Reloaders : reloader[p].pc = "swap" /\ reloader[p].next = n

(* A request that is over within Delay of its start finds its client open: *)
(* a reload meanwhile costs it neither its seat nor its settlement.        *)
ShortRequestsUnharmed ==
    \A r \in Reqs :
        InProgress(r) /\ req[r].age < Delay => req[r].runtime \in open

(* README.md:515: a request below the limit that succeeds is counted.  It  *)
(* is not when its settlement comes after its client was closed.           *)
SuccessIsCounted == \A r \in Reqs : req[r].pc # "uncounted"

(* Every reload call returns, or the process ends: the process is again    *)
(* and again without a call that waits for the lock or holds it.           *)
ReloadsReturn ==
    []<>(mu = "free" /\ \A p \in Reloaders : reloader[p].pc \in {"idle", "done"})

(* Runtimes that were replaced are closed in the end: again and again, no  *)
(* client is open but that of the runtime in force and those given up.     *)
ReplacedAreClosed ==
    []<>(\A n \in open : n = current \/ n \in abandoned)

===============================================================================
