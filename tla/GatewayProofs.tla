------------------------------ MODULE GatewayProofs ----------------------------
(***************************************************************************)
(* Proofs about Gateway, for any configurations, requests and responses:   *)
(* the rule a request ends up with is the one the configuration means, its *)
(* body goes upstream whole, its seat is settled once and its client gets  *)
(* one answer.  Of a stream the client sees whole frames and nothing else, *)
(* and the stream counts with the first event it shows.  Two requests have *)
(* one identity only for the same names and values, or for separators.     *)
(***************************************************************************)
EXTENDS Gateway, ListLemmas

Matching == {"start", "try", "form", "json", "headers", "ip"}

(* What the canonical forms are, once computed. *)
BodyCanon == IF in.breaks THEN Done(FALSE, "") ELSE Done(TRUE, in.content)
FormCanon == IF in.breaks THEN Done(FALSE, "") ELSE Done(TRUE, FormText)
JSONCanon == IF in.breaks THEN Done(FALSE, "") ELSE Done(TRUE, JSONText)

HeadersCanon == Done(TRUE, in.headers)

Idents == {<<>>} \cup {Identify(c.identity, x) : c \in Configs, x \in Requests}
Locals == [i : Nat, j : Nat, rule : Nat, ident : Idents, reserved : BOOLEAN]

(* The canonical forms computed so far are what they should be. *)
CanonOK ==
    /\ canon \in [{"body", "form", "json", "headers"} ->
                     {NotDone, BodyCanon, FormCanon, JSONCanon, HeadersCanon}]
    /\ canon["body"] \in {NotDone, BodyCanon}
    /\ canon["form"] \in {NotDone, FormCanon}
    /\ canon["json"] \in {NotDone, JSONCanon}

Shape ==
    /\ conf \in Configs /\ in \in Requests
    /\ pc \in Places
    /\ loc \in Locals
    /\ CanonOK

-------------------------------------------------------------------------------
(* The steps of the matching.                                              *)

LEMMA CanonFacts ==
    ASSUME Shape
    PROVE  /\ ~NotDone.done /\ NotDone.ok
           /\ BodyCanon.done /\ (BodyCanon.ok <=> ~in.breaks)
           /\ FormCanon.done /\ (FormCanon.ok <=> ~in.breaks)
           /\ JSONCanon.done /\ (JSONCanon.ok <=> ~in.breaks)
           /\ ~in.breaks => FormCanon.text = FormText /\ JSONCanon.text = JSONText
           /\ HeadersCanon.done /\ HeadersCanon.ok /\ HeadersCanon.text = in.headers
BY GateAssumption DEF Shape, NotDone, Done, BodyCanon, FormCanon, JSONCanon, HeadersCanon

LEMMA NextPath ==
    ASSUME Shape
    PROVE  LET l == [loc EXCEPT !.j = @ + 1]
           IN  /\ l \in Locals
               /\ l.j = loc.j + 1 /\ l.i = loc.i /\ l.rule = loc.rule /\ l.ident = loc.ident
               /\ l.reserved = loc.reserved
<1> DEFINE n == loc.j + 1
<1>1. n \in Nat
  BY DEF Shape, Locals
<1> HIDE DEF n
<1>2. LET l == [loc EXCEPT !.j = n]
      IN  /\ l \in Locals
          /\ l.j = n /\ l.i = loc.i /\ l.rule = loc.rule /\ l.ident = loc.ident
          /\ l.reserved = loc.reserved
  BY <1>1 DEF Shape, Locals
<1> QED BY <1>2 DEF n

LEMMA NextRule ==
    ASSUME Shape
    PROVE  LET l == [loc EXCEPT !.i = @ + 1, !.j = 1]
           IN  /\ l \in Locals
               /\ l.i = loc.i + 1 /\ l.j = 1 /\ l.rule = loc.rule /\ l.ident = loc.ident
               /\ l.reserved = loc.reserved
<1> DEFINE n == loc.i + 1
<1>1. n \in Nat
  BY DEF Shape, Locals
<1> HIDE DEF n
<1> DEFINE a == [loc EXCEPT !.i = n]
<1>2. /\ a \in Locals
      /\ a.i = n /\ a.rule = loc.rule /\ a.ident = loc.ident /\ a.reserved = loc.reserved
  BY <1>1 DEF Shape, Locals
<1> HIDE DEF a
<1>3. LET l == [a EXCEPT !.j = 1]
      IN  /\ l \in Locals
          /\ l.i = n /\ l.j = 1 /\ l.rule = loc.rule /\ l.ident = loc.ident
          /\ l.reserved = loc.reserved
  BY <1>2 DEF Locals
<1> QED BY <1>3 DEF n, a

(* Reading the body, anew or not, gives what it is. *)
LEMMA BodyRead ==
    ASSUME Shape PROVE ReadRequestBody.canon = BodyCanon
<1>1. CASE canon.body.done
  <2>1. canon.body = BodyCanon
    BY <1>1, CanonFacts DEF Shape, CanonOK
  <2> QED BY <1>1, <2>1 DEF ReadRequestBody
<1>2. CASE ~canon.body.done
  BY <1>2 DEF ReadRequestBody, BodyCanon
<1> QED BY <1>1, <1>2

(* What the test of a domain whose canonical form is c leads to. *)
Passes(domain, c) == Matcher(domain) = NoMatcher \/ (c.ok /\ Accepts(Matcher(domain), c.text))

(* Forms computed as they should be stay so while the request is the same. *)
LEMMA CanonKept ==
    ASSUME CanonOK, in' = in,
           \/ canon' = canon
           \/ canon' = [canon EXCEPT !["body"] = BodyCanon, !["form"] = FormCanon]
           \/ canon' = [canon EXCEPT !["body"] = BodyCanon, !["json"] = JSONCanon]
           \/ canon' = [canon EXCEPT !["headers"] = HeadersCanon]
    PROVE  CanonOK'
<1>1. /\ BodyCanon' = BodyCanon /\ FormCanon' = FormCanon
      /\ JSONCanon' = JSONCanon /\ HeadersCanon' = HeadersCanon
  BY DEF BodyCanon, FormCanon, JSONCanon, HeadersCanon, FormText, HasForm, JSONText
<1> QED BY <1>1 DEF CanonOK

LEMMA FormStep ==
    ASSUME Shape, MatchForm
    PROVE  /\ CanonOK'
           /\ IF Passes("form", FormCanon) THEN pc' = "json" /\ loc' = loc
              ELSE pc' = "try" /\ loc' = [loc EXCEPT !.j = @ + 1]
<1>1. CASE Matcher("form") = NoMatcher
  <2>1. canon' = canon /\ in' = in /\ pc' = "json" /\ loc' = loc
    BY <1>1 DEF MatchForm, MatchBody, To, request
  <2> QED BY <1>1, <2>1, CanonKept DEF Passes, Shape
<1>2. CASE Matcher("form") # NoMatcher /\ canon["form"].done
  <2>1. canon["form"] = FormCanon
    BY <1>2, CanonFacts DEF Shape, CanonOK
  <2>2. canon' = canon /\ in' = in /\ Judged("form", FormCanon, "json")
    BY <1>2, <2>1 DEF MatchForm, MatchBody, request
  <2> QED BY <1>2, <2>2, CanonKept DEF Judged, Passes, To, Shape
<1>3. CASE Matcher("form") # NoMatcher /\ ~canon["form"].done
  <2>1. CanonicalForm(ReadRequestBody.canon) = FormCanon
    BY BodyRead, CanonFacts DEF CanonicalForm, FormCanon
  <2>2. /\ canon' = [canon EXCEPT !["body"] = BodyCanon, !["form"] = FormCanon]
        /\ in' = in /\ Judged("form", FormCanon, "json")
    BY <1>3, <2>1, BodyRead DEF MatchForm, MatchBody
  <2> QED BY <1>3, <2>2, CanonKept DEF Judged, Passes, To, Shape
<1> QED BY <1>1, <1>2, <1>3

LEMMA JSONStep ==
    ASSUME Shape, MatchJSON
    PROVE  /\ CanonOK'
           /\ IF Passes("json", JSONCanon) THEN pc' = "headers" /\ loc' = loc
              ELSE pc' = "try" /\ loc' = [loc EXCEPT !.j = @ + 1]
<1>1. CASE Matcher("json") = NoMatcher
  <2>1. canon' = canon /\ in' = in /\ pc' = "headers" /\ loc' = loc
    BY <1>1 DEF MatchJSON, MatchBody, To, request
  <2> QED BY <1>1, <2>1, CanonKept DEF Passes, Shape
<1>2. CASE Matcher("json") # NoMatcher /\ canon["json"].done
  <2>1. canon["json"] = JSONCanon
    BY <1>2, CanonFacts DEF Shape, CanonOK
  <2>2. canon' = canon /\ in' = in /\ Judged("json", JSONCanon, "headers")
    BY <1>2, <2>1 DEF MatchJSON, MatchBody, request
  <2> QED BY <1>2, <2>2, CanonKept DEF Judged, Passes, To, Shape
<1>3. CASE Matcher("json") # NoMatcher /\ ~canon["json"].done
  <2>1. CanonicalJSON(ReadRequestBody.canon) = JSONCanon
    BY BodyRead, CanonFacts DEF CanonicalJSON, JSONCanon
  <2>2. /\ canon' = [canon EXCEPT !["body"] = BodyCanon, !["json"] = JSONCanon]
        /\ in' = in /\ Judged("json", JSONCanon, "headers")
    BY <1>3, <2>1, BodyRead DEF MatchJSON, MatchBody
  <2> QED BY <1>3, <2>2, CanonKept DEF Judged, Passes, To, Shape
<1> QED BY <1>1, <1>2, <1>3

LEMMA HeadersStep ==
    ASSUME Shape, MatchHeaders
    PROVE  /\ CanonOK'
           /\ IF Passes("headers", HeadersCanon) THEN pc' = "ip" /\ loc' = loc
              ELSE pc' = "try" /\ loc' = [loc EXCEPT !.j = @ + 1]
<1>1. CASE Matcher("headers") = NoMatcher
  <2>1. canon' = canon /\ in' = in /\ pc' = "ip" /\ loc' = loc
    BY <1>1 DEF MatchHeaders, To
  <2> QED BY <1>1, <2>1, CanonKept DEF Passes, Shape
<1>2. CASE Matcher("headers") # NoMatcher
  <2>1. /\ canon' = [canon EXCEPT !["headers"] = HeadersCanon]
        /\ in' = in /\ Judged("headers", HeadersCanon, "ip")
    BY <1>2 DEF MatchHeaders, HeadersCanon
  <2> QED BY <1>2, <2>1, CanonKept DEF Judged, Passes, To, Shape
<1> QED BY <1>1, <1>2

-------------------------------------------------------------------------------
(* A step of the matching tests what the configuration means.              *)

LEMMA FitsAccepts == \A m, text : Accepts(m, text) <=> Fits(m, text)
BY DEF Accepts, Fits

LEMMA OwnMatcher ==
    ASSUME conf \in Configs, NEW i \in DOMAIN conf.rules
    PROVE  MatcherOf(conf.rules, conf.rules[i].name) = conf.rules[i].match
<1> DEFINE rules == conf.rules
           Latest(j) == /\ rules[j].name = rules[i].name
                      /\ \A n \in DOMAIN rules : rules[n].name = rules[i].name => n <= j
<1>1. \A n \in DOMAIN rules : n \in Nat /\ (rules[n].name = rules[i].name => n = i)
  BY GateAssumption DEF Listed
<1>2. Latest(i) /\ \A j \in DOMAIN rules : Latest(j) => j = i
  BY <1>1
<1>3. (CHOOSE j \in DOMAIN rules : Latest(j)) = i
  BY <1>2
<1> QED BY <1>3 DEF MatcherOf

LEMMA PassesWhenMet ==
    ASSUME Shape, loc.i \in DOMAIN conf.rules
    PROVE  /\ Passes("form", FormCanon) <=> Meets(Rule, "form")
           /\ Passes("json", JSONCanon) <=> Meets(Rule, "json")
           /\ Passes("headers", HeadersCanon) <=> Meets(Rule, "headers")
           /\ Accepts(Matcher("ip"), in.ip) <=> Meets(Rule, "ip")
<1>1. \A d \in Domains : Matcher(d) = Rule.match[d]
  BY OwnMatcher DEF Matcher, Rule, Shape
<1>2. Passes("form", FormCanon) <=> Meets(Rule, "form")
  BY <1>1, CanonFacts, FitsAccepts DEF Passes, Meets, Domains
<1>3. Passes("json", JSONCanon) <=> Meets(Rule, "json")
  BY <1>1, CanonFacts, FitsAccepts DEF Passes, Meets, Domains
<1>4. Passes("headers", HeadersCanon) <=> Meets(Rule, "headers")
  BY <1>1, CanonFacts, FitsAccepts DEF Passes, Meets, Domains
<1>5. Accepts(Matcher("ip"), in.ip) <=> Meets(Rule, "ip")
  BY <1>1, FitsAccepts DEF Meets, Domains, Fits
<1> QED BY <1>2, <1>3, <1>4, <1>5

-------------------------------------------------------------------------------
(* The rule.  The rules before loc.i are no candidates; if rule loc.i is   *)
(* one, some of its paths from loc.j on matches.                           *)

Counted == conf.enabled /\ ~AnyPathMatches(conf.exclude, in.path)
Matches(i, j) == PathMatches(CompilePath(conf.rules[i].paths[j]), in.path)
Passed(i) == \A c \in Candidates : c >= i
Ahead(i, j) ==
    i \in Candidates => \E k \in DOMAIN conf.rules[i].paths : k >= j /\ Matches(i, k)

Looking == Matching \ {"start"}
Testing == {"form", "json", "headers", "ip"}

MatchInv ==
    /\ pc \in Matching => loc.rule = 0 /\ loc.ident = <<>> /\ ~loc.reserved
    /\ pc = "start" => loc.i = 1 /\ loc.j = 1
    /\ pc \in Looking => /\ Counted
                         /\ loc.i \in 1..(Len(conf.rules) + 1) /\ loc.j >= 1
                         /\ Passed(loc.i) /\ Ahead(loc.i, loc.j)
    /\ pc \in Testing => /\ loc.i \in DOMAIN conf.rules
                         /\ AnyPathMatches(Rule.paths, in.path)
    /\ pc \in {"json", "headers", "ip"} => Meets(Rule, "form")
    /\ pc \in {"headers", "ip"} => Meets(Rule, "json")
    /\ pc = "ip" => Meets(Rule, "headers")
    /\ pc \notin Matching => loc.rule = FirstMatch

LEMMA RuleNumbers ==
    ASSUME conf \in Configs
    PROVE  /\ Len(conf.rules) \in Nat /\ DOMAIN conf.rules = 1..Len(conf.rules)
           /\ \A i \in DOMAIN conf.rules : /\ Len(conf.rules[i].paths) \in Nat
                                           /\ DOMAIN conf.rules[i].paths = 1..Len(conf.rules[i].paths)
           /\ Candidates \subseteq DOMAIN conf.rules
BY GateAssumption DEF Listed, Candidates

(* The configuration means the same after a step as before. *)
LEMMA SameMeaning ==
    ASSUME conf' = conf, in' = in
    PROVE  /\ Counted' = Counted /\ FirstMatch' = FirstMatch
           /\ Candidates' = Candidates
           /\ \A i, d : Meets(conf.rules[i], d)' = Meets(conf.rules[i], d)
<1>1. FormText' = FormText /\ JSONText' = JSONText
  BY DEF FormText, HasForm, JSONText
<1>2. \A m, text : Fits(m, text)' = Fits(m, text)
  BY DEF Fits
<1>3. \A i, d : Meets(conf.rules[i], d)' = Meets(conf.rules[i], d)
  BY <1>1, <1>2 DEF Meets
<1>4. Candidates' = Candidates
  BY <1>3 DEF Candidates
<1> QED BY <1>3, <1>4 DEF FirstMatch, Counted

(* On to the next path of a rule that this one has not led to. *)
LEMMA PathFailed ==
    ASSUME Shape, MatchInv, pc \in Looking, loc.rule = 0,
           conf' = conf, in' = in, CanonOK',
           loc.i \in DOMAIN conf.rules,
           loc.i \notin Candidates \/ ~Matches(loc.i, loc.j),
           pc' = "try", loc' = [loc EXCEPT !.j = @ + 1]
    PROVE  Shape' /\ MatchInv'
<1>1. /\ loc' \in Locals /\ loc'.j = loc.j + 1 /\ loc'.i = loc.i
      /\ loc'.rule = loc.rule /\ loc'.ident = loc.ident /\ loc'.reserved = loc.reserved
  BY NextPath
<1>2. Shape'
  BY <1>1 DEF Shape, Places
<1>3. loc.i \in Nat /\ loc.j \in Nat
  BY DEF Shape, Locals
<1>4. Ahead(loc.i, loc.j + 1)
  BY <1>3, RuleNumbers DEF MatchInv, Ahead, Shape
<1>5. Passed(loc.i)' /\ Ahead(loc.i, loc.j)'
  BY <1>1, <1>4, SameMeaning DEF MatchInv, Passed, Ahead, Matches
<1>6. Counted' /\ (loc.i \in 1..(Len(conf.rules) + 1))' /\ loc'.j >= 1
  BY <1>1, <1>3, SameMeaning DEF MatchInv
<1>7. loc'.rule = 0 /\ loc'.ident = <<>> /\ ~loc'.reserved
  BY <1>1 DEF MatchInv, Looking
<1> QED BY <1>2, <1>5, <1>6, <1>7 DEF MatchInv, Matching, Looking, Testing

LEMMA StartMatches ==
    ASSUME Shape, MatchInv, Start PROVE Shape' /\ MatchInv'
<1>1. /\ conf' = conf /\ in' = in /\ canon' = canon /\ loc' = loc /\ pc = "start"
      /\ pc' = IF Counted THEN "try" ELSE "send"
  BY DEF Start, From, To, request, Counted
<1>2. Shape'
  BY <1>1, CanonKept DEF Shape, Places
<1>3. loc.i = 1 /\ loc.j = 1 /\ loc.rule = 0 /\ loc.ident = <<>> /\ ~loc.reserved
  BY <1>1 DEF MatchInv, Matching
<1>4. CASE Counted
  <2>1. Passed(1)
    BY RuleNumbers DEF Passed, Shape
  <2>2. Ahead(1, 1)
    BY RuleNumbers DEF Ahead, Candidates, AnyPathMatches, Matches, Shape
  <2>3. Passed(loc.i)' /\ Ahead(loc.i, loc.j)' /\ Counted'
    BY <1>1, <1>3, <1>4, <2>1, <2>2, SameMeaning DEF Passed, Ahead, Matches
  <2>4. (loc.i \in 1..(Len(conf.rules) + 1))' /\ (loc.j >= 1)'
    BY <1>1, <1>3, RuleNumbers DEF Shape
  <2> QED BY <1>1, <1>2, <1>3, <1>4, <2>3, <2>4 DEF MatchInv, Looking, Testing, Matching
<1>5. CASE ~Counted
  <2>1. FirstMatch = 0
    BY <1>5 DEF FirstMatch, Counted
  <2> QED BY <1>1, <1>2, <1>3, <1>5, <2>1, SameMeaning DEF MatchInv, Looking, Testing, Matching
<1> QED BY <1>4, <1>5

LEMMA TryMatches ==
    ASSUME Shape, MatchInv, TryPath PROVE Shape' /\ MatchInv'
<1> DEFINE i == loc.i
           j == loc.j
           n == Len(conf.rules)
           m == Len(Rule.paths)
<1>1. conf' = conf /\ in' = in /\ canon' = canon /\ pc = "try" /\ CanonOK'
  BY CanonKept DEF TryPath, From, request, Shape
<1>2. /\ Counted /\ i \in 1..(n + 1) /\ j >= 1 /\ Passed(i) /\ Ahead(i, j)
      /\ loc.rule = 0 /\ loc.ident = <<>> /\ ~loc.reserved
  BY <1>1 DEF MatchInv, Looking, Matching
<1>3. /\ i \in Nat /\ j \in Nat /\ n \in Nat /\ DOMAIN conf.rules = 1..n
      /\ Candidates \subseteq 1..n /\ loc \in Locals
  BY RuleNumbers DEF Shape, Locals
<1>4. CASE i > n
  <2>1. pc' = "send" /\ loc' = loc
    <3>1. ~(i <= n)
      BY <1>3, <1>4
    <3> QED BY <1>4, <3>1 DEF TryPath, To
  <2>2. Candidates = {}
    <3>1. \A c \in Candidates : c \in 1..n /\ c >= i
      BY <1>2, <1>3 DEF Passed
    <3> HIDE DEF i, n
    <3> QED BY <1>3, <1>4, <3>1
  <2>3. FirstMatch = 0
    BY <2>2 DEF FirstMatch
  <2>4. Shape'
    BY <1>1, <2>1 DEF Shape, Places
  <2> QED BY <1>1, <1>2, <2>1, <2>3, <2>4, SameMeaning DEF MatchInv, Looking, Testing, Matching
<1>5. CASE i <= n /\ j > m
  <2>0. i \in DOMAIN conf.rules /\ m \in Nat /\ DOMAIN Rule.paths = 1..m
    BY <1>2, <1>3, <1>5, RuleNumbers DEF Rule, Shape
  <2>1. pc' = "try" /\ loc' = [loc EXCEPT !.i = @ + 1, !.j = 1]
    <3>1. ~(i > n)
      BY <1>3, <1>5
    <3> QED BY <1>1, <1>5, <3>1 DEF TryPath
  <2>2. /\ loc' \in Locals /\ loc'.i = i + 1 /\ loc'.j = 1
        /\ loc'.rule = 0 /\ loc'.ident = <<>> /\ ~loc'.reserved
    BY <1>2, <2>1, NextRule
  <2>3. i \notin Candidates
    <3> SUFFICES ASSUME i \in Candidates PROVE FALSE
      OBVIOUS
    <3>1. PICK k \in DOMAIN conf.rules[i].paths : k >= j
      BY <1>2 DEF Ahead
    <3>2. k \in 1..m
      BY <2>0, <3>1 DEF Rule
    <3> HIDE DEF j, m
    <3> QED BY <1>3, <1>5, <2>0, <3>1, <3>2
  <2>4. Passed(i + 1)
    <3> SUFFICES ASSUME NEW c \in Candidates PROVE c >= i + 1
      BY DEF Passed
    <3>1. c \in Nat /\ c >= i /\ c # i
      BY <1>2, <1>3, <2>3 DEF Passed
    <3> HIDE DEF i
    <3> QED BY <1>3, <3>1
  <2>5. Ahead(i + 1, 1)
    <3> SUFFICES ASSUME i + 1 \in Candidates
                 PROVE  \E k \in DOMAIN conf.rules[i + 1].paths : k >= 1 /\ Matches(i + 1, k)
      BY DEF Ahead
    <3> DEFINE c == i + 1
    <3>1. c \in DOMAIN conf.rules /\ AnyPathMatches(conf.rules[c].paths, in.path)
      BY DEF Candidates
    <3> HIDE DEF c
    <3>2. \A k \in DOMAIN conf.rules[c].paths : k >= 1
      BY <3>1, RuleNumbers DEF Shape
    <3>3. \E k \in DOMAIN conf.rules[c].paths : k >= 1 /\ Matches(c, k)
      BY <3>1, <3>2 DEF AnyPathMatches, Matches
    <3> QED BY <3>3 DEF c
  <2>6. Passed(loc.i)' /\ Ahead(loc.i, loc.j)' /\ Counted'
    BY <1>1, <1>2, <2>2, <2>4, <2>5, SameMeaning DEF Passed, Ahead, Matches
  <2>7. (loc.i \in 1..(Len(conf.rules) + 1))' /\ (loc.j >= 1)'
    BY <1>1, <1>3, <1>5, <2>2
  <2>8. Shape'
    BY <1>1, <2>1, <2>2 DEF Shape, Places
  <2> QED BY <2>1, <2>2, <2>6, <2>7, <2>8 DEF MatchInv, Looking, Testing, Matching
<1>6. CASE i <= n /\ j <= m
  <2>0. /\ i \in DOMAIN conf.rules /\ m \in Nat /\ DOMAIN Rule.paths = 1..m
        /\ j \in DOMAIN Rule.paths
    BY <1>2, <1>3, <1>6, RuleNumbers DEF Rule, Shape
  <2>1. IF PathMatches(Pattern, in.path) THEN pc' = "form" /\ loc' = loc
        ELSE loc' = [loc EXCEPT !.j = @ + 1] /\ pc' = "try"
    <3>1. ~(i > n) /\ ~(j > m)
      BY <1>3, <1>6, <2>0
    <3> QED BY <1>1, <1>6, <3>1 DEF TryPath, To
  <2>2. Matches(i, j) <=> PathMatches(Pattern, in.path)
    BY DEF Matches, Pattern, Rule
  <2>3. CASE PathMatches(Pattern, in.path)
    <3>1. AnyPathMatches(Rule.paths, in.path)
      BY <2>0, <2>3 DEF AnyPathMatches, Pattern
    <3>2. Shape'
      BY <1>1, <2>1, <2>3 DEF Shape, Places
    <3>3. Passed(loc.i)' /\ Ahead(loc.i, loc.j)' /\ Counted' /\ AnyPathMatches(Rule.paths, in.path)'
      BY <1>1, <1>2, <2>1, <2>3, <3>1, SameMeaning DEF Passed, Ahead, Matches, Rule
    <3>4. (loc.i \in 1..(Len(conf.rules) + 1))' /\ (loc.j >= 1)' /\ (loc.i \in DOMAIN conf.rules)'
      BY <1>1, <1>2, <2>0, <2>1, <2>3
    <3> QED BY <1>2, <2>1, <2>3, <3>2, <3>3, <3>4 DEF MatchInv, Looking, Testing, Matching
  <2>4. CASE ~PathMatches(Pattern, in.path)
    BY <1>1, <1>2, <2>0, <2>1, <2>2, <2>4, PathFailed DEF Looking, Matching
  <2> QED BY <2>3, <2>4
<1>7. i > n \/ (i <= n /\ (j > m \/ j <= m))
  <2>1. i <= n => m \in Nat
    BY <1>2, <1>3, RuleNumbers DEF Rule, Shape
  <2> HIDE DEF i, j, n, m
  <2> QED BY <1>3, <2>1
<1> QED BY <1>4, <1>5, <1>6, <1>7

(* A domain that holds leads on to the next one. *)
LEMMA TestPassed ==
    ASSUME Shape, MatchInv, pc \in Testing, conf' = conf, in' = in, CanonOK', loc' = loc,
           pc' \in Testing,
           pc' \in {"json", "headers", "ip"} => Meets(Rule, "form"),
           pc' \in {"headers", "ip"} => Meets(Rule, "json"),
           pc' = "ip" => Meets(Rule, "headers")
    PROVE  Shape' /\ MatchInv'
<1>1. /\ Counted /\ loc.i \in 1..(Len(conf.rules) + 1) /\ loc.j >= 1
      /\ Passed(loc.i) /\ Ahead(loc.i, loc.j)
      /\ loc.rule = 0 /\ loc.ident = <<>> /\ ~loc.reserved
      /\ loc.i \in DOMAIN conf.rules /\ AnyPathMatches(Rule.paths, in.path)
  BY DEF MatchInv, Testing, Looking, Matching
<1>2. Shape'
  BY DEF Shape, Testing, Places
<1>3. Counted' /\ Passed(loc.i)' /\ Ahead(loc.i, loc.j)' /\ AnyPathMatches(Rule.paths, in.path)'
  BY <1>1, SameMeaning DEF Passed, Ahead, Matches, Rule
<1>4. \A d : Meets(Rule, d)' <=> Meets(Rule, d)
  BY SameMeaning DEF Rule
<1> QED BY <1>1, <1>2, <1>3, <1>4 DEF MatchInv, Testing, Looking, Matching

(* A domain that does not hold shows that the rule is no candidate. *)
LEMMA TestFailed ==
    ASSUME Shape, MatchInv, pc \in Testing, NEW d \in Domains, ~Meets(Rule, d)
    PROVE  loc.i \notin Candidates /\ pc \in Looking /\ loc.rule = 0 /\ loc.i \in DOMAIN conf.rules
BY DEF MatchInv, Testing, Looking, Matching, Candidates, Rule

LEMMA DomainsMatch ==
    ASSUME Shape, MatchInv, MatchForm \/ MatchJSON \/ MatchHeaders PROVE Shape' /\ MatchInv'
<1>1. conf' = conf /\ in' = in /\ pc \in Testing
  BY DEF MatchForm, MatchJSON, MatchBody, MatchHeaders, From, Testing, request
<1>2. loc.i \in DOMAIN conf.rules
  BY <1>1 DEF MatchInv
<1>3. CASE MatchForm
  <2>1. CASE Passes("form", FormCanon)
    <3>1. CanonOK' /\ pc' = "json" /\ loc' = loc /\ Meets(Rule, "form")
      BY <1>2, <1>3, <2>1, FormStep, PassesWhenMet
    <3> QED BY <1>1, <3>1, TestPassed DEF Testing
  <2>2. CASE ~Passes("form", FormCanon)
    <3>1. /\ CanonOK' /\ pc' = "try" /\ loc' = [loc EXCEPT !.j = @ + 1]
          /\ ~Meets(Rule, "form")
      BY <1>2, <1>3, <2>2, FormStep, PassesWhenMet
    <3>2. loc.i \notin Candidates /\ pc \in Looking /\ loc.rule = 0
      BY <1>1, <3>1, TestFailed DEF Domains
    <3> QED BY <1>1, <1>2, <3>1, <3>2, PathFailed
  <2> QED BY <2>1, <2>2
<1>4. CASE MatchJSON
  <2>0. Meets(Rule, "form")
    BY <1>4 DEF MatchJSON, MatchBody, From, MatchInv
  <2>1. CASE Passes("json", JSONCanon)
    <3>1. CanonOK' /\ pc' = "headers" /\ loc' = loc /\ Meets(Rule, "json")
      BY <1>2, <1>4, <2>1, JSONStep, PassesWhenMet
    <3> QED BY <1>1, <2>0, <3>1, TestPassed DEF Testing
  <2>2. CASE ~Passes("json", JSONCanon)
    <3>1. /\ CanonOK' /\ pc' = "try" /\ loc' = [loc EXCEPT !.j = @ + 1]
          /\ ~Meets(Rule, "json")
      BY <1>2, <1>4, <2>2, JSONStep, PassesWhenMet
    <3>2. loc.i \notin Candidates /\ pc \in Looking /\ loc.rule = 0
      BY <1>1, <3>1, TestFailed DEF Domains
    <3> QED BY <1>1, <1>2, <3>1, <3>2, PathFailed
  <2> QED BY <2>1, <2>2
<1>5. CASE MatchHeaders
  <2>0. Meets(Rule, "form") /\ Meets(Rule, "json")
    BY <1>5 DEF MatchHeaders, From, MatchInv
  <2>1. CASE Passes("headers", HeadersCanon)
    <3>1. CanonOK' /\ pc' = "ip" /\ loc' = loc /\ Meets(Rule, "headers")
      BY <1>2, <1>5, <2>1, HeadersStep, PassesWhenMet
    <3> QED BY <1>1, <2>0, <3>1, TestPassed DEF Testing
  <2>2. CASE ~Passes("headers", HeadersCanon)
    <3>1. /\ CanonOK' /\ pc' = "try" /\ loc' = [loc EXCEPT !.j = @ + 1]
          /\ ~Meets(Rule, "headers")
      BY <1>2, <1>5, <2>2, HeadersStep, PassesWhenMet
    <3>2. loc.i \notin Candidates /\ pc \in Looking /\ loc.rule = 0
      BY <1>1, <3>1, TestFailed DEF Domains
    <3> QED BY <1>1, <1>2, <3>1, <3>2, PathFailed
  <2> QED BY <2>1, <2>2
<1> QED BY <1>3, <1>4, <1>5

LEMMA IPMatches ==
    ASSUME Shape, MatchInv, MatchIP PROVE Shape' /\ MatchInv'
<1>1. conf' = conf /\ in' = in /\ canon' = canon /\ pc = "ip" /\ CanonOK'
  BY CanonKept DEF MatchIP, From, request, Shape
<1>2. /\ loc.i \in DOMAIN conf.rules /\ AnyPathMatches(Rule.paths, in.path)
      /\ Meets(Rule, "form") /\ Meets(Rule, "json") /\ Meets(Rule, "headers")
      /\ Counted /\ Passed(loc.i)
  BY <1>1 DEF MatchInv, Testing, Looking, Matching
<1>3. Accepts(Matcher("ip"), in.ip) <=> Meets(Rule, "ip")
  BY <1>2, PassesWhenMet
<1>4. CASE Accepts(Matcher("ip"), in.ip)
  <2>1. pc' = "reserve" /\ loc' = [loc EXCEPT !.rule = loc.i, !.ident = Identify(conf.identity, in)]
    BY <1>4 DEF MatchIP, To
  <2>2. loc.i \in Candidates
    BY <1>2, <1>3, <1>4 DEF Candidates, Domains, Rule
  <2>3. FirstMatch = loc.i
    <3> DEFINE i == loc.i
               Least(c) == \A d \in Candidates : c <= d
    <3>1. Candidates \subseteq Nat /\ i \in Candidates /\ \A c \in Candidates : c >= i
      BY <1>2, <2>2, RuleNumbers DEF Passed, Shape
    <3> HIDE DEF i
    <3>2. Least(i) /\ \A c \in Candidates : Least(c) => c = i
      BY <3>1
    <3>3. (CHOOSE c \in Candidates : Least(c)) = i
      BY <3>1, <3>2
    <3> QED BY <1>2, <3>1, <3>3 DEF FirstMatch, Counted, i
  <2>4. loc' \in Locals /\ loc'.rule = loc.i
    <3> DEFINE i == loc.i
               d == Identify(conf.identity, in)
               a == [loc EXCEPT !.rule = i]
    <3>1. i \in Nat /\ d \in Idents
      BY DEF Shape, Locals, Idents
    <3> HIDE DEF i, d
    <3>2. a \in Locals /\ a.rule = i
      BY <3>1 DEF Shape, Locals
    <3>3. loc' = [a EXCEPT !.ident = d]
      BY <2>1 DEF i, d
    <3> HIDE DEF a
    <3>4. loc' \in Locals /\ loc'.rule = i
      BY <3>1, <3>2, <3>3 DEF Locals
    <3> QED BY <3>4 DEF i
  <2>5. Shape'
    BY <1>1, <2>1, <2>4 DEF Shape, Places
  <2> QED BY <1>1, <2>1, <2>3, <2>4, <2>5, SameMeaning DEF MatchInv, Looking, Testing, Matching
<1>5. CASE ~Accepts(Matcher("ip"), in.ip)
  <2>1. pc' = "try" /\ loc' = [loc EXCEPT !.j = @ + 1]
    BY <1>5 DEF MatchIP, To
  <2>2. loc.i \notin Candidates /\ pc \in Looking /\ loc.rule = 0
    BY <1>1, <1>3, <1>5, TestFailed DEF Domains, Testing
  <2> QED BY <1>1, <1>2, <2>1, <2>2, PathFailed
<1> QED BY <1>4, <1>5

(* After the matching nothing changes what was found. *)
Later ==
    \/ Reserve \/ Send \/ RoundTrip \/ RollbackAndFail \/ Fail502
    \/ ReadResponse \/ Judge \/ RejectStream \/ WriteResponse
    \/ ReadLine \/ StreamEnds \/ StreamBreaks \/ WriteFrame \/ Flush \/ ConfirmFirst \/ StreamOver

LEMMA LaterSteps ==
    ASSUME Shape, Later
    PROVE  /\ conf' = conf /\ in' = in /\ canon' = canon
           /\ pc \notin Matching /\ pc' \in Places \ Matching
           /\ loc' = loc \/ loc' = [loc EXCEPT !.reserved = TRUE]
<1>1. CASE Reserve
  BY <1>1 DEF Reserve, From, To, Matching, Places, Final, request
<1>2. CASE Send \/ RoundTrip \/ RollbackAndFail \/ Fail502
  BY <1>2 DEF Send, RoundTrip, RollbackAndFail, Fail502, Fails, From, To, Matching, Places,
              Final, request
<1>3. CASE ReadResponse \/ Judge \/ RejectStream \/ WriteResponse
  BY <1>3 DEF ReadResponse, Judge, RejectStream, WriteResponse, Fails, From, To, Matching,
              Places, Final, request
<1>4. CASE ReadLine \/ StreamEnds \/ StreamBreaks \/ WriteFrame \/ Flush \/ ConfirmFirst \/ StreamOver
  BY <1>4 DEF ReadLine, StreamEnds, StreamBreaks, WriteFrame, Flush, ConfirmFirst, StreamOver, From, To,
              AfterBreak, NextFrame, Matching, Places, Final, request
<1> QED BY <1>1, <1>2, <1>3, <1>4 DEF Later

LEMMA LaterMatches ==
    ASSUME Shape, MatchInv, Later PROVE Shape' /\ MatchInv'
<1>1. /\ conf' = conf /\ in' = in /\ canon' = canon
      /\ pc \notin Matching /\ pc' \in Places /\ pc' \notin Matching
      /\ loc' = loc \/ loc' = [loc EXCEPT !.reserved = TRUE]
  BY LaterSteps
<1>2. loc' \in Locals /\ loc'.rule = loc.rule
  <2>1. CASE loc' = loc
    BY <2>1 DEF Shape
  <2>2. CASE loc' = [loc EXCEPT !.reserved = TRUE]
    BY <2>2 DEF Shape, Locals
  <2> QED BY <1>1, <2>1, <2>2
<1>3. Shape'
  BY <1>1, <1>2, CanonKept DEF Shape
<1> QED BY <1>1, <1>2, <1>3, SameMeaning DEF MatchInv, Looking, Testing, Matching

LEMMA MatchInit == GateInit => Shape /\ MatchInv
<1> SUFFICES ASSUME GateInit PROVE Shape /\ MatchInv
  OBVIOUS
<1>1. conf \in Configs /\ in \in Requests /\ pc = "start"
      /\ loc = [i |-> 1, j |-> 1, rule |-> 0, ident |-> <<>>, reserved |-> FALSE]
      /\ canon = [body |-> NotDone, form |-> NotDone, json |-> NotDone, headers |-> NotDone]
  BY DEF GateInit
<1>2. loc \in Locals
  BY <1>1 DEF Locals, Idents
<1>3. CanonOK
  BY <1>1 DEF CanonOK
<1>4. Shape
  BY <1>1, <1>2, <1>3 DEF Shape, Places
<1> QED BY <1>1, <1>4 DEF MatchInv, Looking, Testing, Matching

LEMMA MatchStep == Shape /\ MatchInv /\ [GateNext]_gatevars => Shape' /\ MatchInv'
<1> SUFFICES ASSUME Shape, MatchInv, [GateNext]_gatevars PROVE Shape' /\ MatchInv'
  OBVIOUS
<1>1. CASE UNCHANGED gatevars
  <2>1. /\ conf' = conf /\ in' = in /\ canon' = canon /\ pc' = pc /\ loc' = loc
    BY <1>1 DEF gatevars
  <2>2. Shape'
    BY <2>1, CanonKept DEF Shape
  <2>3. \A i, d : Meets(conf.rules[i], d)' = Meets(conf.rules[i], d)
    BY <2>1, SameMeaning
  <2> QED BY <2>1, <2>2, <2>3, SameMeaning DEF MatchInv, Passed, Ahead, Matches, Rule
<1> QED BY <1>1, StartMatches, TryMatches, DomainsMatch, IPMatches, LaterMatches
        DEF GateNext, Over, Later

(* The rule a request gets is the one the configuration means: the first   *)
(* with a matching path and with every domain's condition met, unless the  *)
(* quota is switched off or the path excluded.                             *)
THEOREM MatchingCorrect == GateSpec => []MatchesAsConfigured
<1>1. MatchInv => MatchesAsConfigured
  BY DEF MatchInv, Matching, MatchesAsConfigured
<1> QED BY <1>1, MatchInit, MatchStep, PTL DEF GateSpec

-------------------------------------------------------------------------------
(* Identities.  The joined string keeps apart what it is joined from: it   *)
(* has as many parts as names, unless a value has a separator in it.       *)

ConfIdent == conf.identity
Extractors == ConfIdent.extractors
Extracted(x, i) == ExtractValue(x, Extractors[i]).value

LEMMA ValuesSeen ==
    ASSUME conf \in Configs, NEW x \in Requests
    PROVE  /\ Len(Extractors) \in Nat /\ DOMAIN Extractors = 1..Len(Extractors)
           /\ \A i \in DOMAIN Extractors : Extracted(x, i) \in Values
           /\ x.ip \in Values
<1>1. ASSUME NEW i \in DOMAIN Extractors PROVE Extracted(x, i) \in Values
  <2>1. Extractors[i] \in ToSet(conf.identity.extractors)
    BY DEF Extractors, ConfIdent, ToSet
  <2>2. Extractors[i] \in AllExtractors
    BY <2>1 DEF AllExtractors
  <2>3. ExtractValue(x, Extractors[i]).value
           \in {ExtractValue(r, ex).value : r \in Requests, ex \in AllExtractors}
    BY <2>2
  <2> QED BY <2>3 DEF Values, Extracted
<1>2. x.ip \in Values
  <2>1. x.ip \in {r.ip : r \in Requests}
    OBVIOUS
  <2> QED BY <2>1 DEF Values
<1>3. Listed(Extractors)
  BY SplitAssumption DEF Extractors, ConfIdent
<1> QED BY <1>1, <1>2, <1>3 DEF Listed

PartTexts(name, v) == ToSet(SplitValue(v).rest) \cup {<<name, SplitValue(v).first>>}

LEMMA PartShape ==
    ASSUME NEW name, NEW v \in Values
    PROVE  /\ Part(name, v) \in Seq(PartTexts(name, v)) /\ Part(name, v) # <<>>
           /\ Part(name, v)[1] = <<name, SplitValue(v).first>>
           /\ Len(Part(name, v)) \in Nat /\ Len(Part(name, v)) >= 1
           /\ Len(Part(name, v)) = 1 <=> SplitValue(v).rest = <<>>
<1> DEFINE T == PartTexts(name, v)
           head == << <<name, SplitValue(v).first>> >>
           rest == SplitValue(v).rest
<1>1. head \in Seq(T) /\ rest \in Seq(T)
  <2>1. rest \in Seq(ToSet(rest))
    BY SplitAssumption
  <2>2. ToSet(rest) \subseteq T
    BY DEF PartTexts
  <2>3. rest \in Seq(T)
    BY <2>1, <2>2, SeqMonotonic
  <2> QED BY <2>3 DEF PartTexts
<1>2. Len(head) = 1 /\ head[1] = <<name, SplitValue(v).first>> /\ Len(rest) \in Nat
  BY <1>1, LenProperties
<1>3. Part(name, v) = head \o rest
  BY DEF Part
<1> HIDE DEF head, rest, T
<1>4. /\ head \o rest \in Seq(T) /\ Len(head \o rest) = 1 + Len(rest)
      /\ (head \o rest)[1] = head[1]
  <2>1. \A k \in Nat : 1 \in 1..(1 + k) /\ 1 <= 1
    OBVIOUS
  <2>2. /\ head \o rest \in Seq(T) /\ Len(head \o rest) = Len(head) + Len(rest)
        /\ \A i \in 1..(Len(head) + Len(rest)) : (head \o rest)[i] =
              IF i <= Len(head) THEN head[i] ELSE rest[i - Len(head)]
    BY <1>1, ConcatProperties
  <2> QED BY <1>2, <2>1, <2>2
<1>5. rest = <<>> <=> Len(rest) = 0
  BY <1>1, EmptySeq
<1> QED BY <1>2, <1>3, <1>4, <1>5, EmptySeq DEF T, rest

(* What a joined identity tells of a subject. *)
Tells(ident, subject) ==
    /\ Len(subject) \in Nat /\ DOMAIN subject = 1..Len(subject)
    /\ subject = [i \in DOMAIN subject |-> subject[i]]
    /\ Len(ident) \in Nat /\ Len(ident) >= Len(subject)
    /\ \A i \in DOMAIN subject : subject[i] = <<subject[i][1], subject[i][2]>> /\ subject[i][2] \in Values
    /\ (Len(ident) = Len(subject)) <=> \A i \in DOMAIN subject : SplitValue(subject[i][2]).rest = <<>>
    /\ Len(ident) = Len(subject) =>
          \A i \in DOMAIN subject : ident[i] = <<subject[i][1], SplitValue(subject[i][2]).first>>

LEMMA OnePartTells ==
    ASSUME NEW name, NEW v \in Values
    PROVE  Tells(Part(name, v), << <<name, v>> >>)
<1>1. << <<name, v>> >>[1] = <<name, v>> /\ DOMAIN << <<name, v>> >> = 1..1
  OBVIOUS
<1>2. \A i \in 1..1 : i = 1
  OBVIOUS
<1> QED BY <1>1, <1>2, PartShape DEF Tells

LEMMA MergeTells ==
    ASSUME conf \in Configs, NEW x \in Requests
    PROVE  Tells(IdentifyMerge(ConfIdent, x),
                 [i \in DOMAIN Extractors |-> <<Extractors[i].name, Extracted(x, i)>>])
<1> DEFINE n == Len(Extractors)
           parts == [i \in 1..n |-> Part(Extractors[i].name, Extracted(x, i))]
           X == UNION {PartTexts(Extractors[i].name, Extracted(x, i)) : i \in 1..n}
           subject == [i \in 1..n |-> <<Extractors[i].name, Extracted(x, i)>>]
           whole == FlattenSeq(parts)
<1>1. /\ n \in Nat /\ DOMAIN Extractors = 1..n
      /\ \A i \in 1..n : Extracted(x, i) \in Values
  BY ValuesSeen
<1>2. IdentifyMerge(ConfIdent, x) = whole
  BY <1>1 DEF IdentifyMerge, Extractors, Extracted
<1>3. ASSUME NEW i \in 1..n
      PROVE  /\ parts[i] \in Seq(X) /\ parts[i] # <<>> /\ Len(parts[i]) \in Nat
             /\ parts[i][1] = <<subject[i][1], SplitValue(subject[i][2]).first>>
             /\ Len(parts[i]) = 1 <=> SplitValue(subject[i][2]).rest = <<>>
             /\ subject[i][2] \in Values /\ subject[i] = <<subject[i][1], subject[i][2]>>
  <2> DEFINE name == Extractors[i].name
             v == Extracted(x, i)
  <2>1. v \in Values
    BY <1>1
  <2>2. PartTexts(name, v) \subseteq X
    OBVIOUS
  <2>3. Part(name, v) \in Seq(X)
    <3>1. Part(name, v) \in Seq(PartTexts(name, v))
      BY <2>1, PartShape
    <3> HIDE DEF X, name, v
    <3> QED BY <2>2, <3>1, SeqMonotonic
  <2>4. parts[i] = Part(name, v) /\ subject[i] = <<name, v>>
    OBVIOUS
  <2> HIDE DEF name, v, parts, subject, X
  <2> QED BY <2>1, <2>3, <2>4, PartShape
<1>4. parts \in [1..n -> Seq(X)]
  BY <1>3
<1>5. Len(subject) = n /\ DOMAIN subject = 1..n
  BY <1>1
<1> HIDE DEF n, parts, X, subject, whole
<1>6. /\ whole \in Seq(X) /\ Len(whole) >= n
      /\ Len(whole) = n <=> \A i \in 1..n : Len(parts[i]) = 1
      /\ Len(whole) = n => \A i \in 1..n : whole[i] = parts[i][1]
  BY <1>1, <1>3, <1>4, PartsJoined DEF whole
<1>7. Len(whole) \in Nat
  BY <1>6, LenProperties
<1>8. subject = [i \in DOMAIN subject |-> subject[i]]
  BY <1>1 DEF subject, n
<1>9. Tells(whole, subject)
  <2>1. /\ Len(subject) \in Nat /\ DOMAIN subject = 1..n /\ Len(subject) = n
        /\ Len(whole) \in Nat /\ Len(whole) >= Len(subject)
    BY <1>1, <1>5, <1>6, <1>7
  <2>2. \A i \in 1..n : subject[i] = <<subject[i][1], subject[i][2]>> /\ subject[i][2] \in Values
    BY <1>3
  <2>3. (Len(whole) = n) <=> \A i \in 1..n : SplitValue(subject[i][2]).rest = <<>>
    BY <1>3, <1>6
  <2>4. Len(whole) = n =>
           \A i \in 1..n : whole[i] = <<subject[i][1], SplitValue(subject[i][2]).first>>
    BY <1>3, <1>6
  <2> QED BY <1>8, <2>1, <2>2, <2>3, <2>4 DEF Tells
<1> QED BY <1>1, <1>2, <1>9 DEF subject, n

LEMMA IdentityTells ==
    ASSUME conf \in Configs, NEW x \in Requests
    PROVE  Tells(Identify(ConfIdent, x), Subject(x))
<1> DEFINE hits == Hits(ConfIdent, x)
           i == CHOOSE i \in hits : \A j \in hits : i <= j
<1>1. CASE hits = {} /\ ConfIdent.fallback
  <2>1. Identify(ConfIdent, x) = Part("ip", x.ip) /\ Subject(x) = << <<"ip", x.ip>> >>
    BY <1>1 DEF Identify, Fallback, Subject, ConfIdent
  <2> QED BY <2>1, ValuesSeen, OnePartTells
<1>2. CASE hits = {} /\ ~ConfIdent.fallback
  <2>1. Identify(ConfIdent, x) = <<>> /\ Subject(x) = <<>>
    BY <1>2 DEF Identify, Fallback, Subject, ConfIdent
  <2>2. Len(<<>>) = 0 /\ DOMAIN <<>> = 1..0 /\ 1..0 = {}
    BY EmptySeq
  <2> QED BY <2>1, <2>2 DEF Tells
<1>3. CASE hits # {} /\ Strategy(ConfIdent) = "merge_all"
  <2>1. /\ Identify(ConfIdent, x) = IdentifyMerge(ConfIdent, x)
        /\ Subject(x) = [j \in DOMAIN Extractors |-> <<Extractors[j].name, Extracted(x, j)>>]
    BY <1>3 DEF Identify, Subject, ConfIdent, Extractors, Extracted
  <2> QED BY <2>1, MergeTells
<1>4. CASE hits # {} /\ Strategy(ConfIdent) # "merge_all"
  <2>1. /\ Identify(ConfIdent, x) = Part(Extractors[i].name, Extracted(x, i))
        /\ Subject(x) = << <<Extractors[i].name, Extracted(x, i)>> >>
    BY <1>4 DEF Identify, IdentifyPriority, Subject, ConfIdent, Extractors, Extracted
  <2>2. i \in hits
    <3>1. hits \in SUBSET Nat
      BY ValuesSeen DEF Hits, Extractors
    <3> HIDE DEF hits
    <3>2. \E k \in hits : \A j \in hits : k <= j
      BY <1>4, <3>1, LeastNumber
    <3> QED BY <3>2
  <2>3. Extracted(x, i) \in Values
    <3>1. i \in DOMAIN Extractors
      BY <2>2 DEF Hits, Extractors
    <3> QED BY <3>1, ValuesSeen
  <2> QED BY <2>1, <2>3, OnePartTells
<1> QED BY <1>1, <1>2, <1>3, <1>4

(* Only what the extractors found can bring separators into an identity;   *)
(* then no other request has a longer subject.                             *)
LEMMA LongestSubject ==
    ASSUME conf \in Configs, NEW x \in Requests, NEW y \in Requests, HasSeparator(x)
    PROVE  Len(Subject(y)) <= Len(Subject(x))
<1> DEFINE merged == Strategy(ConfIdent) = "merge_all"
           n == Len(Extractors)
<1>1. n \in Nat /\ DOMAIN Extractors = 1..n
  BY ValuesSeen
<1>2. ASSUME NEW z \in Requests
      PROVE  /\ Hits(ConfIdent, z) = {} => Len(Subject(z)) <= 1 /\ ~HasSeparator(z)
             /\ Hits(ConfIdent, z) # {} /\ merged => Len(Subject(z)) = n /\ n >= 1
             /\ Hits(ConfIdent, z) # {} /\ ~merged => Len(Subject(z)) = 1
  <2>1. ASSUME Hits(ConfIdent, z) = {} PROVE Len(Subject(z)) <= 1 /\ ~HasSeparator(z)
    <3>1. Subject(z) = << <<"ip", z.ip>> >> \/ Subject(z) = <<>>
      BY <2>1 DEF Subject, ConfIdent
    <3>2. SplitValue(z.ip).rest = <<>>
      BY SplitAssumption
    <3>3. CASE Subject(z) = << <<"ip", z.ip>> >>
      <4>1. \A i \in DOMAIN Subject(z) : Subject(z)[i] = <<"ip", z.ip>>
        BY <3>3
      <4>2. ~HasSeparator(z)
        BY <3>2, <4>1 DEF HasSeparator
      <4> QED BY <3>3, <4>2
    <3>4. CASE Subject(z) = <<>>
      <4>1. DOMAIN <<>> = {} /\ Len(<<>>) = 0
        BY EmptySeq
      <4> QED BY <3>4, <4>1 DEF HasSeparator
    <3> QED BY <3>1, <3>3, <3>4
  <2>2. ASSUME Hits(ConfIdent, z) # {}, merged PROVE Len(Subject(z)) = n /\ n >= 1
    <3>1. Subject(z) = [j \in 1..n |-> <<Extractors[j].name, Extracted(z, j)>>]
      BY <1>1, <2>2 DEF Subject, ConfIdent, Extractors, Extracted
    <3>2. 1..n # {}
      BY <1>1, <2>2 DEF Hits, Extractors
    <3> QED BY <1>1, <3>1, <3>2
  <2>3. ASSUME Hits(ConfIdent, z) # {}, ~merged PROVE Len(Subject(z)) = 1
    BY <2>3 DEF Subject, ConfIdent
  <2> QED BY <2>1, <2>2, <2>3
<1> HIDE DEF merged, n
<1>3. Hits(ConfIdent, x) # {}
  BY <1>2
<1>4. CASE merged
  BY <1>1, <1>2, <1>3, <1>4
<1>5. CASE ~merged
  BY <1>1, <1>2, <1>3, <1>5
<1> QED BY <1>4, <1>5

LEMMA Apart ==
    ASSUME conf \in Configs, NEW x \in Requests, NEW y \in Requests,
           Identify(ConfIdent, x) = Identify(ConfIdent, y)
    PROVE  Subject(x) = Subject(y) \/ (HasSeparator(x) /\ HasSeparator(y))
<1> DEFINE s == Subject(x)
           t == Subject(y)
           ident == Identify(ConfIdent, x)
<1>1. Tells(ident, s) /\ Tells(ident, t)
  BY IdentityTells
<1>2. HasSeparator(x) <=> Len(ident) # Len(s)
  BY <1>1 DEF Tells, HasSeparator
<1>3. HasSeparator(y) <=> Len(ident) # Len(t)
  BY <1>1 DEF Tells, HasSeparator
<1>4. ASSUME HasSeparator(x) PROVE HasSeparator(y)
  <2>1. Len(t) <= Len(s)
    BY <1>4, LongestSubject
  <2> HIDE DEF s, t, ident
  <2> QED BY <1>1, <1>2, <1>3, <1>4, <2>1 DEF Tells
<1>5. ASSUME HasSeparator(y) PROVE HasSeparator(x)
  <2>1. Len(s) <= Len(t)
    BY <1>5, LongestSubject
  <2> HIDE DEF s, t, ident
  <2> QED BY <1>1, <1>2, <1>3, <1>5, <2>1 DEF Tells
<1>6. ASSUME ~HasSeparator(x), ~HasSeparator(y) PROVE s = t
  <2>1. Len(ident) = Len(s) /\ Len(ident) = Len(t)
    BY <1>2, <1>3, <1>6
  <2> HIDE DEF s, t, ident
  <2>2. ASSUME NEW i \in 1..Len(s) PROVE s[i] = t[i]
    <3>1. /\ SplitValue(s[i][2]).rest = <<>> /\ SplitValue(t[i][2]).rest = <<>>
          /\ s[i][2] \in Values /\ t[i][2] \in Values
          /\ <<s[i][1], SplitValue(s[i][2]).first>> = <<t[i][1], SplitValue(t[i][2]).first>>
          /\ s[i] = <<s[i][1], s[i][2]>> /\ t[i] = <<t[i][1], t[i][2]>>
      BY <1>1, <2>1 DEF Tells
    <3>2. s[i][1] = t[i][1] /\ SplitValue(s[i][2]).first = SplitValue(t[i][2]).first
      BY <3>1
    <3>3. s[i][2] = t[i][2]
      BY <3>1, <3>2, SplitAssumption
    <3> QED BY <3>1, <3>2, <3>3
  <2>3. s = [i \in 1..Len(s) |-> s[i]] /\ t = [i \in 1..Len(s) |-> t[i]]
    <3>1. s = [i \in DOMAIN s |-> s[i]] /\ DOMAIN s = 1..Len(s)
      BY <1>1 DEF Tells
    <3>2. t = [i \in DOMAIN t |-> t[i]] /\ DOMAIN t = 1..Len(s)
      BY <1>1, <2>1 DEF Tells
    <3> QED BY <3>1, <3>2
  <2> QED BY <2>2, <2>3
<1> QED BY <1>4, <1>5, <1>6

(* The identity a request counts under is its own. *)
IdentInv == loc.rule # 0 => loc.ident = Identify(ConfIdent, in)

LEMMA IdentInit == GateInit => IdentInv
BY DEF GateInit, IdentInv

LEMMA IdentStep == Shape /\ IdentInv /\ [GateNext]_gatevars => IdentInv'
<1> SUFFICES ASSUME Shape, IdentInv, [GateNext]_gatevars PROVE IdentInv'
  OBVIOUS
<1> DEFINE Kept(l) == l.rule = loc.rule /\ l.ident = loc.ident
<1>1. conf' = conf /\ in' = in
  BY DEF GateNext, Start, TryPath, MatchForm, MatchJSON, MatchBody, MatchHeaders, MatchIP,
         Reserve, Send, RoundTrip, RollbackAndFail, Fail502, ReadResponse, Judge, RejectStream,
         WriteResponse, ReadLine, StreamEnds, StreamBreaks, WriteFrame, Flush, ConfirmFirst, StreamOver,
         Over, request, gatevars
<1>2. loc \in Locals
  BY DEF Shape
<1>3. /\ Kept([loc EXCEPT !.j = @ + 1]) /\ Kept([loc EXCEPT !.i = @ + 1, !.j = 1])
      /\ Kept([loc EXCEPT !.reserved = TRUE]) /\ Kept(loc)
      /\ \A n, d : [loc EXCEPT !.rule = n, !.ident = d].ident = d
  BY <1>2 DEF Locals
<1>4. \/ loc' \in {loc, [loc EXCEPT !.j = @ + 1], [loc EXCEPT !.i = @ + 1, !.j = 1],
                    [loc EXCEPT !.reserved = TRUE]}
      \/ loc' = [loc EXCEPT !.rule = loc.i, !.ident = Identify(conf.identity, in)]
  <2>1. CASE Start \/ Send \/ RoundTrip \/ RollbackAndFail \/ Fail502 \/ ReadResponse \/ Judge
               \/ RejectStream \/ WriteResponse \/ ReadLine \/ StreamEnds \/ StreamBreaks
               \/ WriteFrame \/ Flush \/ ConfirmFirst \/ StreamOver \/ Over \/ UNCHANGED gatevars
    BY <2>1 DEF Start, Send, RoundTrip, RollbackAndFail, Fail502, ReadResponse, Judge,
           RejectStream, WriteResponse, ReadLine, StreamEnds, StreamBreaks, WriteFrame, Flush,
           ConfirmFirst, StreamOver, Over, gatevars
  <2>2. CASE TryPath
    BY <2>2 DEF TryPath
  <2>3. CASE MatchForm \/ MatchJSON \/ MatchHeaders
    BY <2>3 DEF MatchForm, MatchJSON, MatchBody, MatchHeaders, Judged
  <2>4. CASE MatchIP
    BY <2>4 DEF MatchIP
  <2>5. CASE Reserve
    BY <2>5 DEF Reserve
  <2> QED BY <2>1, <2>2, <2>3, <2>4, <2>5 DEF GateNext
<1>5. Kept(loc') \/ loc'.ident = Identify(conf.identity, in)
  <2> HIDE DEF Kept
  <2> QED BY <1>3, <1>4
<1> QED BY <1>1, <1>5 DEF IdentInv, ConfIdent

(* Requests count together only for the same names and values, unless      *)
(* there are separators in the values of both: joining names and values    *)
(* loses nothing else, with either strategy and with the fallback.         *)
THEOREM CountedApart == GateSpec => []SubjectsKeptApart
<1>1. Shape /\ IdentInv => SubjectsKeptApart
  <2> SUFFICES ASSUME Shape, IdentInv, loc.rule # 0, NEW x \in Requests,
                      Identify(conf.identity, x) = loc.ident
               PROVE  Subject(x) = Subject(in) \/ (HasSeparator(x) /\ HasSeparator(in))
    BY DEF SubjectsKeptApart
  <2>1. conf \in Configs /\ in \in Requests
    BY DEF Shape
  <2> QED BY <2>1, Apart DEF IdentInv, ConfIdent
<1>2. Shape /\ MatchInv /\ IdentInv /\ [GateNext]_gatevars => Shape' /\ MatchInv' /\ IdentInv'
  BY MatchStep, IdentStep
<1> QED BY <1>1, <1>2, MatchInit, IdentInit, PTL DEF GateSpec

-------------------------------------------------------------------------------
(* The body.  It is gone only when reading it has failed, and Send sends   *)
(* all of a body that is there and is not refused as too large.            *)

BodyKept == body \in {"whole", "none"} /\ (body = "none" => in.breaks)
BodyInv == in \in Requests /\ BodyKept /\ BodyForwardedIntact

LEMMA BodyAfterRead ==
    ASSUME in \in Requests, BodyKept
    PROVE  LET b == ReadRequestBody.body IN b \in {"whole", "none"} /\ (b = "none" => in.breaks)
<1>1. CASE canon.body.done
  BY <1>1 DEF ReadRequestBody, BodyKept
<1>2. CASE ~canon.body.done /\ in.breaks
  BY <1>2 DEF ReadRequestBody
<1>3. CASE ~canon.body.done /\ ~in.breaks
  BY <1>3 DEF ReadRequestBody, BodyKept
<1> QED BY <1>1, <1>2, <1>3

LEMMA MatchingKeepsBody ==
    ASSUME BodyInv, MatchForm \/ MatchJSON PROVE BodyInv'
<1>1. in' = in /\ sent' = sent
  BY DEF MatchForm, MatchJSON, MatchBody, request
<1>2. body' = body \/ body' = ReadRequestBody.body
  BY DEF MatchForm, MatchJSON, MatchBody, AfterForm, Unread, request
<1> QED BY <1>1, <1>2, BodyAfterRead DEF BodyInv, BodyKept, BodyForwardedIntact

LEMMA SendsWhole ==
    ASSUME BodyInv, Send PROVE BodyInv'
<1>1. in' = in /\ body' = body
  BY DEF Send
<1>2. CASE TooLarge
  BY <1>1, <1>2 DEF Send, BodyInv, BodyKept, BodyForwardedIntact
<1>3. CASE ~TooLarge
  <2>1. MaxBodySize \in Nat /\ in.size \in Nat
    BY GateAssumption DEF BodyInv
  <2>2. ~(Size > MaxBodySize)
    BY <1>3, <2>1 DEF TooLarge, ReadNow
  <2>3. Readable = in.content \/ in.breaks
    BY <2>2 DEF Readable, BodyInv, BodyKept
  <2>4. sent' = Readable
    BY <1>3 DEF Send
  <2> QED BY <1>1, <2>3, <2>4 DEF BodyInv, BodyKept, BodyForwardedIntact
<1> QED BY <1>2, <1>3

LEMMA OthersKeepBody ==
    ASSUME GateNext, ~(MatchForm \/ MatchJSON \/ Send)
    PROVE  in' = in /\ body' = body /\ sent' = sent
BY DEF GateNext, Start, TryPath, MatchHeaders, MatchIP, Reserve, RoundTrip, RollbackAndFail, Fail502,
       ReadResponse, Judge, RejectStream, WriteResponse, ReadLine, StreamEnds, StreamBreaks,
       WriteFrame, Flush,
       ConfirmFirst, StreamOver, Over, request, gatevars

(* What goes upstream is the client's body, whole, unless it broke off     *)
(* while it was being read.                                                *)
THEOREM BodyGoesWhole == GateSpec => []BodyForwardedIntact
<1>1. GateInit => BodyInv
  BY DEF GateInit, BodyInv, BodyKept, BodyForwardedIntact
<1>2. BodyInv /\ [GateNext]_gatevars => BodyInv'
  <2> SUFFICES ASSUME BodyInv, [GateNext]_gatevars PROVE BodyInv'
    OBVIOUS
  <2>1. CASE in' = in /\ body' = body /\ sent' = sent
    BY <2>1 DEF BodyInv, BodyKept, BodyForwardedIntact
  <2>2. UNCHANGED gatevars => in' = in /\ body' = body /\ sent' = sent
    BY DEF gatevars
  <2> QED BY <2>1, <2>2, MatchingKeepsBody, SendsWhole, OthersKeepBody
<1>3. BodyInv => BodyForwardedIntact
  BY DEF BodyInv
<1> QED BY <1>1, <1>2, <1>3, PTL DEF GateSpec

-------------------------------------------------------------------------------
(* The seat and the answer, place by place.                                *)

Fields == {"got", "frame", "taken", "out", "event", "eof", "confirmed", "failed", "lost"}
Confirmed(ok) == << [op |-> "confirm", ok |-> ok] >>

AnswerInv ==
    /\ heads \in {0, 1}
    /\ DOMAIN stream = Fields /\ stream.confirmed \in BOOLEAN
    /\ pc \notin {"line", "frame", "flush", "confirm", "ended", Final} => heads = 0
    /\ pc \in Matching \cup {"reserve", "send", "roundtrip", "read", "judge", "rejected",
                             "rollback502", "confirm"} => settled = <<>> /\ ~stream.confirmed
    /\ pc = "reserve" => ~loc.reserved
    /\ pc \in {"judge", "rejected", "rollback502", "confirm"} => loc.reserved
    /\ pc \in {"502", "write"} => IF loc.reserved THEN Len(settled) = 1 ELSE settled = <<>>
    /\ pc \in {"line", "frame", "flush", "ended"} /\ stream.confirmed =>
          loc.reserved /\ settled = Confirmed(TRUE)
    /\ pc \in {"line", "frame", "flush"} /\ ~stream.confirmed => settled = <<>>
    /\ pc = "ended" /\ ~stream.confirmed =>
          settled = <<>> \/ (loc.reserved /\ settled = Confirmed(FALSE))
    /\ pc = Final => heads = 1 /\ SettledOnce

LEMMA AnswerInit == GateInit => AnswerInv
<1> SUFFICES ASSUME GateInit PROVE AnswerInv
  OBVIOUS
<1>1. pc = "start" /\ settled = <<>> /\ heads = 0
  BY DEF GateInit
<1>2. stream = NoStream
  BY DEF GateInit
<1>3. DOMAIN stream = Fields /\ stream.confirmed = FALSE
  BY <1>2 DEF NoStream, Fields
<1> QED BY <1>1, <1>3 DEF AnswerInv, Matching, Final

Answering == Shape /\ MatchInv /\ AnswerInv

LEMMA MatchingAnswers ==
    ASSUME Answering, Shape', MatchInv',
           Start \/ TryPath \/ MatchForm \/ MatchJSON \/ MatchHeaders \/ MatchIP
    PROVE  AnswerInv'
<1>1. /\ pc \in Matching /\ UNCHANGED <<settled, heads, stream>>
      /\ pc' \in Matching \cup {"send", "reserve"}
  <2>1. CASE Start \/ TryPath \/ MatchHeaders \/ MatchIP
    BY <2>1 DEF Start, TryPath, MatchHeaders, MatchIP, From, To, Judged, Matching
  <2>2. CASE MatchForm \/ MatchJSON
    BY <2>2 DEF MatchForm, MatchJSON, MatchBody, From, To, Judged, Matching
  <2> QED BY <2>1, <2>2
<1>2. pc' = "reserve" => ~loc'.reserved
  <2> SUFFICES ASSUME pc' = "reserve" PROVE ~loc'.reserved
    OBVIOUS
  <2>1. CASE MatchIP
    <3>1. loc' = [loc EXCEPT !.rule = loc.i, !.ident = Identify(conf.identity, in)]
      BY <2>1 DEF MatchIP, To
    <3>2. loc'.reserved = loc.reserved
      BY <3>1 DEF Answering, Shape, Locals
    <3> QED BY <1>1, <3>2 DEF Answering, MatchInv
  <2>2. ~Start
    BY DEF Start, To
  <2>3. ~MatchForm /\ ~MatchJSON
    BY DEF MatchForm, MatchJSON, MatchBody, To, Judged
  <2>4. ~MatchHeaders
    BY DEF MatchHeaders, To, Judged
  <2>5. ~TryPath
    <3> SUFFICES ASSUME TryPath PROVE FALSE
      OBVIOUS
    <3> DEFINE i == loc.i
               j == loc.j
               n == Len(conf.rules)
               m == Len(Rule.paths)
    <3>1. pc = "try" /\ i \in 1..(n + 1) /\ n \in Nat /\ DOMAIN conf.rules = 1..n /\ j \in Nat
      BY RuleNumbers DEF TryPath, From, Answering, Shape, Locals, MatchInv, Looking, Matching
    <3>2. i <= n => m \in Nat
      BY <3>1, RuleNumbers DEF Rule, Answering, Shape
    <3>3. CASE i > n
      BY <3>1, <3>3 DEF TryPath, To
    <3>4. CASE i <= n /\ j > m
      BY <3>1, <3>2, <3>4 DEF TryPath, To
    <3>5. CASE i <= n /\ j <= m
      BY <3>1, <3>2, <3>5 DEF TryPath, To
    <3>6. i > n \/ (i <= n /\ (j > m \/ j <= m))
      <4> HIDE DEF i, j, n, m
      <4> QED BY <3>1, <3>2
    <3> QED BY <3>3, <3>4, <3>5, <3>6
  <2> QED BY <2>1, <2>2, <2>3, <2>4, <2>5
<1>3. heads = 0 /\ settled = <<>> /\ ~stream.confirmed
  BY <1>1 DEF Answering, AnswerInv, Matching, Final
<1> QED BY <1>1, <1>2, <1>3 DEF Answering, AnswerInv, Matching, Final

LEMMA ReserveAnswers == ASSUME Answering, Reserve PROVE AnswerInv'
<1>1. pc = "reserve" /\ settled' = settled /\ stream' = stream
  BY DEF Reserve, From
<1>2. heads = 0 /\ settled = <<>> /\ ~stream.confirmed /\ ~loc.reserved
  BY <1>1 DEF Answering, AnswerInv, Final
<1>3. \/ pc' = "send" /\ heads' = heads
      \/ pc' = Final /\ heads' = 1 /\ loc' = loc
  BY <1>2 DEF Reserve, To, Respond
<1> QED BY <1>1, <1>2, <1>3 DEF Answering, AnswerInv, SettledOnce, Matching, Final

LEMMA CallAnswers == ASSUME Answering, Send \/ RoundTrip \/ ReadResponse PROVE AnswerInv'
<1>1. /\ pc \in {"send", "roundtrip", "read"}
      /\ UNCHANGED <<loc, settled, heads, stream>>
      /\ \/ pc' \in {"roundtrip", "read", "line"}
         \/ pc' \in {"rollback502", "judge", "rejected"} /\ loc.reserved
         \/ pc' \in {"502", "write"} /\ ~loc.reserved
  BY DEF Send, RoundTrip, ReadResponse, From, To, Fails
<1>2. heads = 0 /\ settled = <<>> /\ ~stream.confirmed
  BY <1>1 DEF Answering, AnswerInv, Final
<1> QED BY <1>1, <1>2 DEF Answering, AnswerInv, Matching, Final

LEMMA SettleAnswers ==
    ASSUME Answering, RollbackAndFail \/ Judge \/ RejectStream PROVE AnswerInv'
<1>1. /\ pc \in {"rollback502", "judge", "rejected"} /\ pc' \in {"502", "write"}
      /\ UNCHANGED <<loc, heads, stream>>
      /\ \E op : Settlement(op)
  BY DEF RollbackAndFail, Judge, RejectStream, From, To
<1>2. heads = 0 /\ settled = <<>> /\ loc.reserved
  BY <1>1 DEF Answering, AnswerInv, Final
<1>3. Len(settled') = 1
  BY <1>1, <1>2 DEF Settlement
<1> QED BY <1>1, <1>2, <1>3 DEF Answering, AnswerInv, Matching, Final

LEMMA WholeAnswers == ASSUME Answering, Fail502 \/ WriteResponse PROVE AnswerInv'
<1>1. /\ pc \in {"502", "write"} /\ pc' = Final /\ heads' = heads + 1
      /\ UNCHANGED <<loc, settled, stream>>
  BY DEF Fail502, WriteResponse, From, To, Respond
<1>2. heads = 0 /\ IF loc.reserved THEN Len(settled) = 1 ELSE settled = <<>>
  BY <1>1 DEF Answering, AnswerInv, Final
<1>3. SettledOnce'
  BY <1>1, <1>2 DEF SettledOnce
<1> QED BY <1>1, <1>2, <1>3 DEF Answering, AnswerInv, Matching, Final

LEMMA LineAnswers == ASSUME Answering, ReadLine \/ StreamEnds \/ StreamBreaks PROVE AnswerInv'
<1>1. /\ pc = "line" /\ pc' \in {"line", "frame", "ended"}
      /\ UNCHANGED <<loc, settled, heads>>
  BY DEF ReadLine, StreamEnds, StreamBreaks, From, To, AfterBreak
<1>2. DOMAIN stream' = Fields /\ stream'.confirmed = stream.confirmed
  BY DEF ReadLine, StreamEnds, StreamBreaks, Gather, Answering, AnswerInv, Fields
<1> QED BY <1>1, <1>2 DEF Answering, AnswerInv, Matching, Final

LEMMA WriteAnswers == ASSUME Answering, WriteFrame PROVE AnswerInv'
<1>1. pc = "frame" /\ UNCHANGED <<loc, settled>> /\ pc' \in {"line", "flush", "ended"}
  BY DEF WriteFrame, From, To, NextFrame
<1>2. heads' \in {0, 1}
  <2>1. heads' = heads \/ Begin
    BY DEF WriteFrame
  <2>2. Begin => heads' = heads \/ (heads = 0 /\ heads' = heads + 1)
    BY DEF Begin, Respond, Written, Answering, AnswerInv
  <2>3. heads \in {0, 1}
    BY DEF Answering, AnswerInv
  <2> QED BY <2>1, <2>2, <2>3
<1>3. DOMAIN stream' = Fields /\ stream'.confirmed = stream.confirmed
  BY DEF WriteFrame, Answering, AnswerInv, Fields
<1> QED BY <1>1, <1>2, <1>3 DEF Answering, AnswerInv, Matching, Final

LEMMA FlushAnswers == ASSUME Answering, Flush PROVE AnswerInv'
<1>1. pc = "flush" /\ UNCHANGED <<loc, settled, heads>> /\ pc' \in {"line", "ended", "confirm"}
  BY DEF Flush, From, To, NextFrame
<1>2. heads' \in {0, 1}
  BY <1>1 DEF Answering, AnswerInv
<1>3. DOMAIN stream' = Fields /\ stream'.confirmed = stream.confirmed
  BY DEF Flush, Answering, AnswerInv, Fields
<1>4. pc' = "confirm" => loc.reserved /\ ~stream.confirmed
  BY DEF Flush, ConfirmsNow, To, NextFrame
<1> QED BY <1>1, <1>2, <1>3, <1>4 DEF Answering, AnswerInv, Matching, Final

LEMMA ConfirmAnswers == ASSUME Answering, ConfirmFirst PROVE AnswerInv'
<1>1. /\ pc = "confirm" /\ UNCHANGED <<loc, heads>>
  BY DEF ConfirmFirst, From
<1>2. PICK ok \in BOOLEAN :
        /\ settled' = Append(settled, [op |-> "confirm", ok |-> ok])
        /\ stream' = [stream EXCEPT !.confirmed = ok, !.failed = ~ok,
                                    !.frame = <<>>, !.event = FALSE]
        /\ pc' = IF ok THEN NextFrame ELSE "ended"
  BY DEF ConfirmFirst, To
<1>3. settled = <<>> /\ loc.reserved
  BY <1>1 DEF Answering, AnswerInv
<1>4. settled' = Confirmed(ok)
  BY <1>2, <1>3 DEF Confirmed
<1>5. DOMAIN stream' = Fields /\ stream'.confirmed = ok
  BY <1>2 DEF Answering, AnswerInv, Fields
<1>6. pc' \in {"line", "ended"} /\ (pc' = "line" => ok)
  BY <1>2 DEF NextFrame
<1> QED BY <1>1, <1>3, <1>4, <1>5, <1>6 DEF Answering, AnswerInv, Matching, Final

LEMMA StreamOverAnswers == ASSUME Answering, StreamOver PROVE AnswerInv'
<1>1. pc = "ended" /\ pc' = Final /\ UNCHANGED <<loc, stream>>
  BY DEF StreamOver, From, To
<1>2. heads' = 1
  BY DEF StreamOver, AfterStream, Written, Respond, Answering, AnswerInv
<1>3. SettledOnce'
  <2>1. CASE ~Unsettled
    <3>1. settled' = settled
      BY <2>1 DEF StreamOver
    <3>2. IF loc.reserved THEN settled = Confirmed(TRUE) ELSE settled = <<>>
      BY <1>1, <2>1 DEF Unsettled, Answering, AnswerInv
    <3>3. loc.reserved => Len(settled') = 1
      BY <3>1, <3>2 DEF Confirmed
    <3> QED BY <1>1, <3>1, <3>2, <3>3 DEF SettledOnce
  <2>2. CASE Unsettled
    <3>1. PICK ok \in BOOLEAN : settled' = Append(settled, [op |-> "rollback", ok |-> ok])
      BY <2>2 DEF StreamOver, Settlement
    <3>2. loc'.reserved /\ (settled = <<>> \/ settled = Confirmed(FALSE))
      BY <1>1, <2>2 DEF Unsettled, Answering, AnswerInv
    <3>3. CASE settled = <<>>
      <4>1. Len(settled') = 1
        BY <3>1, <3>3
      <4> QED BY <3>2, <4>1 DEF SettledOnce
    <3>4. CASE settled = Confirmed(FALSE)
      <4>1. /\ DOMAIN settled' = 1..2
            /\ settled'[1].op = "confirm" /\ ~settled'[1].ok /\ settled'[2].op = "rollback"
        <5> DEFINE a == [op |-> "confirm", ok |-> FALSE]
                   b == [op |-> "rollback", ok |-> ok]
        <5>1. settled = <<a>> /\ settled' = Append(settled, b)
          BY <3>1, <3>4 DEF Confirmed
        <5>2. a.op = "confirm" /\ ~a.ok /\ b.op = "rollback"
          OBVIOUS
        <5> HIDE DEF a, b
        <5>3. settled \in Seq({a, b}) /\ Len(settled) = 1 /\ settled[1] = a
          BY <5>1
        <5>4. DOMAIN settled' = 1..2 /\ settled'[1] = a /\ settled'[2] = b
          BY <5>1, <5>3
        <5> QED BY <5>2, <5>4
      <4>2. Ops' = <<"confirm", "rollback">> /\ ~settled'[1].ok
        BY <4>1 DEF Ops
      <4> QED BY <3>2, <4>2 DEF SettledOnce
    <3> QED BY <3>2, <3>3, <3>4
  <2> QED BY <2>1, <2>2
<1> QED BY <1>1, <1>2, <1>3 DEF Answering, AnswerInv, Matching, Final

LEMMA AnswerStep == Answering /\ Shape' /\ MatchInv' /\ [GateNext]_gatevars => AnswerInv'
<1> SUFFICES ASSUME Answering, Shape', MatchInv', [GateNext]_gatevars PROVE AnswerInv'
  OBVIOUS
<1>1. CASE UNCHANGED gatevars
  BY <1>1 DEF gatevars, Answering, AnswerInv, SettledOnce, Ops
<1> QED BY <1>1, MatchingAnswers, ReserveAnswers, CallAnswers, SettleAnswers, WholeAnswers,
           LineAnswers, WriteAnswers, FlushAnswers, ConfirmAnswers, StreamOverAnswers DEF GateNext, Over

LEMMA Answers == GateSpec => []Answering
<1> QED BY MatchInit, MatchStep, AnswerInit, AnswerStep, PTL DEF GateSpec, Answering

(* A seat that was taken is settled exactly once before its request is     *)
(* over: confirmed, rolled back, or rolled back after a Confirm that       *)
(* failed; a request without a seat settles nothing.                       *)
THEOREM SettlesOnce == GateSpec => []SettledOnce
<1>1. Answering => SettledOnce
  BY DEF Answering, AnswerInv, SettledOnce
<1> QED BY <1>1, Answers, PTL

(* Every request that is over was answered, and none is answered twice:    *)
(* no error goes into a stream that has begun.                             *)
THEOREM AnswersOnce == GateSpec => []OneAnswer
<1>1. Answering => OneAnswer
  BY DEF Answering, AnswerInv, OneAnswer
<1> QED BY <1>1, Answers, PTL

-------------------------------------------------------------------------------
(* The types.  The numbers of a rule and a path stay within the            *)
(* configuration, and a body is gone exactly when a read of it has failed. *)

Settlements == [op : {"confirm", "rollback"}, ok : BOOLEAN]
Bodies == {x.content : x \in Requests} \cup {NoBody, Unsent, "part"}

RangeInv == loc.i \in 1..(Len(conf.rules) + 1) /\ loc.rule \in 0..Len(conf.rules)
GoneInv == /\ body \in {"whole", "none"} /\ peak \in Nat
           /\ body = "none" <=> (canon["body"].done /\ in.breaks)
SentInv == /\ sent \in Bodies /\ resp \in Responses \cup {NoResponse}
           /\ settled \in Seq(Settlements)

TypesInv == RangeInv /\ GoneInv /\ SentInv

LEMMA MatchedInRange ==
    ASSUME Shape, MatchInv, MatchIP, RangeInv
    PROVE  \/ loc'.i = loc.i /\ loc'.rule \in 0..Len(conf.rules)
           \/ pc' \in Matching
<1>1. pc = "ip" /\ Len(conf.rules) \in Nat /\ DOMAIN conf.rules = 1..Len(conf.rules)
  BY RuleNumbers DEF MatchIP, From, Shape
<1>2. loc.i \in DOMAIN conf.rules
  BY <1>1 DEF MatchInv, Testing
<1>3. CASE Accepts(Matcher("ip"), in.ip)
  <2>1. loc' = [loc EXCEPT !.rule = loc.i, !.ident = Identify(conf.identity, in)]
    BY <1>3 DEF MatchIP
  <2>2. loc'.i = loc.i /\ loc'.rule = loc.i
    BY <2>1 DEF Shape, Locals
  <2> QED BY <1>1, <1>2, <2>2
<1>4. CASE ~Accepts(Matcher("ip"), in.ip)
  BY <1>4 DEF MatchIP, To, Matching
<1> QED BY <1>3, <1>4

LEMMA RangeStep ==
    ASSUME Shape, MatchInv, RangeInv, Shape', MatchInv', GateNext
    PROVE  RangeInv'
<1>1. conf' = conf /\ Len(conf.rules) \in Nat
  <2>1. conf' = conf
    BY DEF GateNext, Start, TryPath, MatchForm, MatchJSON, MatchBody, MatchHeaders, MatchIP,
           Reserve, Send, RoundTrip, RollbackAndFail, Fail502, ReadResponse, Judge, RejectStream,
           WriteResponse, ReadLine, StreamEnds, StreamBreaks, WriteFrame, Flush,
           ConfirmFirst, StreamOver, Over, request, gatevars
  <2> QED BY <2>1, RuleNumbers DEF Shape
<1>2. CASE pc' \in Matching
  <2>1. loc'.rule = 0
    BY <1>2 DEF MatchInv
  <2>2. loc'.i \in 1..(Len(conf.rules) + 1)
    <3>1. CASE pc' = "start"
      BY <1>1, <3>1 DEF MatchInv
    <3>2. CASE pc' # "start"
      <4>1. (pc \in Looking)'
        BY <1>2, <3>2 DEF Looking, Matching
      <4> QED BY <1>1, <4>1 DEF MatchInv
    <3> QED BY <3>1, <3>2
  <2> QED BY <1>1, <2>1, <2>2 DEF RangeInv
<1>3. CASE pc' \notin Matching
  <2>1. CASE MatchIP
    <3>1. loc'.i = loc.i /\ loc'.rule \in 0..Len(conf.rules)
      BY <1>3, <2>1, MatchedInRange
    <3> QED BY <1>1, <3>1 DEF RangeInv
  <2>2. CASE loc' = loc
    BY <1>1, <2>2 DEF RangeInv
  <2>3. CASE loc' = [loc EXCEPT !.reserved = TRUE]
    <3>1. loc'.i = loc.i /\ loc'.rule = loc.rule
      BY <2>3 DEF Shape, Locals
    <3> QED BY <1>1, <3>1 DEF RangeInv
  <2>4. CASE Later
    BY <2>2, <2>3, <2>4, LaterSteps
  <2>5. CASE MatchForm \/ MatchJSON \/ MatchHeaders
    <3>1. loc' = loc
      BY <1>3, <2>5 DEF MatchForm, MatchJSON, MatchBody, MatchHeaders, Judged, To, Matching
    <3> QED BY <2>2, <3>1
  <2>6. CASE Start
    BY <2>2, <2>6 DEF Start
  <2>7. CASE TryPath
    <3> DEFINE i == loc.i
               j == loc.j
               n == Len(conf.rules)
               m == Len(Rule.paths)
    <3>1. pc = "try"
      BY <2>7 DEF TryPath, From
    <3>2. i \in Nat /\ j \in Nat /\ n \in Nat /\ DOMAIN conf.rules = 1..n /\ i >= 1
      BY RuleNumbers DEF Shape, Locals, RangeInv
    <3>3. i <= n => m \in Nat
      BY <3>2, RuleNumbers DEF Rule, Shape
    <3>4. CASE i > n
      BY <2>2, <2>7, <3>2, <3>4 DEF TryPath
    <3>5. CASE i <= n /\ j > m
      <4>1. pc' = pc
        BY <2>7, <3>2, <3>3, <3>5 DEF TryPath
      <4> QED BY <1>3, <3>1, <4>1 DEF Matching
    <3>6. CASE i <= n /\ j <= m
      <4>1. pc' = "form" \/ pc' = pc
        BY <2>7, <3>2, <3>3, <3>6 DEF TryPath, To
      <4> QED BY <1>3, <3>1, <4>1 DEF Matching
    <3>7. i > n \/ (i <= n /\ (j > m \/ j <= m))
      <4> HIDE DEF i, j, n, m
      <4> QED BY <3>2, <3>3
    <3> QED BY <3>4, <3>5, <3>6, <3>7
  <2>8. CASE Over
    BY <2>2, <2>8 DEF Over, gatevars
  <2> QED BY <2>1, <2>4, <2>5, <2>6, <2>7, <2>8 DEF GateNext, Later
<1> QED BY <1>2, <1>3

LEMMA GoneAfterRead ==
    ASSUME Shape, GoneInv,
           MatchForm \/ MatchJSON
    PROVE  GoneInv'
<1>1. in' = in /\ in \in Requests /\ in.size \in Nat /\ in.breaks \in BOOLEAN
  BY GateAssumption DEF Shape, MatchForm, MatchJSON, MatchBody, request
<1>2. CASE UNCHANGED request
  BY <1>2 DEF request, GoneInv
<1>3. CASE ~(UNCHANGED request)
  <2> DEFINE read == ReadRequestBody
  <2>1. read.canon = BodyCanon /\ read.read \in Nat
    BY <1>1, BodyRead DEF ReadRequestBody
  <2>2. peak' \in Nat
    <3>1. peak' = IF read.read > peak THEN read.read ELSE peak
      BY <1>3 DEF MatchForm, MatchJSON, MatchBody, request
    <3> QED BY <2>1, <3>1 DEF GoneInv
  <2>3. PICK d \in {"form", "json"} :
          \E c : canon' = [canon EXCEPT !["body"] = BodyCanon, ![d] = c]
    <3>1. CASE MatchForm
      <4>1. \E c : canon' = [canon EXCEPT !["body"] = BodyCanon, !["form"] = c]
        BY <1>3, <2>1, <3>1 DEF MatchForm, MatchBody, request
      <4> QED BY <4>1
    <3>2. CASE MatchJSON
      <4>1. \E c : canon' = [canon EXCEPT !["body"] = BodyCanon, !["json"] = c]
        BY <1>3, <2>1, <3>2 DEF MatchJSON, MatchBody, request
      <4> QED BY <4>1
    <3> QED BY <3>1, <3>2
  <2>4. canon'["body"] = BodyCanon
    BY <2>3 DEF Shape, CanonOK
  <2>5. body' = read.body
    BY <1>3 DEF MatchForm, MatchJSON, MatchBody, AfterForm, Unread, request
  <2>6. read.body \in {"whole", "none"} /\ (read.body = "none" <=> in.breaks)
    <3>1. CASE canon.body.done
      BY <3>1 DEF ReadRequestBody, GoneInv
    <3>2. CASE ~canon.body.done
      <4>1. body = "whole"
        BY <3>2 DEF GoneInv
      <4> QED BY <3>2, <4>1 DEF ReadRequestBody
    <3> QED BY <3>1, <3>2
  <2>7. BodyCanon.done
    BY CanonFacts
  <2> QED BY <1>1, <2>2, <2>4, <2>5, <2>6, <2>7 DEF GoneInv
<1> QED BY <1>2, <1>3

LEMMA GoneStep == ASSUME Shape, GoneInv, GateNext PROVE GoneInv'
<1>1. CASE MatchForm \/ MatchJSON
  BY <1>1, GoneAfterRead
<1>2. CASE MatchHeaders
  <2>1. in' = in /\ body' = body /\ peak' = peak
    BY <1>2 DEF MatchHeaders
  <2>2. canon'["body"] = canon["body"]
    BY <1>2 DEF MatchHeaders, Shape, CanonOK
  <2> QED BY <2>1, <2>2 DEF GoneInv
<1>3. CASE Send
  <2>1. in' = in /\ body' = body /\ canon' = canon
    BY <1>3 DEF Send
  <2>2. peak' \in Nat
    <3>1. ReadNow \in Nat
      BY GateAssumption DEF ReadNow, Size, Shape
    <3>2. peak' = IF peak > ReadNow THEN peak ELSE ReadNow
      BY <1>3 DEF Send
    <3> QED BY <3>1, <3>2 DEF GoneInv
  <2> QED BY <2>1, <2>2 DEF GoneInv
<1>4. CASE UNCHANGED request
  BY <1>4 DEF request, GoneInv
<1>5. GateNext => MatchForm \/ MatchJSON \/ MatchHeaders \/ Send \/ UNCHANGED request
  BY DEF GateNext, Start, TryPath, MatchIP, Reserve, RoundTrip, RollbackAndFail, Fail502,
         ReadResponse, Judge, RejectStream, WriteResponse, ReadLine, StreamEnds, StreamBreaks,
         WriteFrame, Flush, ConfirmFirst, StreamOver, Over, request, gatevars
<1> QED BY <1>1, <1>2, <1>3, <1>4, <1>5

LEMMA SentStep == ASSUME Shape, SentInv, GateNext PROVE SentInv'
<1>1. sent' \in Bodies
  <2>1. CASE Send
    <3>1. Readable \in Bodies
      BY DEF Readable, Bodies, Shape
    <3> QED BY <2>1, <3>1 DEF Send, SentInv
  <2>2. CASE ~Send
    <3>1. sent' = sent
      BY <2>2 DEF GateNext, Start, TryPath, MatchForm, MatchJSON, MatchBody, MatchHeaders,
             MatchIP, Reserve, RoundTrip, RollbackAndFail, Fail502, ReadResponse, Judge,
             RejectStream, WriteResponse, ReadLine, StreamEnds, StreamBreaks, WriteFrame, Flush,
             ConfirmFirst, StreamOver, Over, gatevars
    <3> QED BY <3>1 DEF SentInv
  <2> QED BY <2>1, <2>2
<1>2. resp' \in Responses \cup {NoResponse}
  BY DEF SentInv, GateNext, Start, TryPath, MatchForm, MatchJSON, MatchBody, MatchHeaders,
         MatchIP, Reserve, Send, RoundTrip, RollbackAndFail, Fail502, ReadResponse, Judge,
         RejectStream, WriteResponse, ReadLine, StreamEnds, StreamBreaks, WriteFrame, Flush,
         ConfirmFirst, StreamOver, Over, gatevars
<1>3. settled' \in Seq(Settlements)
  <2>1. CASE settled' = settled
    BY <2>1 DEF SentInv
  <2>2. ASSUME NEW op \in {"confirm", "rollback"}, NEW ok \in BOOLEAN,
               settled' = Append(settled, [op |-> op, ok |-> ok])
        PROVE  settled' \in Seq(Settlements)
    <3>1. [op |-> op, ok |-> ok] \in Settlements
      BY DEF Settlements
    <3> QED BY <2>2, <3>1 DEF SentInv
  <2>3. \/ settled' = settled
        \/ \E op \in {"confirm", "rollback"}, ok \in BOOLEAN :
              settled' = Append(settled, [op |-> op, ok |-> ok])
    BY DEF GateNext, Start, TryPath, MatchForm, MatchJSON, MatchBody, MatchHeaders,
           MatchIP, Reserve, Send, RoundTrip, RollbackAndFail, Fail502, ReadResponse, Judge,
           RejectStream, WriteResponse, ReadLine, StreamEnds, StreamBreaks, WriteFrame, Flush,
           ConfirmFirst, StreamOver, Over, gatevars, Settlement
  <2> QED BY <2>1, <2>2, <2>3
<1> QED BY <1>1, <1>2, <1>3 DEF SentInv

LEMMA TypesInit == GateInit => TypesInv
<1> SUFFICES ASSUME GateInit PROVE TypesInv
  OBVIOUS
<1>1. conf \in Configs /\ Len(conf.rules) \in Nat
  BY RuleNumbers DEF GateInit
<1>2. loc.i = 1 /\ loc.rule = 0
  BY DEF GateInit
<1>3. body = "whole" /\ peak = 0 /\ ~canon["body"].done
  BY DEF GateInit, NotDone
<1>4. sent = Unsent /\ resp = NoResponse /\ settled = <<>>
  BY DEF GateInit
<1> QED BY <1>1, <1>2, <1>3, <1>4 DEF TypesInv, RangeInv, GoneInv, SentInv, Bodies

(* The variables of a request keep their types from its arrival to its     *)
(* answer; the body is gone exactly where requestCanon remembers that      *)
(* reading it failed, whichever rules have looked at it.                   *)
THEOREM GateTypeCorrect == GateSpec => []GateTypeOK
<1>1. Answering /\ TypesInv /\ [GateNext]_gatevars /\ Answering' => TypesInv'
  <2> SUFFICES ASSUME Answering, TypesInv, [GateNext]_gatevars, Answering' PROVE TypesInv'
    OBVIOUS
  <2>1. CASE GateNext
    BY <2>1, RangeStep, GoneStep, SentStep DEF Answering, TypesInv
  <2>2. CASE UNCHANGED gatevars
    BY <2>2 DEF gatevars, TypesInv, RangeInv, GoneInv, SentInv
  <2> QED BY <2>1, <2>2
<1>2. Answering /\ TypesInv => GateTypeOK
  <2> SUFFICES ASSUME Answering, TypesInv PROVE GateTypeOK
    OBVIOUS
  <2>1. \A d \in DOMAIN canon : canon[d].done \in BOOLEAN /\ canon[d].ok \in BOOLEAN
    <3> SUFFICES ASSUME NEW c \in {NotDone, BodyCanon, FormCanon, JSONCanon, HeadersCanon}
                 PROVE  c.done \in BOOLEAN /\ c.ok \in BOOLEAN
      BY DEF Answering, Shape, CanonOK
    <3>1. \A x : Done(TRUE, x).done = TRUE /\ Done(TRUE, x).ok = TRUE
      BY DEF Done
    <3>2. Done(FALSE, "").done = TRUE /\ Done(FALSE, "").ok = FALSE
      BY DEF Done
    <3>3. NotDone.done = FALSE /\ NotDone.ok = TRUE
      BY DEF NotDone
    <3>4. c \in {NotDone, Done(FALSE, "")} \/ \E x : c = Done(TRUE, x)
      BY DEF BodyCanon, FormCanon, JSONCanon, HeadersCanon
    <3> QED BY <3>1, <3>2, <3>3, <3>4
  <2>2. body = "none" <=> canon.body.done /\ ~canon.body.ok
    <3>1. canon.body \in {NotDone, BodyCanon}
      BY DEF Answering, Shape, CanonOK
    <3>2. ~NotDone.done /\ (BodyCanon.ok <=> ~in.breaks)
      BY CanonFacts DEF Answering
    <3> QED BY <3>1, <3>2 DEF TypesInv, GoneInv
  <2>3. \A i \in DOMAIN settled : settled[i] \in [op : {"confirm", "rollback"}, ok : BOOLEAN]
    <3>1. settled \in Seq(Settlements) /\ DOMAIN settled = 1..Len(settled)
      BY DEF TypesInv, SentInv
    <3> QED BY <3>1, ElementOfSeq DEF Settlements
  <2>4. heads \in Nat
    BY DEF Answering, AnswerInv
  <2> QED BY <2>1, <2>2, <2>3, <2>4
          DEF Answering, Shape, TypesInv, RangeInv, GoneInv, SentInv, Bodies, GateTypeOK
<1> QED BY <1>1, <1>2, TypesInit, Answers, PTL DEF GateSpec

-------------------------------------------------------------------------------
(* Streamed answers.                                                       *)

Lines == {"field", "comment", "blank"}
Streams == [got : Seq(Lines), frame : Seq(Lines), taken : Seq(Lines), out : Seq(Lines),
            event : BOOLEAN, eof : BOOLEAN, confirmed : BOOLEAN, failed : BOOLEAN, lost : BOOLEAN]

Streaming == {"line", "frame", "flush", "confirm", "ended"}
Event(s) == \E i \in DOMAIN s : s[i] = "field"
Whole(s) == s = <<>> \/ s[Len(s)] = "blank"

(* No line is dropped or reordered on its way to Write: what was read is   *)
(* what Write has taken and what waits in the frame.                       *)
StreamInv ==
    /\ stream \in Streams
    /\ pc \notin Streaming \cup {Final} => stream = NoStream
    /\ stream.got = IF pc \in {"flush", "confirm"} THEN stream.taken
                    ELSE stream.taken \o stream.frame
    /\ stream.event <=> Event(stream.frame)
    /\ pc = "line" => ~stream.eof
    /\ pc \in {"frame", "flush"} => Whole(stream.frame) \/ stream.eof

(* What Write has taken, and what has been settled. *)
CountInv ==
    /\ pc = "confirm" => Event(stream.taken)
    /\ loc.reserved /\ pc \in {"line", "frame"} => (stream.confirmed <=> Event(stream.taken))
    /\ loc.reserved /\ pc = "flush" =>
          (stream.confirmed \/ stream.event <=> Event(stream.taken))
    /\ loc.reserved /\ pc = "ended" =>
          IF Event(stream.taken) THEN \E ok \in BOOLEAN : settled = Confirmed(ok) ELSE settled = <<>>
    /\ loc.reserved /\ pc = Final /\ stream.got # <<>> =>
          /\ (\E i \in DOMAIN settled : settled[i].op = "confirm") <=> Event(stream.taken)
          /\ Event(stream.taken) => settled[1].op = "confirm"

(* What went out is a prefix of what was read: until the connection is     *)
(* lost, all that Write has taken but a frame not yet flushed; then at     *)
(* most that, or with it the beginning of the frame whose write failed.    *)
Begins(s, t) == Len(s) <= Len(t) /\ \A i \in 1..Len(s) : s[i] = t[i]

OutInv ==
    /\ Begins(stream.out, stream.got)
    /\ pc = "flush" => /\ Len(stream.frame) <= Len(stream.taken)
                       /\ \A i \in 1..Len(stream.frame) :
                             stream.taken[Len(stream.taken) - Len(stream.frame) + i]
                                = stream.frame[i]
    /\ ~stream.lost => Len(stream.out) = IF pc = "flush"
                                         THEN Len(stream.taken) - Len(stream.frame)
                                         ELSE Len(stream.taken)
    /\ \/ Len(stream.out) <= Len(stream.taken)
       \/ /\ pc \in {"ended", Final} /\ stream.lost
          /\ Len(stream.out) < Len(stream.got)
          /\ \A i \in (Len(stream.taken) + 1)..Len(stream.out) : stream.got[i] # "blank"
    /\ stream.lost \/ Whole(stream.out) \/ (stream.eof /\ stream.out = stream.got)

(* A blank line is the last of its frame. *)
FrameInv ==
    /\ pc = "line" => \A i \in 1..Len(stream.frame) : stream.frame[i] # "blank"
    /\ pc \in {"line", "frame"} =>
          \A i \in 1..(Len(stream.frame) - 1) : stream.frame[i] # "blank"

-------------------------------------------------------------------------------
(* Sequences of lines. *)

LEMMA Appended ==
    ASSUME NEW s \in Seq(Lines), NEW line \in Lines
    PROVE  /\ Append(s, line) \in Seq(Lines)
           /\ Append(s, line) # <<>>
           /\ Event(Append(s, line)) <=> Event(s) \/ line = "field"
           /\ line = "blank" => Whole(Append(s, line))
<1> DEFINE t == Append(s, line)
           n == Len(s)
<1>1. /\ t \in Seq(Lines) /\ n \in Nat /\ Len(t) = n + 1
      /\ t[n + 1] = line /\ \A i \in 1..n : t[i] = s[i]
  BY AppendProperties
<1>2. DOMAIN s = 1..n /\ DOMAIN t = 1..(n + 1)
  BY <1>1
<1> HIDE DEF t, n
<1>3. t # <<>>
  BY <1>1
<1>4. 1..(n + 1) = 1..n \cup {n + 1}
  BY <1>1
<1>5. Event(t) <=> Event(s) \/ line = "field"
  BY <1>1, <1>2, <1>4 DEF Event
<1>6. line = "blank" => Whole(t)
  BY <1>1 DEF Whole
<1> QED BY <1>1, <1>3, <1>5, <1>6 DEF t

LEMMA Joined ==
    ASSUME NEW s \in Seq(Lines), NEW t \in Seq(Lines)
    PROVE  /\ s \o t \in Seq(Lines)
           /\ Event(s \o t) <=> Event(s) \/ Event(t)
           /\ t # <<>> /\ Whole(t) => Whole(s \o t)
<1> DEFINE u == s \o t
           n == Len(s)
           m == Len(t)
<1>1. /\ u \in Seq(Lines) /\ n \in Nat /\ m \in Nat /\ Len(u) = n + m
      /\ DOMAIN s = 1..n /\ DOMAIN t = 1..m /\ DOMAIN u = 1..(n + m)
      /\ \A i \in 1..(n + m) : u[i] = IF i <= n THEN s[i] ELSE t[i - n]
  BY ConcatProperties
<1>2. t # <<>> => m >= 1
  BY <1>1
<1> HIDE DEF u, n, m
<1>3. \A i \in 1..n : u[i] = s[i]
  BY <1>1
<1>4. \A i \in 1..m : n + i \in 1..(n + m) /\ u[n + i] = t[i]
  BY <1>1
<1>5. Event(u) => Event(s) \/ Event(t)
  <2> SUFFICES ASSUME NEW i \in 1..(n + m), u[i] = "field" PROVE Event(s) \/ Event(t)
    BY <1>1 DEF Event
  <2>1. CASE i <= n
    <3>1. i \in 1..n /\ s[i] = "field"
      BY <1>1, <2>1
    <3> QED BY <1>1, <3>1 DEF Event
  <2>2. CASE ~(i <= n)
    <3>1. i - n \in 1..m /\ t[i - n] = "field"
      BY <1>1, <2>2
    <3> QED BY <1>1, <3>1 DEF Event
  <2> QED BY <2>1, <2>2
<1>6. Event(s) => Event(u)
  <2>1. 1..n \subseteq 1..(n + m)
    BY <1>1
  <2> QED BY <1>1, <1>3, <2>1 DEF Event
<1>7. Event(t) => Event(u)
  BY <1>1, <1>4 DEF Event
<1>8. t # <<>> /\ Whole(t) => Whole(u)
  <2> SUFFICES ASSUME t # <<>>, t[m] = "blank" PROVE Whole(u)
    BY DEF Whole, m
  <2>1. m \in 1..m
    BY <1>1, <1>2
  <2> QED BY <1>1, <1>4, <2>1 DEF Whole
<1> QED BY <1>1, <1>5, <1>6, <1>7, <1>8 DEF u

LEMMA AppendToFrame ==
    ASSUME NEW s \in Seq(Lines), NEW t \in Seq(Lines), NEW line \in Lines
    PROVE  Append(s \o t, line) = s \o Append(t, line)
<1>1. <<line>> \in Seq(Lines)
  OBVIOUS
<1>2. s \o t \in Seq(Lines)
  BY ConcatProperties
<1>3. Append(s \o t, line) = (s \o t) \o <<line>>
  BY <1>1, <1>2, AppendIsConcat
<1>4. Append(t, line) = t \o <<line>>
  BY <1>1, AppendIsConcat
<1> QED BY <1>1, <1>3, <1>4, ConcatAssociative

LEMMA Extended ==
    ASSUME NEW s \in Seq(Lines), NEW f \in Seq(Lines), NEW k \in 0..Len(f)
    PROVE  LET p == s \o SubSeq(f, 1, k)
           IN  /\ p \in Seq(Lines) /\ Len(p) = Len(s) + k
               /\ \A i \in 1..Len(s) : p[i] = s[i]
               /\ \A i \in 1..k : p[Len(s) + i] = f[i]
<1> DEFINE t == SubSeq(f, 1, k)
           p == s \o t
           n == Len(s)
<1>1. n \in Nat /\ Len(f) \in Nat /\ k \in Nat /\ k <= Len(f)
  OBVIOUS
<1>2. t \in Seq(Lines) /\ Len(t) = k /\ \A i \in 1..k : t[i] = f[i]
  <2>1. CASE k = 0
    <3>1. t = <<>>
      BY <2>1
    <3> QED BY <2>1, <3>1
  <2>2. CASE k # 0
    <3>1. /\ 1 \in 1..(Len(f) + 1) /\ k \in 0..Len(f)
      BY <1>1
    <3> QED BY <1>1, <2>2
  <2> QED BY <2>1, <2>2
<1> HIDE DEF t
<1>3. /\ p \in Seq(Lines) /\ Len(p) = n + k
      /\ \A i \in 1..(n + k) : p[i] = IF i <= n THEN s[i] ELSE t[i - n]
  BY <1>2, ConcatProperties
<1> HIDE DEF p, n
<1>4. \A i \in 1..n : p[i] = s[i]
  BY <1>1, <1>3
<1>5. \A i \in 1..k : p[n + i] = f[i]
  <2> TAKE i \in 1..k
  <2>1. n + i \in 1..(n + k) /\ ~(n + i <= n) /\ (n + i) - n = i
    BY <1>1
  <2> QED BY <1>2, <1>3, <2>1
<1> QED BY <1>3, <1>4, <1>5 DEF p, n, t

LEMMA Ends ==
    ASSUME NEW s \in Seq(Lines), NEW t \in Seq(Lines)
    PROVE  /\ Len(s) \in Nat /\ Len(t) \in Nat /\ Len(s \o t) = Len(s) + Len(t)
           /\ \A i \in 1..Len(s) : (s \o t)[i] = s[i]
           /\ \A i \in 1..Len(t) : (s \o t)[Len(s) + i] = t[i]
<1> DEFINE u == s \o t
           n == Len(s)
           m == Len(t)
<1>1. /\ n \in Nat /\ m \in Nat /\ Len(u) = n + m
      /\ \A i \in 1..(n + m) : u[i] = IF i <= n THEN s[i] ELSE t[i - n]
  BY ConcatProperties
<1> HIDE DEF u, n, m
<1>2. \A i \in 1..n : u[i] = s[i]
  BY <1>1
<1>3. \A i \in 1..m : u[n + i] = t[i]
  <2> TAKE i \in 1..m
  <2>1. n + i \in 1..(n + m) /\ ~(n + i <= n) /\ (n + i) - n = i
    BY <1>1
  <2> QED BY <1>1, <2>1
<1> QED BY <1>1, <1>2, <1>3 DEF u, n, m

LEMMA AllOf ==
    ASSUME NEW f \in Seq(Lines)
    PROVE  SubSeq(f, 1, Len(f)) = f
BY SubSeqFull

LEMMA SameBegin ==
    ASSUME NEW s \in Seq(Lines), NEW t \in Seq(Lines), Begins(s, t)
    PROVE  /\ s = SubSeq(t, 1, Len(s))
           /\ Len(s) = Len(t) => s = t
<1>1. Len(s) \in Nat /\ Len(t) \in Nat /\ Len(s) <= Len(t)
  BY DEF Begins
<1>2. Len(s) = Len(t) => s = t
  BY <1>1, SeqEqual DEF Begins
<1> DEFINE u == SubSeq(t, 1, Len(s))
<1>3. u \in Seq(Lines) /\ Len(u) = Len(s) /\ \A i \in 1..Len(s) : u[i] = t[i]
  <2>1. <<>> \in Seq(Lines) /\ Len(<<>>) = 0
    OBVIOUS
  <2>2. <<>> \o u = u
    <3>1. u \in Seq(Lines)
      BY <1>1
    <3> QED BY <3>1, ConcatEmptySeq
  <2> QED BY <1>1, <2>1, <2>2, Extended
<1> HIDE DEF u
<1>4. s = u
  BY <1>1, <1>3, SeqEqual DEF Begins
<1> QED BY <1>2, <1>4 DEF u

-------------------------------------------------------------------------------
(* The steps: what Write takes, and the settlement. *)

LEMMA StreamInit == GateInit => StreamInv /\ CountInv /\ OutInv /\ FrameInv
<1> SUFFICES ASSUME GateInit PROVE StreamInv /\ CountInv /\ OutInv /\ FrameInv
  OBVIOUS
<1>1. pc = "start" /\ stream = NoStream
  BY DEF GateInit
<1>2. <<>> \in Seq(Lines) /\ <<>> = <<>> \o <<>> /\ ~Event(<<>>) /\ Len(<<>>) = 0
  BY ConcatEmptySeq DEF Event
<1>3. /\ stream \in Streams /\ stream.got = <<>> /\ stream.frame = <<>> /\ stream.out = <<>>
      /\ stream.taken = <<>> /\ stream.event = FALSE
  BY <1>1, <1>2 DEF NoStream, Streams
<1>4. StreamInv /\ CountInv
  BY <1>1, <1>2, <1>3 DEF StreamInv, CountInv, Streaming, Whole, Final
<1>5. OutInv /\ FrameInv
  BY <1>1, <1>2, <1>3 DEF OutInv, FrameInv, Begins, Whole
<1> QED BY <1>4, <1>5

LEMMA BeforeStream ==
    ASSUME StreamInv, pc \notin Streaming \cup {Final}, UNCHANGED stream,
           pc' \notin {"frame", "flush", "confirm", "ended"}
    PROVE  StreamInv' /\ CountInv' /\ OutInv' /\ FrameInv'
<1>1. stream = NoStream /\ stream \in Streams
  BY DEF StreamInv
<1>2. /\ stream.got = <<>> /\ stream.out = <<>> /\ stream.taken = <<>> /\ stream.frame = <<>>
      /\ ~stream.eof /\ ~stream.confirmed
  BY <1>1 DEF NoStream
<1>3. ~Event(<<>>) /\ Len(<<>>) = 0
  BY DEF Event
<1>4. StreamInv' /\ CountInv'
  BY <1>1, <1>2, <1>3 DEF StreamInv, CountInv, Streaming, Event, Whole, Final
<1>5. OutInv' /\ FrameInv'
  BY <1>2, <1>3 DEF OutInv, FrameInv, Begins, Whole
<1> QED BY <1>4, <1>5

LEMMA Gathers ==
    ASSUME StreamInv, pc = "line", NEW line \in Lines
    PROVE  LET s == Gather(line)
           IN  /\ s \in Streams /\ s.out = stream.out /\ s.taken = stream.taken
               /\ s.got = s.taken \o s.frame
               /\ s.event <=> Event(s.frame)
               /\ line = "blank" => Whole(s.frame)
               /\ s.eof = stream.eof /\ s.confirmed = stream.confirmed /\ s.lost = stream.lost
               /\ s.got = Append(stream.got, line) /\ s.frame = Append(stream.frame, line)
<1> DEFINE got == Append(stream.got, line)
           frame == Append(stream.frame, line)
           event == Gathered(line)
           s == Gather(line)
<1>1. /\ stream.frame \in Seq(Lines) /\ stream.taken \in Seq(Lines) /\ stream.got \in Seq(Lines)
      /\ stream.event \in BOOLEAN /\ stream.got = stream.taken \o stream.frame
      /\ stream.event <=> Event(stream.frame)
  BY DEF StreamInv, Streams
<1>2. /\ frame \in Seq(Lines) /\ (Event(frame) <=> event) /\ (line = "blank" => Whole(frame))
  BY <1>1, Appended DEF Gathered
<1>3. got \in Seq(Lines) /\ got = stream.taken \o frame
  <2>1. got \in Seq(Lines)
    BY <1>1, Appended
  <2>2. Append(stream.taken \o stream.frame, line) = stream.taken \o frame
    BY <1>1, AppendToFrame
  <2>3. got = Append(stream.taken \o stream.frame, line)
    BY <1>1
  <2> QED BY <2>1, <2>2, <2>3
<1>4. event \in BOOLEAN
  BY <1>1 DEF Gathered
<1>5. s = [stream EXCEPT !.got = got, !.frame = frame, !.event = event]
  BY DEF Gather
<1> HIDE DEF got, frame, event, s
<1>6. /\ s \in Streams /\ s.out = stream.out /\ s.taken = stream.taken
      /\ s.got = got /\ s.frame = frame /\ s.event = event
      /\ s.eof = stream.eof /\ s.confirmed = stream.confirmed /\ s.lost = stream.lost
  BY <1>2, <1>3, <1>4, <1>5 DEF StreamInv, Streams
<1> QED BY <1>2, <1>3, <1>6 DEF s, got, frame

(* A line more leaves what went out a beginning of what was read. *)
LEMMA GathersOut ==
    ASSUME StreamInv, OutInv, FrameInv, pc = "line", NEW line \in Lines,
           NEW s, s.got = Append(stream.got, line), s.frame = Append(stream.frame, line)
    PROVE  /\ Begins(stream.out, s.got)
           /\ \A i \in 1..(Len(s.frame) - 1) : s.frame[i] # "blank"
           /\ line # "blank" => \A i \in 1..Len(s.frame) : s.frame[i] # "blank"
<1> DEFINE f == stream.frame
           g == stream.got
           o == stream.out
<1>1. f \in Seq(Lines) /\ g \in Seq(Lines) /\ o \in Seq(Lines)
  BY DEF StreamInv, Streams
<1>2. Begins(o, g) /\ \A i \in 1..Len(f) : f[i] # "blank"
  BY DEF OutInv, FrameInv
<1> HIDE DEF f, g, o
<1>3. Len(f) \in Nat /\ Len(g) \in Nat /\ Len(o) \in Nat
  BY <1>1
<1>4. /\ Len(Append(g, line)) = Len(g) + 1
      /\ \A i \in 1..Len(g) : Append(g, line)[i] = g[i]
  BY <1>1, AppendProperties
<1>5. Begins(o, Append(g, line))
  BY <1>2, <1>3, <1>4 DEF Begins
<1>6. /\ Len(Append(f, line)) = Len(f) + 1 /\ Append(f, line)[Len(f) + 1] = line
      /\ \A i \in 1..Len(f) : Append(f, line)[i] = f[i]
  BY <1>1, AppendProperties
<1>7. \A i \in 1..(Len(Append(f, line)) - 1) : Append(f, line)[i] # "blank"
  BY <1>2, <1>3, <1>6
<1>8. line # "blank" => \A i \in 1..Len(Append(f, line)) : Append(f, line)[i] # "blank"
  BY <1>2, <1>3, <1>6
<1> QED BY <1>5, <1>7, <1>8 DEF f, g, o

LEMMA ReadLineStreams ==
    ASSUME StreamInv, CountInv, OutInv, FrameInv, ReadLine
    PROVE  StreamInv' /\ CountInv' /\ OutInv' /\ FrameInv'
<1>1. PICK line \in Lines : /\ pc = "line" /\ stream' = Gather(line)
                            /\ pc' = IF line = "blank" THEN "frame" ELSE "line"
                            /\ loc' = loc /\ settled' = settled
  BY DEF ReadLine, From, To, Lines
<1>2. /\ stream' \in Streams /\ stream'.out = stream.out /\ stream'.taken = stream.taken
      /\ stream'.got = stream'.taken \o stream'.frame
      /\ stream'.event <=> Event(stream'.frame)
      /\ line = "blank" => Whole(stream'.frame)
      /\ stream'.eof = stream.eof /\ stream'.confirmed = stream.confirmed
      /\ stream'.lost = stream.lost
      /\ stream'.got = Append(stream.got, line) /\ stream'.frame = Append(stream.frame, line)
  BY <1>1, Gathers
<1>3. ~stream.eof
  BY <1>1 DEF StreamInv
<1>4. StreamInv'
  BY <1>1, <1>2, <1>3 DEF StreamInv, Streaming, Event, Whole, Final
<1>5. CountInv'
  BY <1>1, <1>2 DEF CountInv, Event, Final
<1>6. /\ Begins(stream'.out, stream'.got)
      /\ \A i \in 1..(Len(stream'.frame) - 1) : stream'.frame[i] # "blank"
      /\ line # "blank" => \A i \in 1..Len(stream'.frame) : stream'.frame[i] # "blank"
  BY <1>1, <1>2, GathersOut
<1>7. OutInv'
  BY <1>1, <1>2, <1>3, <1>6 DEF OutInv, Final, Whole
<1>8. FrameInv'
  BY <1>1, <1>6 DEF FrameInv
<1> QED BY <1>4, <1>5, <1>7, <1>8

LEMMA StreamEndsStreams ==
    ASSUME StreamInv, CountInv, OutInv, FrameInv, StreamEnds
    PROVE  StreamInv' /\ CountInv' /\ OutInv' /\ FrameInv'
<1>1. pc = "line" /\ pc' = "frame" /\ loc' = loc /\ settled' = settled
  BY DEF StreamEnds, From, To
<1>2. PICK s \in Streams :
        /\ stream' = [s EXCEPT !.eof = TRUE]
        /\ s.out = stream.out /\ s.taken = stream.taken /\ s.got = s.taken \o s.frame
        /\ s.event <=> Event(s.frame)
        /\ s.confirmed = stream.confirmed /\ s.lost = stream.lost
        /\ Begins(stream.out, s.got)
        /\ \A i \in 1..(Len(s.frame) - 1) : s.frame[i] # "blank"
  <2>1. CASE stream' = [stream EXCEPT !.eof = TRUE]
    BY <1>1, <2>1 DEF StreamInv, OutInv, FrameInv
  <2>2. CASE \E line \in {"field", "comment"} : stream' = [Gather(line) EXCEPT !.eof = TRUE]
    <3>1. PICK line \in Lines : stream' = [Gather(line) EXCEPT !.eof = TRUE]
      BY <2>2 DEF Lines
    <3>2. /\ Begins(stream.out, Gather(line).got)
          /\ \A i \in 1..(Len(Gather(line).frame) - 1) : Gather(line).frame[i] # "blank"
      BY <1>1, Gathers, GathersOut
    <3> QED BY <1>1, <3>1, <3>2, Gathers
  <2> QED BY <2>1, <2>2 DEF StreamEnds
<1>3. /\ stream' \in Streams /\ stream'.out = s.out /\ stream'.got = s.got
      /\ stream'.frame = s.frame /\ stream'.event = s.event /\ stream'.eof
      /\ stream'.confirmed = s.confirmed /\ stream'.taken = s.taken /\ stream'.lost = s.lost
  BY <1>2 DEF Streams
<1>4. StreamInv'
  BY <1>1, <1>2, <1>3 DEF StreamInv, Streaming, Event, Whole, Final
<1>5. CountInv'
  BY <1>1, <1>2, <1>3 DEF CountInv, Event, Final
<1>6. ~stream.eof
  BY <1>1 DEF StreamInv
<1>7. OutInv'
  BY <1>1, <1>2, <1>3, <1>6 DEF OutInv, Final, Whole
<1>8. FrameInv'
  BY <1>1, <1>2, <1>3 DEF FrameInv
<1> QED BY <1>4, <1>5, <1>7, <1>8

(* A stream is left without Write taking anything more. *)
LEMMA Leaves ==
    ASSUME StreamInv, CountInv, AnswerInv, pc \in {"line", "frame"}, pc' = "ended",
           UNCHANGED <<loc, settled>>, NEW out \in Seq(Lines), NEW lost \in BOOLEAN,
           stream' = [stream EXCEPT !.out = out, !.lost = lost, !.failed = TRUE]
    PROVE  StreamInv' /\ CountInv' /\ FrameInv'
<1>1. /\ stream' \in Streams /\ stream'.taken = stream.taken /\ stream'.got = stream.got
      /\ stream'.frame = stream.frame /\ stream'.event = stream.event
      /\ stream'.eof = stream.eof /\ stream'.confirmed = stream.confirmed
  BY DEF StreamInv, Streams
<1>2. StreamInv'
  BY <1>1 DEF StreamInv, Streaming, Event, Whole, Final
<1>3. loc.reserved =>
        IF Event(stream.taken) THEN \E ok \in BOOLEAN : settled = Confirmed(ok) ELSE settled = <<>>
  BY DEF AnswerInv, CountInv
<1>4. CountInv'
  BY <1>1, <1>3 DEF CountInv, Confirmed, Event, Final
<1> QED BY <1>2, <1>4 DEF FrameInv

LEMMA BreaksStreams ==
    ASSUME StreamInv, CountInv, OutInv, AnswerInv, StreamBreaks
    PROVE  StreamInv' /\ CountInv' /\ OutInv' /\ FrameInv'
<1>1. /\ pc = "line" /\ pc' = "ended" /\ UNCHANGED <<loc, settled>>
      /\ stream' = [stream EXCEPT !.failed = TRUE]
  BY DEF StreamBreaks, From, To, AfterBreak
<1>2. stream.out \in Seq(Lines) /\ stream.lost \in BOOLEAN
  BY DEF StreamInv, Streams
<1>3. stream' = [stream EXCEPT !.out = stream.out, !.lost = stream.lost, !.failed = TRUE]
  BY <1>1 DEF StreamInv, Streams
<1>4. StreamInv' /\ CountInv' /\ FrameInv'
  BY <1>1, <1>2, <1>3, Leaves
<1>5. /\ stream'.out = stream.out /\ stream'.got = stream.got /\ stream'.taken = stream.taken
      /\ stream'.lost = stream.lost /\ stream'.eof = stream.eof
  BY <1>1 DEF StreamInv, Streams
<1>6. OutInv'
  BY <1>1, <1>5 DEF OutInv, Final, Whole
<1> QED BY <1>4, <1>6

(* Write takes a frame; nothing of it need have gone out yet. *)
LEMMA TakesFrame ==
    ASSUME StreamInv, CountInv, OutInv, AnswerInv, pc = "frame", pc' = "flush",
           stream.frame # <<>>, UNCHANGED <<loc, settled>>,
           stream' = [stream EXCEPT !.taken = @ \o stream.frame]
    PROVE  StreamInv' /\ CountInv' /\ OutInv' /\ FrameInv'
<1> DEFINE t == stream.taken
           f == stream.frame
           u == t \o f
<1>1. /\ t \in Seq(Lines) /\ f \in Seq(Lines) /\ stream.out \in Seq(Lines) /\ stream.got = u
      /\ stream.event <=> Event(f)
      /\ Whole(f) \/ stream.eof
  BY DEF StreamInv, Streams
<1>2. /\ u \in Seq(Lines) /\ (Event(u) <=> Event(t) \/ Event(f))
  BY <1>1, Joined
<1>3. /\ Len(u) = Len(t) + Len(f) /\ Len(t) \in Nat /\ Len(f) \in Nat
      /\ \A i \in 1..Len(f) : u[Len(t) + i] = f[i]
  BY <1>1, Ends
<1>4. stream' = [stream EXCEPT !.taken = u]
  OBVIOUS
<1>5. /\ stream.confirmed => loc.reserved /\ settled = Confirmed(TRUE)
      /\ ~stream.confirmed => settled = <<>>
  BY DEF AnswerInv
<1> HIDE DEF u
<1>6. /\ stream' \in Streams /\ stream'.taken = u /\ stream'.got = u /\ stream'.frame = f
      /\ stream'.out = stream.out /\ stream'.lost = stream.lost /\ stream'.event = stream.event
      /\ stream'.eof = stream.eof /\ stream'.confirmed = stream.confirmed
  BY <1>1, <1>2, <1>4 DEF StreamInv, Streams
<1>7. StreamInv'
  BY <1>1, <1>6 DEF StreamInv, Streaming, Event, Whole, Final
<1>8. CountInv'
  BY <1>1, <1>2, <1>6 DEF CountInv, Event, Final
<1>9. OutInv'
  <2>1. Begins(stream.out, u) /\ (stream.lost \/ Whole(stream.out) \/ (stream.eof /\ stream.out = u))
    BY <1>1 DEF OutInv
  <2>2. /\ ~stream.lost => Len(stream.out) = Len(t)
        /\ Len(stream.out) <= Len(t)
    BY DEF OutInv, Final
  <2>3. Len(stream.out) \in Nat
    BY <1>1
  <2> HIDE DEF t, f
  <2>4. Len(u) - Len(f) = Len(t) /\ Len(f) <= Len(u)
    BY <1>3
  <2>5. Len(stream.out) <= Len(u)
    BY <1>3, <2>2, <2>3
  <2>6. \A i \in 1..Len(f) : u[Len(u) - Len(f) + i] = f[i]
    BY <1>3, <2>4
  <2> QED BY <1>6, <2>1, <2>2, <2>4, <2>5, <2>6 DEF OutInv, Whole
<1> QED BY <1>7, <1>8, <1>9 DEF FrameInv

(* What goes out of a frame. *)
LEMMA GoesOut ==
    ASSUME stream \in Streams, NEW part \in Fragments \cup {stream.frame}
    PROVE  \E k \in 0..Len(stream.frame) :
              /\ part = SubSeq(stream.frame, 1, k)
              /\ part # stream.frame => k < Len(stream.frame)
              /\ part # stream.frame /\ stream.lost => k = 0
<1>1. stream.frame \in Seq(Lines) /\ Len(stream.frame) \in Nat
  BY DEF Streams
<1>2. CASE part = stream.frame
  <2>1. Len(stream.frame) \in 0..Len(stream.frame)
    BY <1>1
  <2>2. part = SubSeq(stream.frame, 1, Len(stream.frame))
    BY <1>1, <1>2, AllOf
  <2> QED BY <1>2, <2>1, <2>2
<1>3. CASE part # stream.frame
  <2>1. PICK k \in IF stream.lost THEN {0} ELSE 0..(Len(stream.frame) - 1) :
          part = SubSeq(stream.frame, 1, k)
    BY <1>3 DEF Fragments
  <2>2. CASE stream.lost
    <3>1. k = 0 /\ k \in 0..Len(stream.frame)
      BY <1>1, <2>1, <2>2
    <3>2. k < Len(stream.frame)
      <4>1. Len(stream.frame) # 0
        <5> SUFFICES ASSUME Len(stream.frame) = 0 PROVE FALSE
          OBVIOUS
        <5>1. part = SubSeq(stream.frame, 1, Len(stream.frame))
          BY <2>1, <3>1
        <5> QED BY <1>1, <1>3, <5>1, AllOf
      <4> QED BY <1>1, <3>1, <4>1
    <3> QED BY <2>1, <3>1, <3>2
  <2>3. CASE ~stream.lost
    <3>1. k \in 0..Len(stream.frame) /\ k < Len(stream.frame)
      BY <1>1, <2>1, <2>3
    <3> QED BY <2>1, <2>3, <3>1
  <2> QED BY <2>2, <2>3
<1> QED BY <1>2, <1>3

(* A Write fails, and a part of its frame may have gone out. *)
LEMMA FailsFrame ==
    ASSUME StreamInv, OutInv, FrameInv, pc = "frame", pc' = "ended", stream.frame # <<>>,
           NEW part \in Fragments,
           stream' = [stream EXCEPT !.out = @ \o part, !.lost = TRUE, !.failed = TRUE]
    PROVE  OutInv' /\ stream.out \o part \in Seq(Lines)
<1> DEFINE t == stream.taken
           f == stream.frame
           g == stream.got
           o == stream.out
           p == o \o part
<1>1. /\ t \in Seq(Lines) /\ f \in Seq(Lines) /\ o \in Seq(Lines) /\ g = t \o f
      /\ stream \in Streams /\ g \in Seq(Lines)
  BY DEF StreamInv, Streams
<1>2. /\ Begins(o, g) /\ Len(o) <= Len(t) /\ (~stream.lost => Len(o) = Len(t))
      /\ \A i \in 1..(Len(f) - 1) : f[i] # "blank"
  BY DEF OutInv, FrameInv, Final
<1>3. PICK k \in 0..Len(f) : /\ part = SubSeq(f, 1, k)
                             /\ part # f => k < Len(f)
                             /\ part # f /\ stream.lost => k = 0
  BY <1>1, GoesOut
<1>4. k < Len(f) /\ (stream.lost => k = 0)
  <2>1. part # f
    <3> SUFFICES ASSUME part = f PROVE FALSE
      OBVIOUS
    <3>1. PICK n \in IF stream.lost THEN {0} ELSE 0..(Len(f) - 1) : part = SubSeq(f, 1, n)
      BY DEF Fragments
    <3>2. Len(f) \in Nat /\ Len(f) # 0
      BY <1>1
    <3>3. n \in 0..Len(f) /\ n < Len(f)
      BY <3>1, <3>2
    <3>4. <<>> \in Seq(Lines) /\ Len(<<>>) = 0
      OBVIOUS
    <3>5. Len(<<>> \o SubSeq(f, 1, n)) = n
      BY <1>1, <3>3, <3>4, Extended
    <3>6. <<>> \o f = f
      BY <1>1, ConcatEmptySeq
    <3> QED BY <3>1, <3>3, <3>5, <3>6
  <2> QED BY <1>3, <2>1
<1>5. /\ p \in Seq(Lines) /\ Len(p) = Len(o) + k
      /\ \A i \in 1..Len(o) : p[i] = o[i]
      /\ \A i \in 1..k : p[Len(o) + i] = f[i]
  BY <1>1, <1>3, Extended
<1>6. Len(o) \in Nat /\ Len(t) \in Nat /\ Len(f) \in Nat /\ k \in Nat
  BY <1>1
<1>7. stream' = [stream EXCEPT !.out = p, !.lost = TRUE, !.failed = TRUE]
  OBVIOUS
<1> HIDE DEF t, f, g, o, p
<1>8. Len(g) = Len(t) + Len(f) /\ \A i \in 1..Len(f) : g[Len(t) + i] = f[i]
  BY <1>1, Ends
<1>9. /\ stream'.out = p /\ stream'.lost /\ stream'.got = g /\ stream'.taken = t
  BY <1>1, <1>7 DEF Streams, t, g
<1>10. Begins(p, g)
  <2>1. Len(p) <= Len(g)
    BY <1>2, <1>4, <1>5, <1>6, <1>8
  <2>2. \A i \in 1..Len(p) : p[i] = g[i]
    <3> TAKE i \in 1..Len(p)
    <3>1. CASE i <= Len(o)
      BY <1>2, <1>5, <1>6, <3>1 DEF Begins
    <3>2. CASE ~(i <= Len(o))
      <4>1. i - Len(o) \in 1..k /\ Len(o) + (i - Len(o)) = i
        BY <1>5, <1>6, <3>2
      <4>2. Len(o) = Len(t)
        BY <1>2, <1>4, <1>6, <4>1
      <4>3. p[i] = f[i - Len(o)]
        BY <1>5, <4>1
      <4>4. i - Len(o) \in 1..Len(f)
        BY <1>4, <1>6, <4>1
      <4>5. g[i] = f[i - Len(o)]
        BY <1>8, <4>1, <4>2, <4>4
      <4> QED BY <4>3, <4>5
    <3> QED BY <3>1, <3>2
  <2> QED BY <2>1, <2>2 DEF Begins
<1>11. \/ Len(p) <= Len(t)
       \/ Len(p) < Len(g) /\ \A i \in (Len(t) + 1)..Len(p) : g[i] # "blank"
  <2>1. CASE k = 0
    BY <1>2, <1>5, <1>6, <2>1
  <2>2. CASE k # 0
    <3>1. Len(o) = Len(t)
      BY <1>2, <1>4, <2>2
    <3>2. Len(p) < Len(g)
      BY <1>4, <1>5, <1>6, <1>8, <3>1
    <3>3. \A i \in (Len(t) + 1)..Len(p) : g[i] # "blank"
      <4> TAKE i \in (Len(t) + 1)..Len(p)
      <4>1. i - Len(t) \in 1..(Len(f) - 1) /\ i - Len(t) \in 1..Len(f) /\ Len(t) + (i - Len(t)) = i
        BY <1>4, <1>5, <1>6, <3>1
      <4> QED BY <1>2, <1>8, <4>1
    <3> QED BY <3>2, <3>3
  <2> QED BY <2>1, <2>2
<1>12. OutInv'
  BY <1>9, <1>10, <1>11 DEF OutInv
<1> QED BY <1>5, <1>12 DEF p, o

LEMMA WriteStreams ==
    ASSUME StreamInv, CountInv, OutInv, FrameInv, AnswerInv, WriteFrame
    PROVE  StreamInv' /\ CountInv' /\ OutInv' /\ FrameInv'
<1>1. pc = "frame" /\ UNCHANGED <<loc, settled>>
  BY DEF WriteFrame, From
<1>2. CASE stream.frame = <<>> /\ pc' = NextFrame /\ stream' = stream
  <2>1. stream.taken \in Seq(Lines) /\ stream.got = stream.taken /\ stream.eof \in BOOLEAN
    <3>1. stream.taken \in Seq(Lines) /\ stream.eof \in BOOLEAN
      BY DEF StreamInv, Streams
    <3> QED BY <1>1, <1>2, <3>1, ConcatEmptySeq DEF StreamInv
  <2>2. pc' \in {"line", "ended"} /\ (pc' = "line" => ~stream.eof)
    BY <1>2 DEF NextFrame
  <2>3. StreamInv'
    BY <1>1, <1>2, <2>1, <2>2 DEF StreamInv, Streaming, Event, Whole, Final
  <2>4. /\ stream.confirmed => settled = Confirmed(TRUE)
        /\ ~stream.confirmed => settled = <<>>
    BY <1>1 DEF AnswerInv
  <2>5. CountInv'
    BY <1>1, <1>2, <2>2, <2>4 DEF CountInv, Confirmed, Event, Final
  <2>6. OutInv' /\ FrameInv'
    <3>1. Len(stream.frame) = 0
      BY <1>2
    <3>2. OutInv'
      BY <1>1, <1>2, <2>2 DEF OutInv, Final, Whole
    <3>3. FrameInv'
      BY <1>2, <3>1 DEF FrameInv
    <3> QED BY <3>2, <3>3
  <2> QED BY <2>3, <2>5, <2>6
<1>3. CASE stream.frame # <<>> /\ pc' = "ended" /\ \E part \in Fragments :
              stream' = [stream EXCEPT !.out = @ \o part, !.lost = TRUE, !.failed = TRUE]
  <2>1. PICK part \in Fragments :
          stream' = [stream EXCEPT !.out = @ \o part, !.lost = TRUE, !.failed = TRUE]
    BY <1>3
  <2>2. OutInv' /\ stream.out \o part \in Seq(Lines)
    BY <1>1, <1>3, <2>1, FailsFrame
  <2>3. StreamInv' /\ CountInv' /\ FrameInv'
    BY <1>1, <1>3, <2>1, <2>2, Leaves
  <2> QED BY <2>2, <2>3
<1>4. CASE /\ stream.frame # <<>> /\ pc' = "flush"
           /\ stream' = [stream EXCEPT !.taken = @ \o stream.frame]
  BY <1>1, <1>4, TakesFrame
<1> QED BY <1>2, <1>3, <1>4 DEF WriteFrame, To

(* What a frame's Flush leaves gone out. *)
LEMMA FlushesOut ==
    ASSUME StreamInv, OutInv, pc = "flush", NEW whole \in BOOLEAN,
           NEW part \in Fragments \cup {stream.frame},
           whole <=> part = stream.frame, whole => ~stream.lost
    PROVE  LET p == stream.out \o part
           IN  /\ p \in Seq(Lines) /\ Begins(p, stream.got) /\ Len(p) <= Len(stream.taken)
               /\ whole => /\ Len(p) = Len(stream.taken)
                           /\ Whole(p) \/ (stream.eof /\ p = stream.got)
<1> DEFINE t == stream.taken
           f == stream.frame
           o == stream.out
           p == o \o part
<1>1. /\ t \in Seq(Lines) /\ f \in Seq(Lines) /\ o \in Seq(Lines) /\ stream.got = t
      /\ stream \in Streams /\ (Whole(f) \/ stream.eof)
  BY DEF StreamInv, Streams
<1>2. /\ Begins(o, t) /\ Len(o) <= Len(t) /\ (~stream.lost => Len(o) = Len(t) - Len(f))
      /\ Len(f) <= Len(t) /\ \A i \in 1..Len(f) : t[Len(t) - Len(f) + i] = f[i]
      /\ stream.lost \/ Whole(o) \/ (stream.eof /\ o = t)
  BY <1>1 DEF OutInv, Final
<1>3. PICK k \in 0..Len(f) : /\ part = SubSeq(f, 1, k)
                             /\ part # f => k < Len(f)
                             /\ part # f /\ stream.lost => k = 0
  BY <1>1, GoesOut
<1>4. /\ p \in Seq(Lines) /\ Len(p) = Len(o) + k
      /\ \A i \in 1..Len(o) : p[i] = o[i]
      /\ \A i \in 1..k : p[Len(o) + i] = f[i]
  BY <1>1, <1>3, Extended
<1>5. Len(o) \in Nat /\ Len(t) \in Nat /\ Len(f) \in Nat /\ k \in Nat /\ k <= Len(f)
  BY <1>1
<1>6. stream.lost => k = 0
  BY <1>3
<1>7. whole => part = f /\ ~stream.lost
  OBVIOUS
<1>8. whole => k = Len(f)
  <2> SUFFICES ASSUME part = f PROVE k = Len(f)
    OBVIOUS
  <2>1. Len(o \o f) = Len(o) + Len(f)
    BY <1>1, Ends
  <2>2. Len(o \o f) = Len(o) + k
    BY <1>4
  <2> HIDE DEF o, f
  <2> QED BY <1>5, <2>1, <2>2
<1>9. whole => Whole(p) \/ (stream.eof /\ Len(p) = Len(t))
  <2> SUFFICES ASSUME whole, Whole(f) PROVE Whole(p) \/ (stream.eof /\ Len(p) = Len(t))
    <3>1. whole => Len(p) = Len(t)
      <4>1. whole => Len(p) = Len(o) + Len(f) /\ Len(o) = Len(t) - Len(f)
        BY <1>2, <1>4, <1>7, <1>8
      <4> HIDE DEF t, f, o, p
      <4> QED BY <1>5, <4>1
    <3> QED BY <1>1, <3>1
  <2>1. CASE f # <<>>
    BY <1>1, <1>7, <2>1, Joined
  <2>2. CASE f = <<>>
    <3>1. p = o
      BY <1>1, <1>7, <2>2, ConcatEmptySeq
    <3> QED BY <1>2, <1>7, <3>1
  <2> QED BY <2>1, <2>2
<1> HIDE DEF t, f, o, p
<1>10. Begins(p, t)
  <2>1. Len(p) <= Len(t)
    BY <1>2, <1>4, <1>5, <1>6
  <2>2. \A i \in 1..Len(p) : p[i] = t[i]
    <3> TAKE i \in 1..Len(p)
    <3>1. CASE i <= Len(o)
      BY <1>2, <1>4, <1>5, <3>1 DEF Begins
    <3>2. CASE ~(i <= Len(o))
      <4>1. i - Len(o) \in 1..k /\ Len(o) + (i - Len(o)) = i
        BY <1>4, <1>5, <3>2
      <4>2. Len(o) = Len(t) - Len(f)
        BY <1>2, <1>5, <1>6, <4>1
      <4>3. p[i] = f[i - Len(o)]
        BY <1>4, <4>1
      <4>4. i - Len(o) \in 1..Len(f)
        BY <1>5, <4>1
      <4>5. t[i] = f[i - Len(o)]
        BY <1>2, <4>1, <4>2, <4>4
      <4> QED BY <4>3, <4>5
    <3> QED BY <3>1, <3>2
  <2> QED BY <2>1, <2>2 DEF Begins
<1>11. whole => Len(p) = Len(t)
  BY <1>2, <1>4, <1>5, <1>7, <1>8
<1>12. Len(p) = Len(t) => p = t
  BY <1>1, <1>4, <1>10, SameBegin
<1>13. Len(p) <= Len(t)
  BY <1>10 DEF Begins
<1> QED BY <1>1, <1>4, <1>9, <1>10, <1>11, <1>12, <1>13 DEF p, t, o

LEMMA FlushStreams ==
    ASSUME StreamInv, CountInv, OutInv, AnswerInv, Flush
    PROVE  StreamInv' /\ CountInv' /\ OutInv' /\ FrameInv'
<1>1. /\ pc = "flush" /\ UNCHANGED <<loc, settled>>
      /\ pc' = IF ConfirmsNow THEN "confirm" ELSE NextFrame
  BY DEF Flush, From, To
<1>2. PICK whole \in BOOLEAN, part \in Fragments \cup {stream.frame} :
        /\ whole <=> part = stream.frame
        /\ whole => ~stream.lost
        /\ stream' = [stream EXCEPT !.out = @ \o part, !.lost = ~whole,
                                    !.frame = IF ConfirmsNow THEN @ ELSE <<>>,
                                    !.event = ConfirmsNow]
  BY DEF Flush
<1> DEFINE p == stream.out \o part
           frame == IF ConfirmsNow THEN stream.frame ELSE <<>>
           now == ConfirmsNow
<1>3. /\ p \in Seq(Lines) /\ Begins(p, stream.got) /\ Len(p) <= Len(stream.taken)
      /\ whole => /\ Len(p) = Len(stream.taken)
                  /\ Whole(p) \/ (stream.eof /\ p = stream.got)
  BY <1>1, <1>2, FlushesOut
<1>4. /\ stream \in Streams /\ stream.frame \in Seq(Lines) /\ stream.taken \in Seq(Lines)
      /\ stream.got = stream.taken /\ (stream.event <=> Event(stream.frame))
      /\ stream.event \in BOOLEAN /\ stream.confirmed \in BOOLEAN /\ stream.eof \in BOOLEAN
  BY <1>1 DEF StreamInv, Streams
<1>5. /\ now \in BOOLEAN /\ (now => stream.event /\ loc.reserved /\ ~stream.confirmed)
      /\ loc.reserved /\ ~now => ~stream.event \/ stream.confirmed
  BY <1>4 DEF ConfirmsNow
<1>6. frame \in Seq(Lines) /\ (now <=> Event(frame))
  BY <1>4, <1>5 DEF Event
<1>7. loc.reserved => (stream.confirmed \/ stream.event <=> Event(stream.taken))
  BY <1>1 DEF CountInv
<1>8. /\ stream.confirmed => settled = Confirmed(TRUE)
      /\ ~stream.confirmed => settled = <<>>
  BY <1>1 DEF AnswerInv
<1>9. stream' = [stream EXCEPT !.out = p, !.lost = ~whole, !.frame = frame, !.event = now]
  BY <1>2
<1>10. pc' = IF now THEN "confirm" ELSE IF stream.eof THEN "ended" ELSE "line"
  BY <1>1 DEF NextFrame
<1>11. ~now => frame = <<>> /\ stream.got = stream.taken \o frame
  BY <1>4, ConcatEmptySeq
<1>12. ~now => Len(frame) = 0
  BY <1>11
<1> HIDE DEF p, frame, now
<1>13. /\ stream' \in Streams /\ stream'.out = p /\ stream'.got = stream.got
       /\ stream'.taken = stream.taken /\ stream'.lost = ~whole
       /\ stream'.frame = frame /\ stream'.event = now
       /\ stream'.eof = stream.eof /\ stream'.confirmed = stream.confirmed
  BY <1>3, <1>4, <1>5, <1>6, <1>9 DEF Streams
<1>14. StreamInv'
  BY <1>4, <1>6, <1>10, <1>11, <1>13 DEF StreamInv, Streaming, Event, Whole, Final
<1>15. CountInv'
  BY <1>1, <1>5, <1>7, <1>8, <1>10, <1>13 DEF CountInv, Confirmed, Event, Final
<1>16. OutInv'
  BY <1>3, <1>10, <1>13 DEF OutInv, Whole
<1>17. FrameInv'
  BY <1>10, <1>12, <1>13 DEF FrameInv
<1> QED BY <1>14, <1>15, <1>16, <1>17

LEMMA ConfirmStreams ==
    ASSUME StreamInv, CountInv, OutInv, AnswerInv, ConfirmFirst
    PROVE  StreamInv' /\ CountInv' /\ OutInv' /\ FrameInv'
<1>1. pc = "confirm" /\ loc' = loc
  BY DEF ConfirmFirst, From
<1>2. PICK ok \in BOOLEAN :
        /\ settled' = Append(settled, [op |-> "confirm", ok |-> ok])
        /\ stream' = [stream EXCEPT !.confirmed = ok, !.failed = ~ok,
                                    !.frame = <<>>, !.event = FALSE]
        /\ pc' = IF ok THEN NextFrame ELSE "ended"
  BY DEF ConfirmFirst, To
<1>3. settled = <<>> /\ Event(stream.taken)
  BY <1>1 DEF AnswerInv, CountInv
<1>4. settled' = Confirmed(ok)
  BY <1>2, <1>3 DEF Confirmed
<1>5. /\ stream.taken \in Seq(Lines) /\ <<>> \in Seq(Lines) /\ ~Event(<<>>) /\ Len(<<>>) = 0
  BY DEF StreamInv, Streams, Event
<1>6. stream.taken = stream.taken \o <<>> /\ stream.got = stream.taken
  BY <1>1, <1>5, ConcatEmptySeq DEF StreamInv
<1>7. /\ stream' \in Streams /\ stream'.out = stream.out /\ stream'.got = stream.got
      /\ stream'.taken = stream.taken /\ stream'.lost = stream.lost
      /\ stream'.frame = <<>> /\ stream'.event = FALSE
      /\ stream'.eof = stream.eof /\ stream'.confirmed = ok
  BY <1>2, <1>5 DEF StreamInv, Streams
<1>8. pc' \in {"line", "ended"} /\ (pc' = "line" => ok /\ ~stream.eof)
  BY <1>2 DEF NextFrame
<1>9. StreamInv'
  BY <1>1, <1>5, <1>6, <1>7, <1>8 DEF StreamInv, Streaming, Event, Whole, Final
<1>10. CountInv'
  BY <1>3, <1>4, <1>7, <1>8 DEF CountInv, Event, Final
<1>11. OutInv'
  BY <1>1, <1>7, <1>8 DEF OutInv, Final, Whole
<1>12. FrameInv'
  BY <1>5, <1>7 DEF FrameInv
<1> QED BY <1>9, <1>10, <1>11, <1>12

LEMMA StreamOverStreams ==
    ASSUME StreamInv, CountInv, OutInv, AnswerInv, StreamOver
    PROVE  StreamInv' /\ CountInv' /\ OutInv' /\ FrameInv'
<1>1. pc = "ended" /\ pc' = Final /\ UNCHANGED <<loc, stream>>
  BY DEF StreamOver, From, To
<1>2. StreamInv' /\ OutInv' /\ FrameInv'
  BY <1>1 DEF StreamInv, OutInv, FrameInv, Streaming, Event, Whole, Final
<1>3. settled' = settled \/ \E ok \in BOOLEAN : settled' = Append(settled, [op |-> "rollback", ok |-> ok])
  BY DEF StreamOver, Settlement
<1>4. ASSUME loc.reserved
      PROVE  /\ (\E i \in DOMAIN settled' : settled'[i].op = "confirm") <=> Event(stream.taken)
             /\ Event(stream.taken) => settled'[1].op = "confirm"
  <2>1. CASE Event(stream.taken)
    <3>1. PICK c : settled = <<c>> /\ c.op = "confirm"
      BY <1>1, <1>4, <2>1 DEF CountInv, Confirmed
    <3>2. 1 \in DOMAIN settled' /\ settled'[1] = c
      <4>1. settled \in Seq({c}) /\ Len(settled) = 1 /\ settled[1] = c
        BY <3>1
      <4>2. CASE settled' = settled
        BY <4>1, <4>2
      <4>3. ASSUME NEW r, settled' = Append(settled, r) PROVE 1 \in DOMAIN settled' /\ settled'[1] = c
        BY <4>1, <4>3
      <4> QED BY <1>3, <4>2, <4>3
    <3> QED BY <2>1, <3>1, <3>2
  <2>2. CASE ~Event(stream.taken)
    <3>1. settled = <<>>
      BY <1>1, <1>4, <2>2 DEF CountInv
    <3>2. settled' = <<>> \/ \E ok \in BOOLEAN : settled' = << [op |-> "rollback", ok |-> ok] >>
      BY <1>3, <3>1
    <3>3. \A i \in DOMAIN settled' : settled'[i].op # "confirm"
      BY <3>2
    <3> QED BY <2>2, <3>3
  <2> QED BY <2>1, <2>2
<1>5. CountInv'
  BY <1>1, <1>4 DEF CountInv, Event, Final
<1> QED BY <1>2, <1>5

LEMMA OutsideStream ==
    ASSUME GateNext,
           ~(\/ ReadLine \/ StreamEnds \/ StreamBreaks \/ WriteFrame \/ Flush
             \/ ConfirmFirst \/ StreamOver \/ Over)
    PROVE  /\ pc \notin Streaming \cup {Final} /\ UNCHANGED stream
           /\ pc' \notin {"frame", "flush", "confirm", "ended"}
<1>1. CASE Start \/ MatchHeaders \/ MatchIP \/ Reserve
  BY <1>1 DEF Start, MatchHeaders, MatchIP, Reserve, From, To, Judged, Streaming, Final
<1>2. CASE MatchForm \/ MatchJSON
  BY <1>2 DEF MatchForm, MatchJSON, MatchBody, From, To, Judged, Streaming, Final
<1>3. CASE Send \/ RoundTrip \/ RollbackAndFail \/ Fail502
  BY <1>3 DEF Send, RoundTrip, RollbackAndFail, Fail502, Fails, From, To, Streaming, Final
<1>4. CASE ReadResponse \/ Judge \/ RejectStream \/ WriteResponse
  BY <1>4 DEF ReadResponse, Judge, RejectStream, WriteResponse, Fails, From, To, Streaming, Final
<1>5. CASE TryPath
  BY <1>5 DEF TryPath, From, To, Streaming, Final
<1> QED BY <1>1, <1>2, <1>3, <1>4, <1>5 DEF GateNext

LEMMA StreamStep ==
    StreamInv /\ CountInv /\ OutInv /\ FrameInv /\ Answering /\ [GateNext]_gatevars
        => StreamInv' /\ CountInv' /\ OutInv' /\ FrameInv'
<1> SUFFICES ASSUME StreamInv, CountInv, OutInv, FrameInv, AnswerInv, [GateNext]_gatevars
             PROVE  StreamInv' /\ CountInv' /\ OutInv' /\ FrameInv'
  BY DEF Answering
<1>1. CASE UNCHANGED gatevars
  <2>1. UNCHANGED <<pc, loc, settled, stream>>
    BY <1>1 DEF gatevars
  <2>2. StreamInv' /\ CountInv'
    BY <2>1 DEF StreamInv, CountInv, Event, Whole
  <2>3. OutInv' /\ FrameInv'
    BY <2>1 DEF OutInv, FrameInv, Whole
  <2> QED BY <2>2, <2>3
<1>2. Over => UNCHANGED gatevars
  BY DEF Over
<1> QED BY <1>1, <1>2, ReadLineStreams, StreamEndsStreams, BreaksStreams, WriteStreams,
           FlushStreams, ConfirmStreams, StreamOverStreams, OutsideStream, BeforeStream

LEMMA StreamHistory == GateSpec => [](StreamInv /\ CountInv /\ OutInv /\ Answering)
<1>1. GateSpec => [](StreamInv /\ CountInv /\ OutInv /\ FrameInv /\ Answering)
  BY Answers, StreamInit, StreamStep, PTL DEF GateSpec
<1> QED BY <1>1, PTL

(* The client of a stream sees a prefix of what the upstream sent, in      *)
(* order, that ends with a frame or with the stream, unless its connection *)
(* is lost within a frame: nothing follows then.                           *)
THEOREM FramesWhole == GateSpec => []FramesStayWhole
<1>1. StreamInv /\ OutInv => FramesStayWhole
  <2> SUFFICES ASSUME StreamInv, OutInv PROVE FramesStayWhole
    OBVIOUS
  <2>1. stream.out \in Seq(Lines) /\ stream.got \in Seq(Lines)
    BY DEF StreamInv, Streams
  <2>2. Begins(stream.out, stream.got)
    BY DEF OutInv
  <2>3. Len(stream.out) <= Len(stream.got) /\ stream.out = SubSeq(stream.got, 1, Len(stream.out))
    BY <2>1, <2>2, SameBegin DEF Begins
  <2>4. stream.out = <<>> => Len(stream.out) = 0
    OBVIOUS
  <2> QED BY <2>1, <2>3, <2>4 DEF OutInv, Whole, FramesStayWhole
<1> QED BY <1>1, StreamHistory, PTL

(* A whole event on the client's side was taken by Write. *)
LEMMA SeenIsTaken ==
    ASSUME StreamInv, OutInv, EventSeen
    PROVE  Event(stream.taken)
<1> DEFINE t == stream.taken
           o == stream.out
           g == stream.got
<1>1. t \in Seq(Lines) /\ o \in Seq(Lines) /\ g \in Seq(Lines) /\ stream.frame \in Seq(Lines)
  BY DEF StreamInv, Streams
<1>2. PICK i \in DOMAIN o, j \in DOMAIN o :
        /\ i <= j /\ o[i] = "field"
        /\ o[j] = "blank" \/ (stream.eof /\ j = Len(g))
  BY DEF EventSeen
<1>3. g = t \/ g = t \o stream.frame
  BY DEF StreamInv
<1>4. Len(t) \in Nat /\ Len(t) <= Len(g) /\ \A n \in 1..Len(t) : g[n] = t[n]
  <2>1. CASE g = t
    BY <1>1, <2>1
  <2>2. CASE g = t \o stream.frame
    <3> HIDE DEF t, g
    <3>1. /\ Len(g) = Len(t) + Len(stream.frame) /\ \A n \in 1..Len(t) : g[n] = t[n]
          /\ Len(t) \in Nat /\ Len(stream.frame) \in Nat
      BY <1>1, <2>2, Ends
    <3> QED BY <3>1
  <2> QED BY <1>3, <2>1, <2>2
<1>5. /\ Begins(o, g)
      /\ \/ Len(o) <= Len(t)
         \/ Len(o) < Len(g) /\ \A n \in (Len(t) + 1)..Len(o) : g[n] # "blank"
  BY DEF OutInv
<1> HIDE DEF t, o, g
<1>6. i \in 1..Len(o) /\ j \in 1..Len(o) /\ Len(o) \in Nat
  BY <1>1, <1>2
<1>7. g[i] = "field" /\ g[j] = o[j]
  BY <1>2, <1>5, <1>6 DEF Begins
<1>8. i <= Len(t)
  <2> SUFFICES ASSUME ~(i <= Len(t)) PROVE FALSE
    OBVIOUS
  <2>1. j \in (Len(t) + 1)..Len(o) /\ ~(Len(o) <= Len(t))
    BY <1>2, <1>4, <1>6
  <2>2. Len(o) < Len(g) /\ g[j] # "blank"
    BY <1>5, <2>1
  <2>3. Len(g) \in Nat
    BY <1>1
  <2> QED BY <1>2, <1>6, <1>7, <2>2, <2>3
<1>9. i \in 1..Len(t) /\ DOMAIN t = 1..Len(t) /\ t[i] = "field"
  BY <1>1, <1>4, <1>6, <1>7, <1>8
<1> QED BY <1>9 DEF Event, t

(* A stream counts with the first event that Write has taken, and only     *)
(* then; no client sees a whole event of one whose Confirm was not tried.  *)
THEOREM CountsWhenWritten == GateSpec => []StreamCountsWhenWritten
<1>1. StreamInv /\ CountInv /\ OutInv /\ AnswerInv => StreamCountsWhenWritten
  <2> SUFFICES ASSUME StreamInv, CountInv, OutInv, AnswerInv, loc.reserved,
                      pc \in {"line", "frame", "ended", Final}, stream.got # <<>>
               PROVE  /\ (\E i \in DOMAIN settled : settled[i].op = "confirm") <=> Event(stream.taken)
                      /\ Event(stream.taken) => settled[1].op = "confirm"
                      /\ EventSeen => Event(stream.taken)
    BY DEF StreamCountsWhenWritten, Taken, Event
  <2>1. CASE pc = Final
    BY <2>1, SeenIsTaken DEF CountInv
  <2>2. CASE pc \in {"line", "frame", "ended"}
    <3>1. IF Event(stream.taken) THEN \E ok \in BOOLEAN : settled = Confirmed(ok) ELSE settled = <<>>
      BY <2>2 DEF CountInv, AnswerInv
    <3>2. Event(stream.taken) => 1 \in DOMAIN settled /\ settled[1].op = "confirm"
      BY <3>1 DEF Confirmed
    <3> QED BY <3>1, <3>2, SeenIsTaken
  <2> QED BY <2>1, <2>2
<1> QED BY <1>1, StreamHistory, PTL DEF Answering

===============================================================================
