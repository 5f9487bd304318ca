-------------------------------- MODULE Gateway --------------------------------
(***************************************************************************)
(* One request's whole way through QuotaMiddleware.Handler: finding its    *)
(* rule, identifying it, sending it upstream, and answering the client,    *)
(* buffered or as a stream of events (middleware/quota.go,                 *)
(* proxy/reverse_proxy.go).  QuotaProxy has many requests and no such      *)
(* detail; here Redis is only what it answers.                             *)
(*                                                                         *)
(* Client, upstream and Redis choose: what arrives, which read or write    *)
(* fails and when, and what each call returns.                             *)
(***************************************************************************)
EXTENDS RuleMatch, Identity, SuccessJudge

CONSTANTS
    Configs,        \* the configurations a process may run with
    Requests,       \* the requests a client may send
    Responses,      \* the responses the upstream may give
    MaxBodySize,    \* server.max_body_size, in units of body size
    MaxLines        \* the lines of a stream: bounds its length

(* The types of Go, and what config.Validate sees to: rules have names of  *)
(* their own.                                                              *)
Listed(s) == Len(s) \in Nat /\ DOMAIN s = 1..Len(s)

ASSUME GateAssumption ==
    /\ MaxBodySize \in Nat
    /\ \A x \in Requests : x.size \in Nat /\ x.breaks \in BOOLEAN
    /\ \A c \in Configs :
          /\ Listed(c.rules)
          /\ \A i, j \in DOMAIN c.rules : c.rules[i].name = c.rules[j].name => i = j
          /\ \A i \in DOMAIN c.rules : Listed(c.rules[i].paths)

(* The values that may become parts of an identity.  The separators of a   *)
(* value tell it, and an address has none.                                 *)
AllExtractors == UNION {ToSet(c.identity.extractors) : c \in Configs}

Values == {ExtractValue(x, ex).value : x \in Requests, ex \in AllExtractors}
              \cup {x.ip : x \in Requests}

ASSUME SplitAssumption ==
    /\ \A c \in Configs : Listed(c.identity.extractors)
    /\ \A v \in Values : SplitValue(v).rest \in Seq(ToSet(SplitValue(v).rest))
    /\ \A v, w \in Values :
          SplitValue(v).first = SplitValue(w).first /\ SplitValue(v).rest = SplitValue(w).rest
             => v = w
    /\ \A x \in Requests : SplitValue(x.ip).rest = <<>>

VARIABLES
    conf,       \* the configuration
    in,         \* the request
    pc,         \* where its goroutine is
    loc,        \* its locals
    body,       \* what reading c.Request.Body would still give
    peak,       \* history: the most of the body read into memory at once
    canon,      \* requestCanon: the canonical forms computed so far
    sent,       \* the body sent upstream
    resp,       \* the upstream's response
    settled,    \* the settlements made, in order
    heads,      \* how many response heads the client was sent
    answer,     \* the status of the first
    stream      \* the loop of StreamSSE

request == <<conf, in, body, peak, canon>>
gatevars == <<conf, in, pc, loc, body, peak, canon, sent, resp, settled, heads, answer, stream>>

NotDone == [done |-> FALSE, ok |-> TRUE, text |-> ""]
Done(ok, text) == [done |-> TRUE, ok |-> ok, text |-> text]

NoStream == [got |-> <<>>, frame |-> <<>>, taken |-> <<>>, out |-> <<>>, event |-> FALSE,
             eof |-> FALSE, confirmed |-> FALSE, failed |-> FALSE, lost |-> FALSE]

NoBody == ""
Unsent == "unsent"
NoResponse == [status |-> 0]
Final == "over"

GateInit ==
    /\ conf \in Configs
    /\ in \in Requests
    /\ pc = "start"
    /\ loc = [i |-> 1, j |-> 1, rule |-> 0, ident |-> <<>>, reserved |-> FALSE]
    /\ body = "whole"
    /\ peak = 0
    /\ canon = [body |-> NotDone, form |-> NotDone, json |-> NotDone, headers |-> NotDone]
    /\ sent = Unsent
    /\ resp = NoResponse
    /\ settled = <<>>
    /\ heads = 0
    /\ answer = 0
    /\ stream = NoStream

From(here) == pc = here
To(there) == pc' = there

-------------------------------------------------------------------------------
(* matchRule.                                                              *)

Start ==
    /\ From("start")
    /\ To(IF ~conf.enabled \/ AnyPathMatches(conf.exclude, in.path) THEN "send" ELSE "try")
    /\ UNCHANGED <<request, loc, sent, resp, settled, heads, answer, stream>>

Rule == conf.rules[loc.i]
Pattern == CompilePath(Rule.paths[loc.j])

(* The next include path of the rules; the loops go on at "try". *)
TryPath ==
    /\ From("try")
    /\ CASE loc.i > Len(conf.rules)      -> To("send") /\ UNCHANGED loc
         [] loc.i <= Len(conf.rules) /\ loc.j > Len(Rule.paths)
              -> loc' = [loc EXCEPT !.i = @ + 1, !.j = 1] /\ UNCHANGED pc
         [] OTHER -> IF PathMatches(Pattern, in.path)
                     THEN To("form") /\ UNCHANGED loc
                     ELSE loc' = [loc EXCEPT !.j = @ + 1] /\ UNCHANGED pc
    /\ UNCHANGED <<request, sent, resp, settled, heads, answer, stream>>

(* readRequestBody: reads all there is, once, and puts it back.  A read    *)
(* that fails leaves nothing to read again.                                *)
ReadRequestBody_KeepEmpty ==
    IF canon.body.done THEN [canon |-> canon.body, body |-> body, read |-> 0]
    ELSE [canon |-> Done(~in.breaks, in.content), body |-> "none", read |-> in.size]

ReadRequestBody ==
    IF canon.body.done THEN [canon |-> canon.body, body |-> body, read |-> 0]
    ELSE IF in.breaks THEN [canon |-> Done(FALSE, ""), body |-> "none", read |-> in.size]
    ELSE [canon |-> Done(TRUE, in.content), body |-> body, read |-> in.size]

(* canonicalizeQueryForm: the query's values and the form's.  Parsing the  *)
(* form reads the body, which is put back on return.                       *)
HasForm == in.size > 0 /\ in.type = "form" /\ in.parses

AfterForm_Consumed(read) == IF HasForm THEN "none" ELSE read
AfterForm(read) == read

FormText == <<in.query, IF HasForm THEN in.content ELSE "">>

CanonicalForm_IgnoreError(read) == Done(TRUE, FormText)

CanonicalForm(read) ==
    IF read.ok THEN Done(TRUE, FormText) ELSE Done(FALSE, "")

(* canonicalizeJSONBody: anything that is not JSON is the empty text. *)
JSONText ==
    IF in.size > 0 /\ in.type \in {"", "json"} /\ in.parses THEN in.content ELSE ""

CanonicalJSON(read) ==
    IF read.ok THEN Done(TRUE, JSONText) ELSE Done(FALSE, "")

Matcher(domain) == MatcherOf(conf.rules, Rule.name)[domain]

(* A domain holds: on to the next one, or to the identity.  It does not,   *)
(* or cannot be computed: on to the next include path.                     *)
Judged(domain, c, next) ==
    IF c.ok /\ Accepts(Matcher(domain), c.text)
    THEN To(next) /\ UNCHANGED loc
    ELSE To("try") /\ loc' = [loc EXCEPT !.j = @ + 1]

MatchBody(here, next, Canonical(_), After(_)) ==
    /\ From(here)
    /\ IF Matcher(here) = NoMatcher THEN To(next) /\ UNCHANGED <<loc, request>>
       ELSE IF canon[here].done THEN Judged(here, canon[here], next) /\ UNCHANGED request
       ELSE LET read == ReadRequestBody
                c    == Canonical(read.canon)
            IN  /\ canon' = [canon EXCEPT !.body = read.canon, ![here] = c]
                /\ body' = IF read.canon.ok THEN After(read.body) ELSE read.body
                /\ peak' = IF read.read > peak THEN read.read ELSE peak
                /\ Judged(here, c, next)
                /\ UNCHANGED <<conf, in>>
    /\ UNCHANGED <<sent, resp, settled, heads, answer, stream>>

Unread(b) == b

MatchForm == MatchBody("form", "json", CanonicalForm, AfterForm)
MatchJSON == MatchBody("json", "headers", CanonicalJSON, Unread)

MatchHeaders ==
    /\ From("headers")
    /\ IF Matcher("headers") = NoMatcher THEN To("ip") /\ UNCHANGED <<loc, canon>>
       ELSE /\ canon' = [canon EXCEPT !.headers = Done(TRUE, in.headers)]
            /\ Judged("headers", Done(TRUE, in.headers), "ip")
    /\ UNCHANGED <<conf, in, body, peak, sent, resp, settled, heads, answer, stream>>

(* The last domain: the rule is found, and with it the request's identity. *)
MatchIP ==
    /\ From("ip")
    /\ IF Accepts(Matcher("ip"), in.ip)
       THEN /\ To("reserve")
            /\ loc' = [loc EXCEPT !.rule = loc.i, !.ident = Identify(conf.identity, in)]
       ELSE To("try") /\ loc' = [loc EXCEPT !.j = @ + 1]
    /\ UNCHANGED <<request, sent, resp, settled, heads, answer, stream>>

-------------------------------------------------------------------------------
(* Answers.  A head goes out when the handler writes for the first time.   *)

Respond(status) == heads' = heads + 1 /\ answer' = IF heads = 0 THEN status ELSE answer

(* TryReserve.  The custom body of a refusal changes its form only. *)
Reserve ==
    /\ From("reserve")
    /\ \/ /\ To("send")
          /\ loc' = [loc EXCEPT !.reserved = TRUE]
          /\ UNCHANGED <<heads, answer>>
       \/ /\ To(Final)
          /\ Respond(429)
          /\ UNCHANGED loc
       \/ /\ IF conf.failOpen THEN To("send") /\ UNCHANGED <<heads, answer>>
                             ELSE To(Final) /\ Respond(503)
          /\ UNCHANGED loc
    /\ UNCHANGED <<request, sent, resp, settled, stream>>

(* What is left for the request to do once its upstream call has failed. *)
Fails == To(IF loc.reserved THEN "rollback502" ELSE "502")

(* Do reads the body anew, up to one unit above the limit, and does not    *)
(* look at the error: a body that breaks off is sent as far as it came.    *)
Size == IF body = "none" THEN 0 ELSE in.size
ReadNow == IF Size > MaxBodySize THEN MaxBodySize + 1 ELSE Size

Readable == IF body = "none" THEN NoBody
            ELSE IF in.breaks \/ Size > MaxBodySize THEN "part"
            ELSE in.content

TooLarge_Cut == FALSE
TooLarge == ReadNow > MaxBodySize

Send ==
    /\ From("send")
    /\ peak' = IF peak > ReadNow THEN peak ELSE ReadNow
    /\ IF TooLarge THEN Fails /\ UNCHANGED sent
                   ELSE To("roundtrip") /\ sent' = Readable
    /\ UNCHANGED <<conf, in, body, canon, loc, resp, settled, heads, answer, stream>>

RoundTrip ==
    /\ From("roundtrip")
    /\ \/ /\ Fails
          /\ UNCHANGED resp
       \/ \E r \in Responses :
             /\ resp' = r
             /\ To(CASE ~r.sse -> "read"
                     [] r.sse /\ loc.reserved /\ ~StatusSuccess(conf.success, r.status) -> "rejected"
                     [] OTHER -> "line")
    /\ UNCHANGED <<request, loc, sent, settled, heads, answer, stream>>

(* Confirm or Rollback, which may fail. *)
Settlement(op) == \E ok \in BOOLEAN : settled' = Append(settled, [op |-> op, ok |-> ok])

RollbackAndFail ==
    /\ From("rollback502")
    /\ Settlement("rollback")
    /\ To("502")
    /\ UNCHANGED <<request, loc, sent, resp, heads, answer, stream>>

Fail502 ==
    /\ From("502")
    /\ Respond(502)
    /\ To(Final)
    /\ UNCHANGED <<request, loc, sent, resp, settled, stream>>

-------------------------------------------------------------------------------
(* Buffered responses. *)

(* ReadResponse: the body may break off or exceed the limit. *)
ReadResponse ==
    /\ From("read")
    /\ \/ Fails
       \/ resp.size <= MaxBodySize /\ To(IF loc.reserved THEN "judge" ELSE "write")
    /\ UNCHANGED <<request, loc, sent, resp, settled, heads, answer, stream>>

Judge ==
    /\ From("judge")
    /\ Settlement(IF IsSuccess(conf.success, resp.status, resp.doc) THEN "confirm" ELSE "rollback")
    /\ To("write")
    /\ UNCHANGED <<request, loc, sent, resp, heads, answer, stream>>

(* A stream whose status is no success is rolled back and answered whole. *)
RejectStream ==
    /\ From("rejected")
    /\ Settlement("rollback")
    /\ \/ To("502")
       \/ resp.size <= MaxBodySize /\ To("write")
    /\ UNCHANGED <<request, loc, sent, resp, heads, answer, stream>>

(* WriteResponse: whether the client gets it is not looked at. *)
WriteResponse ==
    /\ From("write")
    /\ Respond(resp.status)
    /\ To(Final)
    /\ UNCHANGED <<request, loc, sent, resp, settled, stream>>

-------------------------------------------------------------------------------
(* StreamSSE: lines gather in a frame; a blank line, or the end of the     *)
(* stream, writes it out and flushes it; then the first frame that has a   *)
(* field of an event is confirmed.                                         *)
(*                                                                         *)
(* History: got, the lines read; taken, those Write has taken without an   *)
(* error; out, those that went out to the client; lost, that its           *)
(* connection has failed.  A line cut in two counts as one not sent.       *)

Gathered_AnyLine(line) == TRUE
Gathered(line) == stream.event \/ line = "field"

Gather(line) == [stream EXCEPT !.got = Append(@, line), !.frame = Append(@, line),
                               !.event = Gathered(line)]

ReadLine ==
    /\ From("line")
    /\ Len(stream.got) < MaxLines
    /\ \E line \in {"field", "comment", "blank"} :
          /\ stream' = Gather(line)
          /\ To(IF line = "blank" THEN "frame" ELSE "line")
    /\ UNCHANGED <<request, loc, sent, resp, settled, heads, answer>>

(* The stream ends; a last line may come without its line break. *)
StreamEnds ==
    /\ From("line")
    /\ \/ stream' = [stream EXCEPT !.eof = TRUE]
       \/ /\ Len(stream.got) < MaxLines
          /\ \E line \in {"field", "comment"} :
                stream' = [Gather(line) EXCEPT !.eof = TRUE]
    /\ To("frame")
    /\ UNCHANGED <<request, loc, sent, resp, settled, heads, answer>>

(* The stream breaks off: what is gathered is dropped. *)
AfterBreak_Flush == "frame"
AfterBreak == "ended"

StreamBreaks ==
    /\ From("line")
    /\ stream' = [stream EXCEPT !.failed = TRUE]
    /\ To(AfterBreak)
    /\ UNCHANGED <<request, loc, sent, resp, settled, heads, answer>>

NextFrame == IF stream.eof THEN "ended" ELSE "line"
Written == heads > 0
Begin == IF Written THEN UNCHANGED <<heads, answer>> ELSE Respond(resp.status)

ConfirmsNow == stream.event /\ ~stream.confirmed /\ loc.reserved

(* What goes out of a frame that does not go out whole: nothing, once the  *)
(* connection is lost.                                                     *)
Fragments ==
    {SubSeq(stream.frame, 1, n) : n \in IF stream.lost THEN {0} ELSE 0..(Len(stream.frame) - 1)}

(* Write puts the head before the first frame.  It takes the frame into    *)
(* its buffer, which may hide that the connection is lost; or it fails,    *)
(* and a part may have gone out.                                           *)
WriteFrame ==
    /\ From("frame")
    /\ \/ /\ stream.frame = <<>>
          /\ To(NextFrame)
          /\ UNCHANGED <<stream, heads, answer>>
       \/ /\ stream.frame # <<>>
          /\ Begin
          /\ stream' = [stream EXCEPT !.taken = @ \o stream.frame]
          /\ To("flush")
       \/ /\ stream.frame # <<>>
          /\ Begin
          /\ \E part \in Fragments :
                stream' = [stream EXCEPT !.out = @ \o part, !.lost = TRUE, !.failed = TRUE]
          /\ To("ended")
    /\ UNCHANGED <<request, loc, sent, resp, settled>>

(* Flush returns nothing: whatever went out, the code goes on as if all of *)
(* the frame had.                                                          *)
Flush ==
    /\ From("flush")
    /\ \E whole \in BOOLEAN, part \in Fragments \cup {stream.frame} :
          /\ whole <=> part = stream.frame
          /\ whole => ~stream.lost
          /\ stream' = [stream EXCEPT !.out = @ \o part,
                                      !.lost = ~whole,
                                      !.frame = IF ConfirmsNow THEN @ ELSE <<>>,
                                      !.event = ConfirmsNow]
    /\ To(IF ConfirmsNow THEN "confirm" ELSE NextFrame)
    /\ UNCHANGED <<request, loc, sent, resp, settled, heads, answer>>

ConfirmFirst ==
    /\ From("confirm")
    /\ \E ok \in BOOLEAN :
          /\ settled' = Append(settled, [op |-> "confirm", ok |-> ok])
          /\ stream' = [stream EXCEPT !.confirmed = ok, !.failed = ~ok,
                                      !.frame = <<>>, !.event = FALSE]
          /\ To(IF ok THEN NextFrame ELSE "ended")
    /\ UNCHANGED <<request, loc, sent, resp, heads, answer>>

(* handleSSE and forwardRequest after the stream: what was not confirmed   *)
(* is rolled back, and an error is answered if nothing was written yet.    *)
Unsettled_OnError == loc.reserved /\ ~stream.confirmed /\ stream.failed
Unsettled == loc.reserved /\ ~stream.confirmed

AfterStream_Always == stream.failed /\ ~stream.confirmed
AfterStream == stream.failed /\ ~stream.confirmed /\ ~Written

StreamOver ==
    /\ From("ended")
    /\ IF Unsettled THEN Settlement("rollback") ELSE UNCHANGED settled
    /\ IF AfterStream THEN Respond(502)
       ELSE IF Written THEN UNCHANGED <<heads, answer>> ELSE Respond(resp.status)
    /\ To(Final)
    /\ UNCHANGED <<request, loc, sent, resp, stream>>

Over == From(Final) /\ UNCHANGED gatevars

GateNext ==
    \/ Start \/ TryPath \/ MatchForm \/ MatchJSON \/ MatchHeaders \/ MatchIP
    \/ Reserve \/ Send \/ RoundTrip \/ RollbackAndFail \/ Fail502
    \/ ReadResponse \/ Judge \/ RejectStream \/ WriteResponse
    \/ ReadLine \/ StreamEnds \/ StreamBreaks \/ WriteFrame \/ Flush \/ ConfirmFirst \/ StreamOver
    \/ Over

GateSpec == GateInit /\ [][GateNext]_gatevars

-------------------------------------------------------------------------------
(* Properties.                                                             *)

Places == {"start", "try", "form", "json", "headers", "ip", "reserve", "send", "roundtrip",
           "rollback502", "502", "read", "judge", "rejected", "write", "line", "frame", "flush",
           "confirm", "ended", Final}

(* Every variable has its type, and the request's body is gone exactly      *)
(* where readRequestBody remembers a failed read.                          *)
GateTypeOK ==
    /\ conf \in Configs /\ in \in Requests /\ pc \in Places
    /\ loc.i \in 1..(Len(conf.rules) + 1) /\ loc.rule \in 0..Len(conf.rules)
    /\ body \in {"whole", "none"} /\ peak \in Nat
    /\ \A d \in DOMAIN canon : canon[d].done \in BOOLEAN /\ canon[d].ok \in BOOLEAN
    /\ body = "none" <=> canon.body.done /\ ~canon.body.ok
    /\ sent \in {x.content : x \in Requests} \cup {NoBody, Unsent, "part"}
    /\ resp \in Responses \cup {NoResponse}
    /\ \A i \in DOMAIN settled : settled[i] \in [op : {"confirm", "rollback"}, ok : BOOLEAN]
    /\ heads \in Nat

(* The rule a request must get, by the configuration and the request as    *)
(* sent: excluded paths first, then the first rule with a path and with    *)
(* every domain's condition met; a body that cannot be read meets none.    *)
Fits(m, text) ==
    \/ m = NoMatcher
    \/ /\ m.include = {} \/ {re \in m.include : MatchString(re, text)} # {}
       /\ {re \in m.exclude : MatchString(re, text)} = {}

Meets(rule, domain) ==
    \/ rule.match[domain] = NoMatcher
    \/ CASE domain = "form"    -> ~in.breaks /\ Fits(rule.match.form, FormText)
         [] domain = "json"    -> ~in.breaks /\ Fits(rule.match.json, JSONText)
         [] domain = "headers" -> Fits(rule.match.headers, in.headers)
         [] domain = "ip"      -> Fits(rule.match.ip, in.ip)

Candidates ==
    {i \in DOMAIN conf.rules : /\ AnyPathMatches(conf.rules[i].paths, in.path)
                             /\ \A domain \in Domains : Meets(conf.rules[i], domain)}

FirstMatch ==
    IF ~conf.enabled \/ AnyPathMatches(conf.exclude, in.path) \/ Candidates = {} THEN 0
    ELSE CHOOSE i \in Candidates : \A j \in Candidates : i <= j

(* The matching that goes path by path and domain by domain, reads the     *)
(* body once for all rules and keeps what it computed, ends at the rule    *)
(* that the configuration means.                                           *)
MatchesAsConfigured ==
    pc \notin {"start", "try", "form", "json", "headers", "ip"} => loc.rule = FirstMatch

(* What goes upstream is the client's body, whole: whichever rules have    *)
(* read, parsed and put back the body before, and however large it is;     *)
(* only a body that broke off while being read is sent in part.            *)
BodyForwardedIntact ==
    sent # Unsent => sent = in.content \/ in.breaks

(* Two requests count together only when the extractors see the same names *)
(* and values in them, or when values in both of them have the separator   *)
(* of the joined identity in them.                                         *)
Subject(x) ==
    LET hits    == Hits(conf.identity, x)
        seen(i) == <<conf.identity.extractors[i].name,
                     ExtractValue(x, conf.identity.extractors[i]).value>>
    IN  CASE hits = {} -> IF conf.identity.fallback THEN << <<"ip", x.ip>> >> ELSE <<>>
          [] hits # {} /\ Strategy(conf.identity) = "merge_all" ->
                [i \in DOMAIN conf.identity.extractors |-> seen(i)]
          [] OTHER -> << seen(CHOOSE i \in hits : \A j \in hits : i <= j) >>

HasSeparator(x) == \E i \in DOMAIN Subject(x) : SplitValue(Subject(x)[i][2]).rest # <<>>

SubjectsKeptApart ==
    loc.rule # 0 => \A x \in Requests :
        Identify(conf.identity, x) = loc.ident =>
            \/ Subject(x) = Subject(in)
            \/ HasSeparator(x) /\ HasSeparator(in)

(* A seat is settled once: when the request is over, a reserved one has    *)
(* exactly one settlement, or a Confirm that failed before its Rollback;   *)
(* one without a seat has none.                                            *)
Ops == [i \in DOMAIN settled |-> settled[i].op]
SettledOnce ==
    pc = Final =>
        IF loc.reserved
        THEN \/ Len(settled) = 1
             \/ Ops = <<"confirm", "rollback">> /\ ~settled[1].ok
        ELSE settled = <<>>

(* A stream counts with its first event (README.md:12), by what Write      *)
(* answers: it is confirmed when, and only when, Write has taken a frame   *)
(* with a field of an event; comments and blank lines before do not count. *)
(* No client sees a whole event of a stream whose Confirm was not tried,   *)
(* however much of a frame went out when its write failed.                 *)
Taken == \E i \in DOMAIN stream.taken : stream.taken[i] = "field"

EventSeen ==
    \E i, j \in DOMAIN stream.out :
        /\ i <= j
        /\ stream.out[i] = "field"
        /\ stream.out[j] = "blank" \/ (stream.eof /\ j = Len(stream.got))

StreamCountsWhenWritten ==
    loc.reserved /\ pc \in {"line", "frame", "ended", Final} /\ stream.got # <<>> =>
        /\ (\E i \in DOMAIN settled : settled[i].op = "confirm") <=> Taken
        /\ Taken => settled[1].op = "confirm"
        /\ EventSeen => Taken

(* README.md:447: a stream counts once its first event has been written to *)
(* the client and flushed.  It also counts when the flush has failed.      *)
CountedOnlyWhenSeen ==
    (\E i \in DOMAIN settled : settled[i] = [op |-> "confirm", ok |-> TRUE])
        /\ stream # NoStream => EventSeen

(* The client of a stream sees whole frames, in order: a prefix of what    *)
(* the upstream sent that ends where a frame does, or the stream; a part   *)
(* of a frame is the last thing a client sees before it is lost.           *)
FramesStayWhole ==
    LET n == Len(stream.out)
    IN  /\ n <= Len(stream.got)
        /\ stream.out = SubSeq(stream.got, 1, n)
        /\ \/ n = 0 \/ stream.out[n] = "blank" \/ (stream.eof /\ n = Len(stream.got))
           \/ stream.lost

(* The client gets one response: no error is written into a stream or      *)
(* after another answer, and every request is answered.                    *)
OneAnswer == heads <= 1 /\ (pc = Final => heads = 1)

(* README.md:472: max_body_size keeps large bodies out of memory.          *)
MemoryBounded == peak <= MaxBodySize + 1

===============================================================================
