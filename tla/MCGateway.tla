------------------------------- MODULE MCGateway -------------------------------
(***************************************************************************)
(* Instances of Gateway for TLC: what Go's path, regular expression and    *)
(* string libraries say of a few patterns and texts, two configurations,   *)
(* and requests that separate their rules.                                 *)
(***************************************************************************)
EXTENDS Gateway

(* Patterns and paths. *)
MCEndsInStars(p) == p = "/chat/**"
MCTrimStars(p)   == "/chat/"
MCHasWildcard(p) == p \in {"/chat/**", "/files/[ab"}
MCGlob(p, path)  == FALSE
MCHasPrefix(path, p) ==
    <<path, p>> \in {<<"/chat/one", "/chat/">>, <<"/chat/one", "/chat/one">>,
                     <<"/chat/one", "/">>, <<"/mail", "/">>, <<"/health", "/">>,
                     <<"/health", "/health">>, <<"/mail", "/mail">>}

(* Regular expressions and the canonical texts they match.  "(.+)-(.)" is  *)
(* the extractor's: a name and a digit.                                    *)
MCCompiles(re) == TRUE
MCMatchString(re, text) ==
    CASE re = "form gpt"  -> text[2] = "model=gpt"
      [] re = "json gpt"  -> text = "{model:gpt}"
      [] re = "stream"    -> text = "{stream:true}"
      [] re = "anything"  -> TRUE
      [] re = "beta"      -> text = "x-beta:1"
      [] re = "local"     -> text = "10.0.0.1"
      [] OTHER            -> FALSE

MCNumSubexp(re) == 2
MCFindSubmatch(re, raw) ==
    CASE raw = "a-1"       -> <<"a-1", "a", "1">>
      [] raw = "b-1"       -> <<"b-1", "b", "1">>
      [] raw = "-1"        -> <<"-1", "", "1">>
      [] raw = "a|user:-1" -> <<"a|user:-1", "a|user:", "1">>
      [] OTHER             -> <<>>

MCSplitValue(value) ==
    CASE value = "web|user:a" -> [first |-> "web", rest |-> << <<"user", "a">> >>]
      [] value = "a|user:"    -> [first |-> "a", rest |-> << <<"user", "">> >>]
      [] OTHER                -> [first |-> value, rest |-> <<>>]

-------------------------------------------------------------------------------
Text(word) == <<word, "plain">>
Regexes(include, exclude) == [include |-> include, exclude |-> exclude]
None == [d \in Domains |-> NoMatcher]

(* Matching on every domain, one rule with two paths, a rule with excludes *)
(* only; identities by priority, padded and capitalised.                   *)
ByMatch ==
    [enabled  |-> TRUE,
     exclude  |-> <<"/health">>,
     rules    |->
       << [name |-> "gpt", paths |-> <<"/chat/one", "/chat/**">>,
           match |-> [None EXCEPT !.form = Regexes({"form gpt"}, {}),
                                  !.ip = Regexes({}, {"local"})]],
          [name |-> "json", paths |-> <<"/files/[ab", "/chat/**">>,
           match |-> [None EXCEPT !.json = Regexes({"json gpt", "stream"}, {"stream"}),
                                  !.headers = Regexes({}, {"beta"})]],
          [name |-> "rest", paths |-> <<"/">>,
           match |-> [None EXCEPT !.json = Regexes({}, {"stream"})]] >>,
     identity |->
       [strategy   |-> <<"header_priority", "CAPITALS">>,
        fallback   |-> TRUE,
        extractors |-> << [source |-> <<"header", "padded">>, key |-> <<"X-App", "padded">>,
                           regex |-> "", group |-> 0, name |-> "app"],
                          [source |-> <<"cookie", "CAPITALS">>, key |-> Text("user"),
                           regex |-> "(.+)-(.)", group |-> 2, name |-> "user"] >>],
     success  |-> [mode |-> "status_code", require2xx |-> TRUE, expected |-> 0],
     failOpen |-> TRUE]

(* No conditions, merged identities, the outcome in the response's body. *)
ByField ==
    [enabled  |-> TRUE,
     exclude  |-> <<>>,
     rules    |-> << [name |-> "all", paths |-> <<"/">>, match |-> None] >>,
     identity |->
       [strategy   |-> Text("merge_all"),
        fallback   |-> FALSE,
        extractors |-> << [source |-> NoText, key |-> Text("X-App"),
                           regex |-> "", group |-> 0, name |-> "app"],
                          [source |-> Text("cookie"), key |-> Text("user"),
                           regex |-> "(.+)-(.)", group |-> 1, name |-> "user"],
                          [source |-> Text("ip"), key |-> NoText,
                           regex |-> "(.+)-(.)", group |-> 3, name |-> "net"] >>],
     success  |-> [mode |-> "json_field", require2xx |-> FALSE, expected |-> 1],
     failOpen |-> FALSE]

SwitchedOff == [ByField EXCEPT !.enabled = FALSE]

MCConfigs == {ByMatch, ByField, SwitchedOff}

-------------------------------------------------------------------------------
Params(app, user) ==
    [k \in {<<"header", "X-App">>, <<"cookie", "user">>} |->
        IF k[1] = "header" THEN app ELSE user]

Plain == [path |-> "/chat/one", content |-> "", size |-> 0, type |-> "", parses |-> FALSE,
          query |-> "", headers |-> "", ip |-> "10.0.0.2", breaks |-> FALSE,
          params |-> Params("", "")]

WithBody(type, content) ==
    [Plain EXCEPT !.type = type, !.content = content, !.size = 1, !.parses = TRUE]

MCRequests ==
    {Plain,
     [Plain EXCEPT !.path = "/health", !.ip = "10.0.0.1"],
     [Plain EXCEPT !.path = "/mail", !.params = Params("phone", "a-1")],
     WithBody("form", "model=gpt"),
     [WithBody("form", "model=gpt") EXCEPT !.ip = "10.0.0.1", !.params = Params("", "b-1")],
     [WithBody("form", "model=gpt") EXCEPT !.breaks = TRUE],
     [WithBody("form", "model=") EXCEPT !.parses = FALSE],
     [WithBody("json", "{model:gpt}") EXCEPT !.params = Params("web", "")],
     [WithBody("json", "{model:gpt}") EXCEPT !.headers = "x-beta:1", !.params = Params("web", "a-1")],
     [Plain EXCEPT !.params = Params("web|user:a", "")],
     [Plain EXCEPT !.params = Params("web", "a|user:-1")],
     [Plain EXCEPT !.params = Params("web", "-1")],
     WithBody("json", "{stream:true}"),
     [WithBody("", "{stream:true}") EXCEPT !.breaks = TRUE, !.path = "/mail"],
     [WithBody("json", "{model:gpt}") EXCEPT !.size = 3],
     [WithBody("", "text") EXCEPT !.size = 4, !.parses = FALSE]}

Doc(kind, tenths, spells) == [kind |-> kind, tenths |-> tenths, spells |-> spells]
NoDoc == Doc("empty", 0, 0)
Answer(status, sse, size, doc) == [status |-> status, sse |-> sse, size |-> size, doc |-> doc]

MCResponses ==
    {Answer(200, FALSE, 1, Doc("number", 10, 0)),
     Answer(200, FALSE, 1, Doc("string", 0, 0)),
     Answer(200, FALSE, 3, NoDoc),
     Answer(302, FALSE, 0, NoDoc),
     Answer(500, FALSE, 1, Doc("string", 0, 1)),
     Answer(200, TRUE, 1, NoDoc),
     Answer(302, TRUE, 3, NoDoc),
     Answer(503, TRUE, 1, NoDoc)}

===============================================================================
