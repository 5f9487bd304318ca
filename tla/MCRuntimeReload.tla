---------------------------- MODULE MCRuntimeReload ----------------------------
(***************************************************************************)
(* Instances of RuntimeReload for TLC: configurations good and bad, as     *)
(* operators may save them or type them into the file.                     *)
(***************************************************************************)
EXTENDS RuntimeReload

CONSTANTS s1, s2, p1, p2, r1

OneSaver     == {s1}
TwoSavers    == {s1, s2}
TwoReloaders == {p1, p2}
OneReloader  == {p1}
OneReq       == {r1}
NoCalls      == {}

(* Paths, groups and texts play no part here. *)
MCNever(x) == FALSE
MCNever2(x, y) == FALSE
MCSame(x) == x
MCNothingFound(re, text) == <<>>
MCWhole(value) == [first |-> value, rest |-> <<>>]

MCCompiles(re)   == re # "(unclosed"
MCNumSubexp(re)  == 1
MCParseURL(url)  == url # "http://bad host"

-------------------------------------------------------------------------------
None == [d \in Domains |-> NoMatcher]
Rule(name, re) ==
    [name |-> name, window |-> <<"day", "CAPITALS">>, count |-> 1, paths |-> <<"/**">>,
     match |-> [None EXCEPT !.json = [include |-> {re}, exclude |-> {}]]]

Extractor(group) ==
    [source |-> <<"header", "padded">>, key |-> <<"X-App", "plain">>,
     regex |-> "(.)", group |-> group, name |-> "app"]

Identity(group) ==
    [strategy |-> <<"merge_all", "CAPITALS">>, fallback |-> TRUE, extractors |-> <<Extractor(group)>>]

MCDefaults ==
    [target |-> "http://localhost", failOpen |-> TRUE,
     identity |-> [strategy |-> NoText, fallback |-> TRUE, extractors |-> <<>>],
     rules |-> << [Rule("default", "any") EXCEPT !.match = None] >>]

MCEnv == [failOpen |-> FALSE]
MCFirstDoc == [identity |-> Identity(1), rules |-> <<Rule("chat", "gpt")>>]

Change(key, setting, durations) == [key |-> key, setting |-> setting, durations |-> durations]
MCChanges ==
    {Change("rules", <<Rule("chat", "gpt"), Rule("chat", "any")>>, TRUE),
     Change("target", "http://bad host", TRUE),
     Change("target", "http://other", FALSE)}

BadGroup  == [identity |-> Identity(-1)]
MCHandDocs == {BadGroup}
NoDocs == {}

===============================================================================
