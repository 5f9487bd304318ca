--------------------------------- MODULE Config --------------------------------
(***************************************************************************)
(* The configuration: what Load makes of the file, the environment and the *)
(* defaults, and what Validate accepts (config/config.go).                 *)
(*                                                                         *)
(* A document is a function from some of the Keys to their values: what a  *)
(* YAML file says.  A configuration has a value for every key.             *)
(***************************************************************************)
EXTENDS RuleMatch, Identity

CONSTANTS
    Defaults,   \* setDefaults: a configuration
    Env         \* the QUOTA_... variables that are set: a document

Keys == {"target", "failOpen", "identity", "rules"}

(* The environment goes before the file, the file before the defaults. *)
Unmarshalled(doc) ==
    [k \in Keys |-> IF k \in DOMAIN Env THEN Env[k]
                    ELSE IF k \in DOMAIN doc THEN doc[k] ELSE Defaults[k]]

-------------------------------------------------------------------------------
(* validateIdentityConfig. *)

Sources == {"header", "query", "cookie", "ip"}

GroupInRange_AnyGroup(ex) == TRUE

GroupInRange(ex) ==
    /\ ex.group >= 0
    /\ IF Direct(ex) THEN ex.group = 0 ELSE ex.group <= NumSubexp(ex.regex)

ValidExtractor(ex) ==
    /\ SourceOf(ex) \in Sources
    /\ SourceOf(ex) # "ip" => KeyOf(ex) # ""
    /\ ex.name # ""
    /\ ~Direct(ex) => Compiles(ex.regex)
    /\ GroupInRange(ex)

ValidIdentity(id) ==
    /\ Normalized(id.strategy) \in {"", "header_priority", "merge_all"}
    /\ \A i \in DOMAIN id.extractors : ValidExtractor(id.extractors[i])

(* validateQuotaRules.  The window's unit may be in capitals, not padded. *)
ValidMatcher(m) ==
    m # NoMatcher => m.include \cup m.exclude # {} /\ MatcherCompiles(m)

UniqueNames_Any(rules) == TRUE
UniqueNames(rules) ==
    \A i, j \in DOMAIN rules : rules[i].name = rules[j].name => i = j

ValidRule(rule) ==
    /\ Word(ToLower(rule.window)) \in {"minute", "hour", "day"}
    /\ rule.count >= 1
    /\ \A d \in Domains : ValidMatcher(rule.match[d])

ValidRules(rules) ==
    UniqueNames(rules) /\ \A i \in DOMAIN rules : ValidRule(rules[i])

Validate(c) == ValidIdentity(c.identity) /\ ValidRules(c.rules)

-------------------------------------------------------------------------------
(* What the rest of the program takes for granted of a configuration: no   *)
(* extractor panics or looks where nothing is, each rule is matched by its *)
(* own expressions, and every window can be computed.                      *)

UsableExtractor(ex) ==
    /\ ~Direct(ex) => Compiles(ex.regex) /\ ex.group \in 0..NumSubexp(ex.regex)
    /\ \/ SourceOf(ex) = "ip"
       \/ SourceOf(ex) \in {"header", "query", "cookie"} /\ KeyOf(ex) # ""

Usable(c) ==
    /\ \A i \in DOMAIN c.identity.extractors : UsableExtractor(c.identity.extractors[i])
    /\ Strategy(c.identity) \in {"header_priority", "merge_all"}
    /\ \A i \in DOMAIN c.rules :
          LET rule == c.rules[i]
          IN  /\ MatcherOf(c.rules, rule.name) = rule.match
              /\ \A d \in Domains : MatcherCompiles(rule.match[d])
              /\ rule.window[1] \in {"minute", "hour", "day"} /\ rule.count > 0

===============================================================================
