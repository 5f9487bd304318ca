------------------------------- MODULE RuleMatch -------------------------------
(***************************************************************************)
(* How a request finds its rule: path patterns, the regular expressions of *)
(* request_match, and the compilation of both (middleware/quota.go).       *)
(*                                                                         *)
(* Patterns, paths, regular expressions and the canonical texts they are   *)
(* matched with are values; what Go's libraries say of them is given by    *)
(* the CONSTANT operators.                                                 *)
(***************************************************************************)
EXTENDS Integers, Sequences

CONSTANTS
    HasPrefix(_, _),    \* strings.HasPrefix(path, text)
    Glob(_, _),         \* filepath.Match(pattern, path)
    EndsInStars(_),     \* the pattern ends in "**"
    TrimStars(_),       \* strings.TrimSuffix(pattern, "**")
    HasWildcard(_),     \* the pattern contains one of * ? [
    Compiles(_),        \* regexp.Compile succeeds
    MatchString(_, _)   \* the regular expression matches the text

-------------------------------------------------------------------------------
(* Path patterns. *)

CompilePath(pattern) ==
    IF EndsInStars(pattern)
    THEN [raw |-> pattern, kind |-> "doublestar", prefix |-> TrimStars(pattern)]
    ELSE [raw |-> pattern, kind |-> IF HasWildcard(pattern) THEN "glob" ELSE "prefix",
          prefix |-> pattern]

(* A glob that does not match still counts as a plain prefix. *)
PathMatches(p, path) ==
    \/ p.kind = "glob" /\ Glob(p.raw, path)
    \/ HasPrefix(path, p.prefix)

AnyPathMatches(patterns, path) ==
    \E i \in DOMAIN patterns : PathMatches(CompilePath(patterns[i]), path)

-------------------------------------------------------------------------------
(* The matcher of one domain: NoMatcher where the rule has none. *)

NoMatcher == <<>>
Domains == {"form", "json", "headers", "ip"}

MatcherCompiles(m) ==
    m # NoMatcher => \A re \in m.include \cup m.exclude : Compiles(re)

Accepts_IncludeWins(m, canonical) ==
    \/ m = NoMatcher
    \/ \E re \in m.include : MatchString(re, canonical)
    \/ m.include = {} /\ \A re \in m.exclude : ~MatchString(re, canonical)

(* An include must match, if there is one, and no exclude may. *)
Accepts(m, canonical) ==
    m # NoMatcher =>
       /\ m.include # {} => \E re \in m.include : MatchString(re, canonical)
       /\ \A re \in m.exclude : ~MatchString(re, canonical)

(* The matchers are kept by rule name: of two rules with one name, the     *)
(* later rule's.                                                           *)
MatcherOf(rules, name) ==
    rules[CHOOSE i \in DOMAIN rules :
              /\ rules[i].name = name
              /\ \A j \in DOMAIN rules : rules[j].name = name => j <= i].match

===============================================================================
