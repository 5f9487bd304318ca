-------------------------------- MODULE Identity -------------------------------
(***************************************************************************)
(* Whom a request counts for (identity/identifier.go).                     *)
(*                                                                         *)
(* A configured text is a pair <<word, form>>, form being "plain",         *)
(* "padded" with blanks or in "CAPITALS".  An identity is the sequence of  *)
(* the name:value parts between its separators, wherever these come from:  *)
(* a value is not escaped, so one that has the separator in it shows as    *)
(* several parts; names of extractors are taken to have none.  <<>> is the *)
(* empty string.                                                           *)
(***************************************************************************)
EXTENDS Integers, SequencesExt

CONSTANTS
    NumSubexp(_),           \* capture groups of a regular expression
    FindSubmatch(_, _),     \* the matches of a regular expression in a text:
                            \* the whole match, then its groups; or <<>>
    SplitValue(_)           \* a value at its separators: the text before the
                            \* first one, and the parts that follow

NoText == <<"", "plain">>

TrimSpace(text) == IF text[2] = "padded" THEN <<text[1], "plain">> ELSE text
ToLower(text) == IF text[2] = "CAPITALS" THEN <<text[1], "plain">> ELSE text
Word(text) == IF text[2] = "plain" THEN text[1] ELSE "?"

Normalized(text) == Word(ToLower(TrimSpace(text)))

(* NewIdentifier; a regular expression that does not compile would panic. *)
Strategy(conf) == IF Normalized(conf.strategy) = "" THEN "header_priority"
                                                    ELSE Normalized(conf.strategy)

SourceOf(ex) == IF Normalized(ex.source) = "" THEN "header" ELSE Normalized(ex.source)
KeyOf(ex) == Word(TrimSpace(ex.key))
Direct(ex) == ex.regex = ""

(* What the request carries where the extractor looks: "" for nothing. *)
ReadRaw(in, ex) ==
    CASE SourceOf(ex) = "ip" -> in.ip
      [] SourceOf(ex) \in {"header", "query", "cookie"} /\ KeyOf(ex) # "" ->
            in.params[<<SourceOf(ex), KeyOf(ex)>>]
      [] OTHER -> ""

Nothing == [found |-> FALSE, value |-> ""]
Value(v) == [found |-> TRUE, value |-> v]

ExtractValue(in, ex) ==
    LET raw     == ReadRaw(in, ex)
        matches == FindSubmatch(ex.regex, raw)
    IN  IF raw = "" THEN Nothing
        ELSE IF Direct(ex) THEN Value(raw)
        ELSE IF ex.group >= Len(matches) THEN Nothing
        ELSE Value(matches[ex.group + 1])

(* name:value, as it reads in the joined string. *)
Part(name, value) == << <<name, SplitValue(value).first>> >> \o SplitValue(value).rest

Fallback(conf, in) == IF conf.fallback THEN Part("ip", in.ip) ELSE <<>>

Hits(conf, in) == {i \in DOMAIN conf.extractors : ExtractValue(in, conf.extractors[i]).found}

(* The first extractor that finds a value. *)
IdentifyPriority(conf, in) ==
    LET i == CHOOSE i \in Hits(conf, in) : \A j \in Hits(conf, in) : i <= j
    IN  Part(conf.extractors[i].name, ExtractValue(in, conf.extractors[i]).value)

(* Every extractor has its part, empty where it found nothing. *)
IdentifyMerge_ValuesOnly(conf, in) ==
    [i \in DOMAIN conf.extractors |-> <<"", ExtractValue(in, conf.extractors[1]).value>>]

IdentifyMerge(conf, in) ==
    FlattenSeq([i \in DOMAIN conf.extractors |->
        Part(conf.extractors[i].name, ExtractValue(in, conf.extractors[i]).value)])

Identify(conf, in) ==
    IF Hits(conf, in) = {} THEN Fallback(conf, in)
    ELSE IF Strategy(conf) = "merge_all" THEN IdentifyMerge(conf, in)
    ELSE IdentifyPriority(conf, in)

===============================================================================
