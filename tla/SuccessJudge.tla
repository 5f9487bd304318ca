------------------------------ MODULE SuccessJudge -----------------------------
(***************************************************************************)
(* When a response counts as a success (success/judge.go).                 *)
(*                                                                         *)
(* A body is what parsing it as a JSON object yields for the configured    *)
(* field: kind "empty", "invalid", "missing", "number" (in tenths, so that *)
(* fractions are told apart), "string" (the number it spells), or "other". *)
(***************************************************************************)
EXTENDS Integers

Ok2xx(status) == 200 <= status /\ status < 300

(* StatusCodeJudge, and isSSEStatusSuccess for streams. *)
StatusSuccess(rule, status) == IF rule.require2xx THEN Ok2xx(status) ELSE status < 400

(* int(v) cuts a fraction off, towards zero. *)
Truncated(tenths) == IF tenths >= 0 THEN tenths \div 10 ELSE -((-tenths) \div 10)

(* JSONFieldJudge: without require_http_2xx any status will do. *)
FieldSuccess(rule, status, doc) ==
    /\ rule.require2xx => Ok2xx(status)
    /\ \/ doc.kind = "number" /\ Truncated(doc.tenths) = rule.expected
       \/ doc.kind = "string" /\ doc.spells = rule.expected

IsSuccess(rule, status, doc) ==
    IF rule.mode = "json_field" THEN FieldSuccess(rule, status, doc)
                                ELSE StatusSuccess(rule, status)

===============================================================================
