------------------------------ MODULE LuaScripts ------------------------------
(***************************************************************************)
(* The Lua scripts of app/quota/lua_scripts.go.  Redis runs a script       *)
(* without interleaving another, so each script is an operator from the    *)
(* hash stored under its key to the hash it leaves there.                  *)
(*                                                                         *)
(* A hash keeps the counters, the rule name and the limit.  The fields     *)
(* window, window_count and period_key are determined by the rule and the  *)
(* key and are left out.  A key that does not exist is NoHash: HGET then   *)
(* answers nil, which every script reads as 0 or ''.                       *)
(*                                                                         *)
(* A definition named after another, with an underscore, is that one with  *)
(* a plausible mistake in it: it is used by no specification, and shows in *)
(* a run of its own that the properties would notice the mistake.          *)
(***************************************************************************)
EXTENDS Integers

NoExpiry == -1      \* what TTL answers for a key that will never expire

NoHash == [live     |-> FALSE,     rule     |-> "",
           limit    |-> 0,         success  |-> 0,
           pending  |-> 0,         rejected |-> 0,
           expireAt |-> NoExpiry]

Hash(rules) == [live     : BOOLEAN,  rule     : rules \cup {""},
                limit    : Int,      success  : Int,
                pending  : Nat,      rejected : Nat,
                expireAt : Int]

-------------------------------------------------------------------------------
(* TryReserveScript.  The branch is taken on the counters found; the       *)
(* metadata and the expiry are written on both branches.                   *)

Granted_AtLimit(h, limit) == h.success + h.pending <= limit
Granted_SuccessOnly(h, limit) == h.success < limit

Granted(h, limit) == h.success + h.pending < limit

TryReserveScript_ExpireOnReject(h, rule, limit, deadline) ==
    LET meta == [h EXCEPT !.live = TRUE, !.rule = rule, !.limit = limit]
    IN  IF Granted(h, limit)
        THEN [meta EXCEPT !.pending = @ + 1]
        ELSE [meta EXCEPT !.rejected = @ + 1, !.expireAt = deadline]

TryReserveScript(h, rule, limit, deadline) ==
    LET meta == [h EXCEPT !.live = TRUE, !.rule = rule, !.limit = limit,
                          !.expireAt = deadline]
    IN  IF Granted(h, limit)
        THEN [meta EXCEPT !.pending = @ + 1]
        ELSE [meta EXCEPT !.rejected = @ + 1]

(* Decrement pending, never below zero. *)
ReleasePending_Unguarded(h) == [h EXCEPT !.pending = @ - 1]

ReleasePending(h) == IF h.pending > 0 THEN [h EXCEPT !.pending = @ - 1] ELSE h

(* HINCRBY creates the key when it does not exist, and sets no expiry. *)
ConfirmScript_KeepPending(h) == [h EXCEPT !.live = TRUE, !.success = @ + 1]

ConfirmScript(h) ==
    LET freed == ReleasePending(h)
    IN  [freed EXCEPT !.live = TRUE, !.success = @ + 1]

RollbackScript_All(h) == [h EXCEPT !.pending = 0]

RollbackScript(h) == ReleasePending(h)

-------------------------------------------------------------------------------
(* The scripts of the admin operations.  A rejected key counts its limit   *)
(* as used up; HSET creates the key, and the field limit is not written.   *)
(* GetQuotaScript returns the fields as they are: it needs no operator.    *)

RejectScript_PendingOnly(h, limit, deadline) ==
    [h EXCEPT !.live = TRUE, !.pending = limit, !.expireAt = deadline]
RejectScript_AddLimit(h, limit, deadline) ==
    [h EXCEPT !.live = TRUE, !.success = @ + limit, !.pending = 0,
              !.expireAt = deadline]
RejectScript_NoExpire(h, limit, deadline) ==
    [h EXCEPT !.live = TRUE, !.success = limit, !.pending = 0]

RejectScript(h, limit, deadline) ==
    [h EXCEPT !.live = TRUE, !.success = limit, !.pending = 0,
              !.expireAt = deadline]

ResetScript(h) == NoHash

===============================================================================
