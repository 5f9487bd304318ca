----------------------------- MODULE MCAdminQuota -----------------------------
(***************************************************************************)
(* Instance of AdminQuota for TLC: one rule, and calls that name it, all   *)
(* rules, or a rule nobody configured.                                     *)
(***************************************************************************)
EXTENDS AdminQuota

CONSTANTS r1, r2, a1, alice

TwoReqs  == {r1, r2}
OneCall  == {a1}
OneIdent == {alice}

MCSecond    == 2
EightHours  == 8 * 60 * 60 * MCSecond
NoZoneTable == {}
MinuteEnd   == {80, 120}

Rule(window, count, limit) == [window |-> window, count |-> count, limit |-> limit]

Single  == [chat |-> Rule("minute", 1, 1)]
OneRule == <<"chat">>

MCRanks == [x \in Idents \cup Rules \cup {""} |->
               CASE x = "" -> 0 [] x = "burst" -> 1 [] x = "chat" -> 2 [] OTHER -> 3]

Asking(kind, rule) == [kind |-> kind, rule |-> rule]
EveryAsk == {Asking("status", "chat"), Asking("status", "gone"), Asking("list", ""),
             Asking("reset", "chat"), Asking("reset", ""),
             Asking("reject", ""), Asking("reject", "gone")}

AllFaults == {"lose", "drop", "crash"}

Symmetry == Permutations(Reqs)

===============================================================================
