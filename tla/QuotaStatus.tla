------------------------------ MODULE QuotaStatus ------------------------------
(***************************************************************************)
(* What the admin interface shows of a key's hash: the status of a rule,   *)
(* the rows of the listing, their order and their pages.                   *)
(***************************************************************************)
EXTENDS LuaScripts, SequencesExt

CONSTANT MaxInt     \* the largest int: 2^63 - 1 in the program

ASSUME MaxIntAssumption == MaxInt \in Nat

(* quotaStatusFromRedisResult, for the rule asked for. *)
Remaining(limit, success) == IF limit < success THEN 0 ELSE limit - success

Status_StoredLimit(rule, limit, h) ==
    [rule |-> rule, limit |-> h.limit, success |-> h.success, pending |-> h.pending,
     rejected |-> h.rejected, remaining |-> Remaining(h.limit, h.success)]

Status(rule, limit, h) ==
    [rule |-> rule, limit |-> limit, success |-> h.success, pending |-> h.pending,
     rejected |-> h.rejected, remaining |-> Remaining(limit, h.success)]

(* A row of the listing: the key's own rule name; the limit of that rule   *)
(* as configured now, or the one in the hash when no rule has the name.    *)
Row(k, ident, h, limits) ==
    LET limit  == IF h.rule \in DOMAIN limits THEN limits[h.rule] ELSE h.limit
        status == Status(h.rule, limit, h)
    IN  [key |-> k, ident |-> ident, rule |-> status.rule, limit |-> status.limit,
         success |-> status.success, pending |-> status.pending,
         rejected |-> status.rejected, remaining |-> status.remaining]

(* Rows are ordered by what remains, then identity, then rule name.        *)
(* rank orders identities and names as their strings are ordered.          *)
Precedes(rank, x, y) ==
    \/ x.remaining < y.remaining
    \/ /\ x.remaining = y.remaining
       /\ \/ rank[x.ident] < rank[y.ident]
          \/ x.ident = y.ident /\ rank[x.rule] < rank[y.rule]

(* The sort may leave rows of the same rank, the windows of one rule, in   *)
(* any order: these are the listings it may come to.                       *)
InOrder(rank, listing) ==
    \A i, j \in DOMAIN listing : i < j => ~Precedes(rank, listing[j], listing[i])

SortedRows(rows, rank) == {listing \in SetToSeqs(rows) : InOrder(rank, listing)}

(* A page number or size below one is replaced, a large size is cut. *)
PageNumber(page) == IF page < 1 THEN 1 ELSE page
PageSize(size) == IF size < 1 THEN 20 ELSE IF size > 200 THEN 200 ELSE size

(* The row a page starts after: the product keeps the width of an int. *)
Wrapped(n) == ((n + MaxInt + 1) % (2 * (MaxInt + 1))) - (MaxInt + 1)

PageStart(page, size) == Wrapped((PageNumber(page) - 1) * PageSize(size))

(* A start that wrapped below zero is no bound of a slice: the handler     *)
(* panics, and the recovery answers 500.                                   *)
Panics(page, size) == PageStart(page, size) < 0

PageOf_OneMore(rows, page, size) ==
    LET start == PageStart(page, size)
        end   == start + PageSize(size) + 1
    IN  SubSeq(rows, start + 1, IF end > Len(rows) THEN Len(rows) ELSE end)

(* Where it does not panic: beyond the last row a page is short or empty. *)
PageOf(rows, page, size) ==
    LET start == PageStart(page, size)
        end   == IF start + PageSize(size) > Len(rows) THEN Len(rows)
                                                       ELSE start + PageSize(size)
    IN  SubSeq(rows, start + 1, end)

===============================================================================
