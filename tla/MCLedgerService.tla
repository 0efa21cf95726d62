-------------------------- MODULE MCLedgerService --------------------------
(***************************************************************************)
(* Small instances of LedgerService.                                       *)
(***************************************************************************)
EXTENDS LedgerService, TLC

CONSTANTS p1, p2, p3, w1, w2, e1, e2, r1, a1, v1, v2, v3

Earn(k, w, n) == [op |-> "earn", key |-> k, wallet |-> w, amount |-> n,
                  credit |-> TRUE, original |-> k]
Redeem(k, w, n) == [Earn(k, w, n) EXCEPT !.op = "redeem", !.credit = FALSE]
Adjust(k, w, n, c) == [Earn(k, w, n) EXCEPT !.op = "adjustment", !.credit = c]
Reverse(k, w, o) == [Earn(k, w, 0) EXCEPT !.op = "reversal", !.original = o]

(* One wallet; among the requests of one type a key has one meaning.  Two  *)
(* administrators reverse the same redemption under keys of their own.     *)
OwnKeys == { Earn(e1, w1, 2), Redeem(r1, w1, 1), Redeem(e1, w1, 1),
             Adjust(a1, w1, 2, FALSE), Reverse(v1, w1, e1),
             Reverse(v2, w1, r1), Reverse(v3, w1, r1) }

(* Administrators who pick the same key for different things, and an earn  *)
(* by a rule whose amount is rounded to nothing (NUMERIC(18,2)).           *)
SharedKeys == { Earn(e1, w1, 1), Redeem(r1, w1, 1),
                Adjust(a1, w1, 1, TRUE), Adjust(a1, w1, 1, FALSE),
                Earn(v1, w1, 0),
                Reverse(a1, w1, r1), Reverse(a1, w1, e1), Reverse(v1, w1, a1) }

TwoReversals == { Earn(e1, w1, 1), Earn(e2, w1, 1),
                  Reverse(v1, w1, e1), Reverse(v1, w1, e2) }
ReversalOfReversal == { Earn(e1, w1, 1), Redeem(r1, w1, 1),
                        Reverse(v1, w1, r1), Reverse(v2, w1, v1) }

Symmetry == Permutations(Workers)

(* No guard reads what a worker last answered: states that differ in that  *)
(* alone have the same future.                                             *)
ButOutcomes == <<store, active, locks, pc, req, creditSum, row>>

=============================================================================
