------------------------ MODULE MCRedemptionService ------------------------
(***************************************************************************)
(* A small instance of RedemptionService: one student, two QR tokens, a    *)
(* reward item of which there are two units and one of which there is one. *)
(***************************************************************************)
EXTENDS RedemptionService, TLC

CONSTANTS p1, p2, p3, w1, e1, r1, r2, v1, t1, t2, i1, i2

Call(k, t, i) == [key |-> k, token |-> t, item |-> i]
Earn(k, n) == [op |-> "earn", key |-> k, wallet |-> w1, amount |-> n,
               credit |-> TRUE, original |-> k]
Reverse(k, o) == [Earn(k, 0) EXCEPT !.op = "reversal", !.original = o]

AllStudents == [t \in Tokens |-> w1]
Price1 == [i \in Items |-> 1]
Units == [i \in Tracked |-> IF i = i1 THEN 2 ELSE 1]

(* Two calls compete for the one unit of i2; of the two for i1 one may be  *)
(* reversed while the other holds the row of the item. Each key comes with *)
(* both tokens and each token under both keys.                             *)
FourCalls == {Call(r1, t1, i1), Call(r2, t2, i1),
              Call(r2, t1, i2), Call(r1, t2, i2)}

(* What the ledger is asked besides redemptions. *)
EarnTwo == {LedgerCall(c) : c \in Calls} \cup {Earn(e1, 2), Reverse(v1, r1)}

Symmetry == Permutations(Workers)

(* No guard reads what a worker last answered: states that differ in that  *)
(* alone have the same future.                                             *)
ButAnswers == <<store, active, locks, pc, req, creditSum, row,
                shop, shopLocks, rpc, call, pending, before, after>>
=============================================================================
