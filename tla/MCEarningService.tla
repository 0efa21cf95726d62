-------------------------- MODULE MCEarningService --------------------------
(***************************************************************************)
(* Small instances of EarningService: a rule that posts at once and one   *)
(* that needs approval, two days of one week.                              *)
(***************************************************************************)
EXTENDS EarningService, TLC

CONSTANTS p1, p2, w1, w2, k1, k2, a1, a2, v1, fast, slow

Issue(k, w, r) == [kind |-> "issue", key |-> k, wallet |-> w, rule |-> r]
Decide(kind, k) == [Issue(k, w1, slow) EXCEPT !.kind = kind]

(* Two staff members reward one student; one of them reuses the key for    *)
(* another student.                                                        *)
Immediate == {Issue(k1, w1, fast), Issue(k2, w1, fast), Issue(k1, w2, fast)}
TwoImmediate == {Issue(k1, w1, fast), Issue(k2, w1, fast)}
(* Two rewards that need approval, one of them beside one that does not,   *)
(* and both decisions on the other.                                        *)
Decided == {Issue(k1, w1, slow), Issue(k2, w1, slow), Issue(k2, w1, fast),
            Decide("approve", k1), Decide("reject", k1)}

One == [r \in Rules |-> 1]
Unlimited == [r \in Rules |-> Null]
ApprovalKeys == [k \in Keys |->
    CASE k = k1 /\ a1 \in Keys -> a1
      [] k = k2 /\ a2 \in Keys -> a2
      [] OTHER -> k]

Reverse(o) == [op |-> "reversal", key |-> v1, wallet |-> w1, amount |-> 1,
               credit |-> FALSE, original |-> o]
Earn(k, w) == [op |-> "earn", key |-> k, wallet |-> w, amount |-> 1,
               credit |-> TRUE, original |-> k]
Earns == {Earn(k, w) : k \in {k1, k2, a1, a2} \cap Keys, w \in Wallets}
ReverseIssued == Earns \cup {Reverse(k1)}
ReverseApproved == Earns \cup {Reverse(a1)}

Symmetry == Permutations(Workers)

(* No guard reads what a worker last answered: states that differ in that  *)
(* alone have the same future.                                             *)
ButAnswers == <<store, active, locks, pc, req, creditSum, row,
                event, eventLock, today, epc, call, startDay, sawActive>>
=============================================================================
