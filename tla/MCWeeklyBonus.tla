---------------------------- MODULE MCWeeklyBonus ----------------------------
(***************************************************************************)
(* Two students, a week of two days, and a campus east of Greenwich, whose *)
(* mornings are on the UTC date before.  A run on the Monday 4 scores the  *)
(* week 2..3 of UTC.  The first student came in the afternoon of day 3 and *)
(* in the morning of the next Monday, both on the UTC date 3, which earns  *)
(* the bonus; the second one has one posted day.                           *)
(***************************************************************************)
EXTENDS WeeklyBonus, TLC

CONSTANTS p1, p2, w1, w2, d1, d2, e1, e2, b1, b2, x2, y1, v1, att, bonus

Event(w, d, k, s) ==
    [wallet |-> w, rule |-> att, day |-> d,
     tx |-> IF s = "posted" THEN k ELSE Null, status |-> s]
(* The second day of w2 is pending; or w2 came in the morning and in the   *)
(* afternoon of one day, which are two UTC dates, and on the afternoon of  *)
(* the next Monday, which is in the next week of UTC too.                  *)
PendingDay == [e2 |-> Event(w2, 4, e2, "pending"), x2 |-> Null]
TwiceADay == [e2 |-> Event(w2, 3, e2, "posted"),
              x2 |-> Event(w2, 4, x2, "posted")]
History(second) ==
    [k \in Keys |-> CASE k = d1 -> Event(w1, 3, d1, "posted")
                      [] k = d2 -> Event(w1, 4, d2, "posted")
                      [] k = e1 -> Event(w2, 3, e1, "posted")
                      [] k = e2 -> second.e2
                      [] k = x2 -> second.x2
                      [] OTHER -> Null]
BothHistories == {History(PendingDay), History(TwiceADay)}
Created == [k \in Keys |-> CASE k = e1 -> 2 [] k \in {d1, d2, e2} -> 3
                            [] OTHER -> 4]
East == {-1, 0}

Bonus == [w \in Wallets |-> [d \in Days |->
            CASE d # 2 -> v1 [] w = w1 -> b1 [] w = w2 -> b2]]
(* A key nobody uses, and one an administrator happens to use.             *)
Plain == [w \in Wallets |-> [d \in Days |-> IF w = w1 THEN y1 ELSE v1]]
Approve == [kind |-> "approve", key |-> e2, wallet |-> w2, rule |-> att]
Approvals == {Approve}
Earn(k, w) == [op |-> "earn", key |-> k, wallet |-> w, amount |-> 1,
               credit |-> TRUE, original |-> k]
Reversal == [Earn(v1, w1) EXCEPT !.op = "reversal", !.original = d1]
Earns == {Earn(k, w) : k \in Keys, w \in Wallets}
ReversalOnly == Earns \cup {Reversal}
One == [r \in Rules |-> 1]
Unlimited == [r \in Rules |-> Null]
ApprovalKeys == [k \in Keys |-> IF k = e2 THEN x2 ELSE k]
Symmetry == Permutations(Workers)

(* No guard reads what a worker last answered: states that differ in that  *)
(* alone have the same future.                                             *)
ButAnswers == <<store, active, locks, pc, req, creditSum, row, event,
                eventLock, today, epc, call, startDay, sawActive, job>>
=============================================================================
