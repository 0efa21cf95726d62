----------------------------- MODULE MCAccounts -----------------------------
(***************************************************************************)
(* A small instance of Accounts: registrations of one email in every role, *)
(* a legacy student and a legacy vendor to be approved, one number.        *)
(***************************************************************************)
EXTENDS Accounts, TLC

CONSTANTS e1, e2, e3, n1

Register(u, role, status) ==
    [op |-> "register", user |-> u, role |-> role, number |-> n1,
     full |-> TRUE, status |-> status]
SetStatus(u, status) == [Register(u, "student", status) EXCEPT !.op = "status"]

TestCalls ==
    { Register(e1, "student", "pending"), Register(e1, "vendor", "active"),
      Register(e1, "staff", "active"), Register(e1, "admin", "active"),
      [Register(e1, "vendor", "active") EXCEPT !.full = FALSE],
      [Register(e1, "student", "active") EXCEPT !.op = "student"],
      SetStatus(e1, "active"), SetStatus(e2, "active"),
      [SetStatus(e2, "active") EXCEPT !.full = FALSE],
      SetStatus(e2, "suspended"), SetStatus(e3, "active"),
      [Register(e1, "admin", "active") EXCEPT !.op = "ensure"] }

RoleOfLegacy == [u \in Legacy |-> IF u = e2 THEN "student" ELSE "vendor"]
Symmetry == Permutations(Workers)
=============================================================================
