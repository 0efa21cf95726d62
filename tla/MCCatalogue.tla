---------------------------- MODULE MCCatalogue -----------------------------
(***************************************************************************)
(* A small instance of Catalogue: an item of two units at two prices, and  *)
(* a rule.                                                                 *)
(***************************************************************************)
EXTENDS Catalogue, TLC

CONSTANTS i1, c1

Row(price, count, active) == [price |-> price, count |-> count, active |-> active]
Body(thing, set, to) == [of |-> thing, set |-> set, to |-> to]

(* The item is created, repriced, repriced and withdrawn at once, restored *)
(* to two units, no longer counted; the rule is created and switched off.  *)
TestBodies ==
    { Body(i1, Fields, Row(1, 2, TRUE)),
      Body(i1, {"price"}, Row(2, Null, TRUE)),
      Body(i1, {"price", "active"}, Row(2, Null, FALSE)),
      Body(i1, {"active"}, Row(1, Null, TRUE)),
      Body(i1, {"count"}, Row(1, Null, TRUE)),
      Body(c1, {"price", "active"}, Row(1, Null, TRUE)),
      Body(c1, {"active"}, Row(1, Null, FALSE)) }

Symmetry == Permutations(Workers)
=============================================================================
