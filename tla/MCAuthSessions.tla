--------------------------- MODULE MCAuthSessions ---------------------------
(***************************************************************************)
(* A small instance of AuthSessions.                                       *)
(***************************************************************************)
EXTENDS AuthSessions, TLC

Symmetry == Permutations(Workers) \cup Permutations(Users)
=============================================================================
