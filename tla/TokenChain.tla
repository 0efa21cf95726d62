----------------------------- MODULE TokenChain -----------------------------
(***************************************************************************)
(* What the refresh tokens of app/services/auth_service.py promise: a      *)
(* login opens a chain of single-use tokens, of which at most the newest   *)
(* is ever good.  A chain that has lost its token stays closed.            *)
(***************************************************************************)
CONSTANT Tokens

VARIABLES
    live,  \* the good tokens of the chain a login opened with a token
    used   \* the tokens ever handed out

chainVars == <<live, used>>

ChainInit ==
    /\ live = [f \in Tokens |-> {}]
    /\ used = {}

(* A login: the chain is known by its first token. *)
Open(t) ==
    /\ t \notin used
    /\ used' = used \cup {t}
    /\ live' = [live EXCEPT ![t] = {t}]

(* A refresh: the one good token of the chain is spent for a new one. *)
Rotate(f, t) ==
    /\ live[f] # {}
    /\ t \notin used
    /\ used' = used \cup {t}
    /\ live' = [live EXCEPT ![f] = {t}]

(* A logout closes one chain, a password change may close several. *)
Close(F) ==
    /\ live' = [f \in Tokens |-> IF f \in F THEN {} ELSE live[f]]
    /\ UNCHANGED used

ChainNext ==
    \/ \E t \in Tokens : Open(t)
    \/ \E f, t \in Tokens : Rotate(f, t)
    \/ \E F \in SUBSET Tokens : Close(F)

ChainSpec == ChainInit /\ [][ChainNext]_chainVars
=============================================================================
