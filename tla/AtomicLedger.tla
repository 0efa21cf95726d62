---------------------------- MODULE AtomicLedger ----------------------------
(***************************************************************************)
(* What the ledger promises, without sessions, statements or locks: a      *)
(* transaction is posted, or a posted transaction is reversed, in one      *)
(* step; a key is used once; a step that debits a student account finds    *)
(* the credits there; nothing posted ever changes but for the mark that    *)
(* its one reversal leaves on it.                                          *)
(***************************************************************************)
EXTENDS Integers

CONSTANTS Wallets, Keys, Amounts, Null

SystemAccounts == {"rewards_pool", "vendor_revenue", "system_adjustment"}
Accounts == Wallets \cup SystemAccounts

Types == {"earn", "redeem", "adjustment", "reversal"}
TxRecord == [type: Types, debit: Accounts, credit: Accounts,
             amount: Nat \ {0}, status: {"posted", "reversed"},
             reverses: Keys \cup {Null}]

VARIABLES ledger, credited, debited
vars == <<ledger, credited, debited>>

Init ==
    /\ ledger = [k \in Keys |-> Null]
    /\ credited = [a \in Accounts |-> 0]
    /\ debited = [a \in Accounts |-> 0]

(* The entries of a transaction are booked; a wallet pays only from what   *)
(* it has.                                                                 *)
Book(debit, credit, amount) ==
    /\ debit \in Wallets => amount <= credited[debit] - debited[debit]
    /\ credited' = [credited EXCEPT ![credit] = @ + amount]
    /\ debited' = [debited EXCEPT ![debit] = @ + amount]

Entry(type, debit, credit, amount, reverses) ==
    [type |-> type, debit |-> debit, credit |-> credit, amount |-> amount,
     status |-> "posted", reverses |-> reverses]

Post(k, type, debit, credit, amount) ==
    /\ ledger[k] = Null
    /\ Book(debit, credit, amount)
    /\ ledger' = [ledger EXCEPT ![k] = Entry(type, debit, credit, amount, Null)]

Reverse(k, o) ==
    /\ ledger[k] = Null
    /\ ledger[o] # Null
    /\ ledger[o].status = "posted"
    /\ Book(ledger[o].credit, ledger[o].debit, ledger[o].amount)
    /\ ledger' = [ledger EXCEPT
         ![k] = Entry("reversal", ledger[o].credit, ledger[o].debit,
                      ledger[o].amount, o),
         ![o].status = "reversed"]

(* The account a posting debits and the one it credits, by type. *)
Routes(w) ==
    { <<"earn", "rewards_pool", w>>, <<"redeem", w, "vendor_revenue">>,
      <<"adjustment", "system_adjustment", w>>,
      <<"adjustment", w, "system_adjustment">> }

Next ==
    \E k \in Keys :
        \/ \E w \in Wallets : \E t \in Routes(w) :
              \E n \in Amounts \ {0} : Post(k, t[1], t[2], t[3], n)
        \/ \E o \in Keys : Reverse(k, o)

Spec == Init /\ [][Next]_vars
=============================================================================
