-------------------------- MODULE RedemptionProofs --------------------------
(***************************************************************************)
(* Redemptions run the ledger's statements inside longer transactions of   *)
(* their own.  Seen from the ledger they are some of its behaviours, so    *)
(* what LedgerProofs and ReversalProofs prove of the ledger holds of the   *)
(* shop as well; and on top of it the stock, the QR sessions and the       *)
(* receipts add up.                                                        *)
(***************************************************************************)
EXTENDS RedemptionService, ReversalProofs, FiniteSetTheorems

USE AmountsAssumption, RequestsAssumption, AccountsAssumption, NullAssumption,
    CallsAssumption

(* A redemption that ends early gives the ledger back untouched. *)
LEMMA FailsIsLedgerStep ==
    ASSUME NEW p \in Workers, NEW a, Fails(p, a)
    PROVE  [Next]_vars
<1>1. CASE pc[p] = "idle"
  BY <1>1 DEF Fails, LedgerGivesUp
<1>2. CASE pc[p] # "idle"
  BY <1>2 DEF Fails, LedgerGivesUp, Next
<1> QED BY <1>1, <1>2

LEMMA LedgerStatementIsStep ==
    ASSUME NEW p \in Workers, LedgerStatement(p)
    PROVE  Next
BY DEF LedgerStatement, Step, Next

(* One step of redeem is at most one statement of the ledger. *)
LEMMA CallStepIsLedgerStep ==
    ASSUME NEW p \in Workers, CallStep(p)
    PROVE  [Next]_vars
<1>1. CASE FindReceipt(p) \/ Reserve(p) \/ MarkUsed(p)
  BY <1>1, FailsIsLedgerStep DEF FindReceipt, AnswerFromReceipt, Reserve, MarkUsed
<1>2. CASE LockSession(p)
  BY <1>2, FailsIsLedgerStep DEF LockSession, Next
<1>3. CASE LoadStudent(p)
  BY <1>3 DEF LoadStudent, Step, Next
<1>4. CASE ReadCredits(p) \/ ReadDebits(p) \/ ReadAfter(p)
  BY <1>4 DEF ReadCredits, ReadDebits, ReadAfter
<1>5. CASE Insert(p)
  <2>1. LedgerGivesUp(p) \/ UNCHANGED vars
    BY <1>5 DEF Insert
  <2> QED BY <2>1 DEF LedgerGivesUp, Next
<1>6. CASE Raced(p)
  BY <1>6, FailsIsLedgerStep DEF Raced, AnswerFromReceipt
<1>7. CASE Debit(p)
  BY <1>7, LedgerStatementIsStep DEF Debit
<1>8. CASE CommitCall(p)
  BY <1>8 DEF CommitCall, Step, Next
<1>9. CASE PlainLedger(p)
  <2>1. RequireActive(p) \/ ReversalKey(p) \/ LockOriginal(p) \/ LedgerStatement(p)
    BY <1>9 DEF PlainLedger
  <2> QED BY <2>1, LedgerStatementIsStep DEF Step, Next
<1>10. CASE RestoreInventory(p)
  BY <1>10 DEF RestoreInventory
<1>11. CASE CommitLedger(p)
  BY <1>11 DEF CommitLedger, Step, Next
<1> QED
  BY <1>1, <1>2, <1>3, <1>4, <1>5, <1>6, <1>7, <1>8, <1>9, <1>10, <1>11
  DEF CallStep

LEMMA ShopStepIsLedgerStep ==
    ASSUME [RNext]_<<vars, rvars>>
    PROVE  [Next]_vars
<1>1. CASE UNCHANGED <<vars, rvars>>
  BY <1>1
<1>2. ASSUME NEW p \in Workers,
             StartCall(p) \/ StartLedgerCall(p) \/ CallStep(p) \/ Dies(p) \/ Victim(p)
      PROVE  [Next]_vars
  <2>1. CASE StartCall(p)
    BY <2>1 DEF StartCall
  <2>2. CASE StartLedgerCall(p)
    BY <2>2 DEF StartLedgerCall, Next
  <2>3. CASE Dies(p) \/ Victim(p)
    BY <2>3, FailsIsLedgerStep DEF Dies, Victim
  <2> QED BY <1>2, <2>1, <2>2, <2>3, CallStepIsLedgerStep
<1>3. ASSUME NEW t \in Tokens, CreateSession(t) \/ Expire(t) \/ Purge(t)
      PROVE  [Next]_vars
  BY <1>3 DEF CreateSession, Expire, Purge
<1>4. ASSUME NEW w \in Wallets, FreezeWallet(w)
      PROVE  [Next]_vars
  BY <1>4 DEF FreezeWallet, Next
<1> QED BY <1>1, <1>2, <1>3, <1>4 DEF RNext

(* The redemption service, with its stock, sessions and receipts, is an    *)
(* implementation of the ledger (redeem, lines 151-177).                   *)
THEOREM ShopImplementsLedger == RSpec => ImplementsLedger
<1>1. RInit => Init
  BY DEF RInit
<1>2. [RNext]_<<vars, rvars>> => [Next]_vars
  BY ShopStepIsLedgerStep
<1> QED BY <1>1, <1>2, PTL DEF RSpec, ImplementsLedger, Spec

(* No redemption overdraws a student wallet, whatever runs beside it.      *)
THEOREM ShopSolvent == RSpec => []NonNegative
BY ShopImplementsLedger, Solvent DEF ImplementsLedger

-----------------------------------------------------------------------------
(* The invariant.                                                          *)

(* From lockSession on a redeem call has a ledger request ...              *)
InTransaction == {"loadStudent", "readCredits", "readDebits", "insert",
                  "markUsed", "debit", "readAfter", "commit"}
Reserved == InTransaction \cup {"lockSession"}
Inserted == {"markUsed", "debit", "readAfter", "commit"}

(* ... which is its own, and has posted a row when redeem goes on.         *)
CallUnderWay(p) ==
    /\ rpc[p] \in InTransaction => req[p] = LedgerCall(call[p])
    /\ rpc[p] = "loadStudent" => pc[p] = "requireActive"
    /\ rpc[p] = "debit" => pc[p] \in PastLock
    /\ rpc[p] \in {"readAfter", "commit"} => pc[p] = "commit" /\ row[p] # Null

(* A call past the reservation holds the row of its item, and there is a   *)
(* unit.                                                                   *)
HoldsUnit(p) ==
    rpc[p] \in Reserved /\ call[p].item \in Tracked =>
        itemLock[call[p].item] = p /\ stock[call[p].item] > 0

(* It holds its QR session, unused.                                        *)
HoldsSession(p) ==
    rpc[p] \in InTransaction =>
        /\ sessionLock[call[p].token] = p
        /\ session[call[p].token] \in {"valid", "expired"}

(* A redemption row that is not committed is under a key nobody committed. *)
KeyFree(p) ==
    /\ pending[p] <=> rpc[p] \in Inserted
    /\ pending[p] => receipt[call[p].key] = Null

(* The balance a call is about to print is the one it is about to leave.   *)
BalanceSeen(p) ==
    rpc[p] = "commit" =>
        LET w == StudentOf[call[p].token]
        IN after[p] = credited[w] - debited[w] - row[p].amount

CallOK(p) ==
    /\ CallUnderWay(p)
    /\ HoldsUnit(p)
    /\ HoldsSession(p)
    /\ KeyFree(p)
    /\ BalanceSeen(p)

OneInserter ==
    \A p, q \in Workers :
        pending[p] /\ pending[q] /\ call[p].key = call[q].key => p = q

ReceiptsCarried == \A k \in Keys : receipt[k] # Null => backing[k] # "none"

(* A QR session is used exactly if a receipt names it, and no two do.      *)
PaidOnce ==
    \A j, k \in Keys :
        receipt[j] # Null /\ receipt[k] # Null
            /\ receipt[j].token = receipt[k].token => j = k
UsedIsPaid ==
    \A t \in Tokens : session[t] = "used" <=>
        \E k \in Keys : receipt[k] # Null /\ receipt[k].token = t

Units(i) == {k \in Keys : Redeemed(k) /\ receipt[k].item = i}

ShopInvariant ==
    /\ RTypeOK
    /\ \A p \in Workers : CallOK(p)
    /\ OneInserter
    /\ ReceiptBacked /\ ReceiptsCarried
    /\ PaidOnce /\ UsedIsPaid
    /\ StockConserved /\ \A i \in Tracked : IsFiniteSet(Units(i))

(* What LedgerProofs and ReversalProofs say of every state.                *)
LedgerOK == BalanceInvariant /\ ReversalInvariant

-----------------------------------------------------------------------------
(* What a worker relies on between two statements.                         *)

LEMMA CallTyped ==
    ASSUME RTypeOK, NEW p \in Workers, rpc[p] # "none"
    PROVE  /\ call[p] \in Calls /\ call[p] \in CallType
           /\ call[p].key \in Keys /\ call[p].token \in Tokens
           /\ call[p].item \in Items
           /\ StudentOf[call[p].token] \in Wallets
           /\ Price[call[p].item] \in Amounts
           /\ LedgerCall(call[p]) \in Requests
           /\ LedgerCall(call[p]) # Null
BY DEF RTypeOK, CallType

(* The row of a redemption debits its student by the price.                *)
LEMMA RedemptionRow ==
    ASSUME LedgerOK, RTypeOK, NEW p \in Workers, CallOK(p),
           rpc[p] \in {"readAfter", "commit"}
    PROVE  /\ pc[p] = "commit" /\ req[p] = LedgerCall(call[p])
           /\ row[p] # Null /\ row[p].type = "redeem"
           /\ row[p].status = "posted"
           /\ row[p].amount = Price[call[p].item]
           /\ row[p].debit = StudentOf[call[p].token]
           /\ accountLock[StudentOf[call[p].token]] = p
<1>1. /\ pc[p] = "commit" /\ row[p] # Null
      /\ req[p] = LedgerCall(call[p])
  BY DEF CallOK, CallUnderWay, InTransaction
<1>2. /\ row[p].type = "redeem" /\ row[p].status = "posted"
      /\ row[p].amount = Price[call[p].item]
      /\ row[p].debit = StudentOf[call[p].token]
  BY <1>1, RowNamesOriginal DEF LedgerOK, LedgerCall, Amount, DebitAccount
<1>3. StudentOf[call[p].token] \in Wallets
  BY CallTyped
<1>4. accountLock[StudentOf[call[p].token]] = p
  BY <1>1, <1>2, <1>3 DEF LedgerOK, BalanceInvariant, LockedReadStands, Covered
<1> QED BY <1>1, <1>2, <1>4

(* Nobody else moves a worker's variables, its locks, the units and        *)
(* sessions under them, the sums of its locked account, or its key.        *)
CallUndisturbed(q) ==
    /\ pc'[q] = pc[q] /\ req'[q] = req[q] /\ row'[q] = row[q]
    /\ rpc'[q] = rpc[q] /\ call'[q] = call[q]
    /\ pending'[q] = pending[q] /\ after'[q] = after[q]
    /\ \A i \in Tracked : itemLock[i] = q => itemLock'[i] = q /\ stock'[i] = stock[i]
    /\ \A t \in Tokens : sessionLock[t] = q =>
          /\ sessionLock'[t] = q
          /\ session[t] \in {"valid", "expired"} => session'[t] \in {"valid", "expired"}
    /\ \A w \in Wallets : accountLock[w] = q =>
          credited'[w] = credited[w] /\ debited'[w] = debited[w]
    /\ pending[q] => receipt'[call[q].key] = Null

LEMMA CallUndisturbedStep ==
    ASSUME LedgerOK, RTypeOK, NEW q \in Workers, CallOK(q), CallUndisturbed(q)
    PROVE  CallOK(q)'
<1> USE DEF CallUndisturbed
<1>1. CallUnderWay(q)'
  BY DEF CallOK, CallUnderWay, LedgerCall
<1>2. HoldsUnit(q)'
  BY DEF CallOK, HoldsUnit
<1>3. HoldsSession(q)'
  <2>1. rpc[q] \in InTransaction => call[q].token \in Tokens
    BY CallTyped DEF InTransaction
  <2> QED BY <2>1 DEF CallOK, HoldsSession
<1>4. KeyFree(q)'
  BY DEF CallOK, KeyFree
<1>5. BalanceSeen(q)'
  <2> SUFFICES ASSUME rpc[q] = "commit" PROVE BalanceSeen(q)'
    BY DEF BalanceSeen
  <2>1. StudentOf[call[q].token] \in Wallets
    BY CallTyped
  <2>2. accountLock[StudentOf[call[q].token]] = q
    BY RedemptionRow
  <2> QED BY <2>1, <2>2 DEF CallOK, BalanceSeen
<1> QED BY <1>1, <1>2, <1>3, <1>4, <1>5 DEF CallOK

(* The stock, by the units that receipts in force took.                    *)
LEMMA StockByUnits ==
    /\ StockConserved <=>
         \A i \in Tracked : /\ stock[i] >= 0
                           /\ stock[i] + Cardinality(Units(i)) = InitialStock[i]
    /\ StockConserved' <=>
         \A i \in Tracked : /\ stock'[i] >= 0
                           /\ stock'[i] + Cardinality(Units(i)') = InitialStock[i]
BY DEF StockConserved, Units

(* A step of p that commits nothing preserves the invariant if it leaves p *)
(* in order, the others alone, and inserts a redemption only under a key   *)
(* nobody else is inserting.                                               *)
LEMMA QuietShop ==
    ASSUME LedgerOK, ShopInvariant, NEW p \in Workers,
           UNCHANGED <<store, shop>>, RTypeOK', CallOK(p)',
           \A q \in Workers \ {p} :
              /\ pc'[q] = pc[q] /\ req'[q] = req[q] /\ row'[q] = row[q]
              /\ rpc'[q] = rpc[q] /\ call'[q] = call[q]
              /\ pending'[q] = pending[q] /\ after'[q] = after[q]
              /\ \A i \in Tracked : itemLock[i] = q => itemLock'[i] = q
              /\ \A t \in Tokens : sessionLock[t] = q => sessionLock'[t] = q,
           pending'[p] =>
              \/ pending[p] /\ call'[p] = call[p]
              \/ \A q \in Workers \ {p} :
                    pending[q] => call[q].key # call'[p].key
    PROVE  ShopInvariant'
<1> USE DEF store, shop
<1>1. \A q \in Workers : CallOK(q)'
  <2> SUFFICES ASSUME NEW q \in Workers \ {p} PROVE CallOK(q)'
    OBVIOUS
  <2>1. CallUndisturbed(q)
    BY DEF CallUndisturbed, ShopInvariant, CallOK, KeyFree
  <2> QED BY <2>1, CallUndisturbedStep DEF ShopInvariant
<1>2. OneInserter'
  BY DEF ShopInvariant, OneInserter
<1>3. ReceiptBacked' /\ ReceiptsCarried'
  BY DEF ShopInvariant, ReceiptBacked, ReceiptsCarried, Redeemed
<1>4. PaidOnce' /\ UsedIsPaid'
  BY DEF ShopInvariant, PaidOnce, UsedIsPaid
<1>5. StockConserved' /\ \A i \in Tracked : IsFiniteSet(Units(i))'
  <2>1. \A i \in Tracked : Units(i)' = Units(i)
    BY DEF Units, Redeemed
  <2> QED BY <2>1, StockByUnits DEF ShopInvariant
<1> QED BY <1>1, <1>2, <1>3, <1>4, <1>5 DEF ShopInvariant

(* A statement of the ledger moves one session.                            *)
LEMMA OneSessionMoves ==
    ASSUME TypeOK, NEW p \in Workers, NEW q \in Workers \ {p},
           Begin(p) \/ Step(p) \/ \E a : Rollback(p, a)
    PROVE  pc'[q] = pc[q] /\ req'[q] = req[q] /\ row'[q] = row[q]
<1> USE DEF TypeOK, Goto, EndTransaction
<1>1. CASE \E a : EndTransaction(p, a)
  BY <1>1
<1>2. CASE Begin(p)
  BY <1>2 DEF Begin
<1>3. CASE RequireActive(p) \/ LockAccount(p) \/ SumCredits(p) \/ SumDebits(p)
  BY <1>1, <1>3 DEF RequireActive, LockAccount, SumCredits, SumDebits, Rollback
<1>4. CASE ReversalKey(p) \/ LockOriginal(p) \/ ExistingKey(p)
  BY <1>1, <1>4 DEF ReversalKey, LockOriginal, ExistingKey, Rollback
<1>5. CASE InsertRow(p) \/ InsertEntries(p)
  BY <1>1, <1>5 DEF InsertRow, InsertEntries, Rollback
<1>6. CASE Commit(p)
  BY <1>1, <1>6 DEF Commit
<1> QED BY <1>1, <1>2, <1>3, <1>4, <1>5, <1>6 DEF Step, Rollback

LEMMA StatementsStoreNothing ==
    ASSUME NEW p \in Workers,
           \/ Begin(p) \/ RequireActive(p) \/ ReversalKey(p) \/ LockOriginal(p)
           \/ LedgerStatement(p) \/ \E a : Rollback(p, a)
    PROVE  UNCHANGED store
BY DEF Begin, RequireActive, ReversalKey, LockOriginal, LedgerStatement,
   LockAccount, SumCredits, SumDebits, ExistingKey, InsertRow, InsertEntries, Rollback

(* The ledger's share of a rollback.                                       *)
LEMMA GivesUp ==
    ASSUME TypeOK, NEW p \in Workers, LedgerGivesUp(p)
    PROVE  /\ UNCHANGED store
           /\ pc'[p] = "idle" /\ req'[p] = Null
           /\ \A q \in Workers \ {p} :
                 pc'[q] = pc[q] /\ req'[q] = req[q] /\ row'[q] = row[q]
<1>1. CASE pc[p] = "idle"
  BY <1>1 DEF LedgerGivesUp, vars, local, TypeOK
<1>2. CASE pc[p] # "idle"
  <2>1. Rollback(p, "lost")
    BY <1>2 DEF LedgerGivesUp, Crash
  <2>2. pc'[p] = "idle" /\ req'[p] = Null
    BY <2>1 DEF Rollback, EndTransaction, TypeOK
  <2> QED BY <2>1, <2>2, OneSessionMoves, StatementsStoreNothing
<1> QED BY <1>1, <1>2

(* The locks of the others survive the end of a call.                      *)
LEMMA UnlockFreesOwn ==
    ASSUME NEW p \in Workers, NEW q \in Workers \ {p}, Unlock(p)
    PROVE  /\ \A i \in Tracked : itemLock[i] = q => itemLock'[i] = q
           /\ \A t \in Tokens : sessionLock[t] = q => sessionLock'[t] = q
BY DEF Unlock

Answers == {"none", "receipt", "refused", "lost"}

(* A call that is over, whatever became of its ledger request, keeps       *)
(* nothing.                                                                *)
LEMMA EndCallStep ==
    ASSUME RTypeOK, NEW p \in Workers, NEW a \in Answers, EndCall(p, a),
           stock' \in [Tracked -> Int],
           session' \in [Tokens -> {"none", "valid", "expired", "used"}],
           receipt' \in [Keys -> ReceiptType \cup {Null}],
           req'[p] = Null,
           \A q \in Workers \ {p} : pc'[q] = pc[q] /\ req'[q] = req[q]
    PROVE  /\ RTypeOK'
           /\ CallOK(p)'
           /\ ~pending'[p]
           /\ \A q \in Workers \ {p} :
                /\ rpc'[q] = rpc[q] /\ call'[q] = call[q]
                /\ pending'[q] = pending[q] /\ after'[q] = after[q]
                /\ \A i \in Tracked : itemLock[i] = q => itemLock'[i] = q
                /\ \A t \in Tokens : sessionLock[t] = q => sessionLock'[t] = q
<1> USE DEF EndCall
<1>1. rpc'[p] = "none" /\ call'[p] = Null /\ ~pending'[p]
  BY DEF RTypeOK
<1>2. CallOK(p)'
  BY <1>1 DEF CallOK, CallUnderWay, HoldsUnit, HoldsSession, KeyFree, BalanceSeen,
     Reserved, InTransaction, Inserted
<1>3. ASSUME NEW q \in Workers \ {p}
      PROVE  /\ rpc'[q] = rpc[q] /\ call'[q] = call[q]
             /\ pending'[q] = pending[q] /\ after'[q] = after[q]
  BY DEF RTypeOK
<1>4. RTypeOK'
  <2>1. /\ itemLock' \in [Tracked -> Workers \cup {Null}]
        /\ sessionLock' \in [Tokens -> Workers \cup {Null}]
        /\ rpc' \in [Workers -> CallStatements]
        /\ call' \in [Workers -> Calls \cup {Null}]
        /\ pending' \in [Workers -> BOOLEAN]
        /\ before' \in [Workers -> Int]
        /\ after' \in [Workers -> Int]
        /\ answer' \in [Workers -> Answers]
    BY DEF RTypeOK, Unlock, CallStatements, Answers
  <2>2. ASSUME NEW q \in Workers
        PROVE  /\ rpc'[q] = "none" <=> call'[q] = Null
               /\ rpc'[q] = "none" /\ req'[q] # Null => req'[q].op # "redeem"
               /\ rpc'[q] \in {"findReceipt", "reserve", "lockSession", "raced"} =>
                     pc'[q] = "idle"
               /\ rpc'[q] \in {"readCredits", "readDebits", "insert", "markUsed"} =>
                     pc'[q] = "lockAccount"
    <3>1. CASE q = p
      BY <1>1, <3>1
    <3>2. CASE q # p
      BY <1>3, <3>2 DEF RTypeOK
    <3> QED BY <3>1, <3>2
  <2> QED BY <2>1, <2>2 DEF RTypeOK, Answers
<1> QED BY <1>1, <1>2, <1>3, <1>4, UnlockFreesOwn

(* A call that ends without a commit.                                      *)
LEMMA CallGivesUp ==
    ASSUME LedgerOK, ShopInvariant, NEW p \in Workers, NEW a \in Answers,
           EndCall(p, a), UNCHANGED <<store, shop>>, req'[p] = Null,
           \A q \in Workers \ {p} :
              pc'[q] = pc[q] /\ req'[q] = req[q] /\ row'[q] = row[q]
    PROVE  ShopInvariant'
<1>1. /\ RTypeOK
      /\ stock' \in [Tracked -> Int]
      /\ session' \in [Tokens -> {"none", "valid", "expired", "used"}]
      /\ receipt' \in [Keys -> ReceiptType \cup {Null}]
  BY DEF ShopInvariant, RTypeOK, shop
<1>2. /\ RTypeOK' /\ CallOK(p)' /\ ~pending'[p]
      /\ \A q \in Workers \ {p} :
            /\ rpc'[q] = rpc[q] /\ call'[q] = call[q]
            /\ pending'[q] = pending[q] /\ after'[q] = after[q]
            /\ \A i \in Tracked : itemLock[i] = q => itemLock'[i] = q
            /\ \A t \in Tokens : sessionLock[t] = q => sessionLock'[t] = q
  BY <1>1, EndCallStep
<1> QED BY <1>2, QuietShop

(* A call that raises.                                                     *)
LEMMA FailsStep ==
    ASSUME LedgerOK, ShopInvariant, NEW p \in Workers, NEW a \in Answers, Fails(p, a)
    PROVE  ShopInvariant'
BY CallGivesUp, GivesUp DEF Fails, LedgerOK, BalanceInvariant

(* A call that goes on with its next statement.                            *)
LEMMA ContinueStep ==
    ASSUME LedgerOK, ShopInvariant, NEW p \in Workers, rpc[p] # "none",
           NEW s \in CallStatements \ {"none"}, Continue(p, s),
           UNCHANGED <<store, shop, call, answer>>, CallOK(p)',
           itemLock' \in [Tracked -> Workers \cup {Null}],
           sessionLock' \in [Tokens -> Workers \cup {Null}],
           pending' \in [Workers -> BOOLEAN],
           before' \in [Workers -> Int], after' \in [Workers -> Int],
           s \in {"findReceipt", "reserve", "lockSession", "raced"} =>
              pc'[p] = "idle",
           s \in {"readCredits", "readDebits", "insert", "markUsed"} =>
              pc'[p] = "lockAccount",
           \A q \in Workers \ {p} :
              /\ pc'[q] = pc[q] /\ req'[q] = req[q] /\ row'[q] = row[q]
              /\ pending'[q] = pending[q] /\ after'[q] = after[q]
              /\ \A i \in Tracked : itemLock[i] = q => itemLock'[i] = q
              /\ \A t \in Tokens : sessionLock[t] = q => sessionLock'[t] = q,
           pending'[p] => \/ pending[p]
                          \/ \A q \in Workers \ {p} :
                                pending[q] => call[q].key # call[p].key
    PROVE  ShopInvariant'
<1>1. rpc' \in [Workers -> CallStatements] /\ rpc'[p] = s
  BY DEF ShopInvariant, RTypeOK, Continue
<1>2. \A q \in Workers \ {p} : rpc'[q] = rpc[q] /\ call'[q] = call[q]
  BY DEF ShopInvariant, RTypeOK, Continue
<1>3. RTypeOK'
  <2>1. ASSUME NEW q \in Workers
        PROVE  /\ rpc'[q] = "none" <=> call'[q] = Null
               /\ rpc'[q] = "none" /\ req'[q] # Null => req'[q].op # "redeem"
               /\ rpc'[q] \in {"findReceipt", "reserve", "lockSession", "raced"} =>
                     pc'[q] = "idle"
               /\ rpc'[q] \in {"readCredits", "readDebits", "insert", "markUsed"} =>
                     pc'[q] = "lockAccount"
    <3>1. CASE q = p
      BY <1>1, <3>1 DEF ShopInvariant, RTypeOK
    <3>2. CASE q # p
      BY <1>2, <3>2 DEF ShopInvariant, RTypeOK
    <3> QED BY <3>1, <3>2
  <2>2. /\ stock' \in [Tracked -> Int]
        /\ session' \in [Tokens -> {"none", "valid", "expired", "used"}]
        /\ receipt' \in [Keys -> ReceiptType \cup {Null}]
        /\ call' \in [Workers -> Calls \cup {Null}]
        /\ answer' \in [Workers -> {"none", "receipt", "refused", "lost"}]
    BY DEF ShopInvariant, RTypeOK, shop
  <2> QED BY <1>1, <2>1, <2>2 DEF RTypeOK
<1> QED BY <1>2, <1>3, QuietShop

-----------------------------------------------------------------------------
(* One lemma per statement.                                                *)

LEMMA StartCallStep ==
    ASSUME LedgerOK, ShopInvariant, NEW p \in Workers, StartCall(p)
    PROVE  ShopInvariant'
<1> USE DEF StartCall, Continue
<1>1. /\ rpc'[p] = "findReceipt" /\ call'[p] # Null /\ call' \in [Workers -> Calls \cup {Null}]
      /\ UNCHANGED <<pending, pc, req, row, store, shop>> /\ ~pending'[p]
  BY DEF ShopInvariant, RTypeOK, CallOK, KeyFree, Inserted, vars, local, CallType
<1>2. CallOK(p)'
  BY <1>1 DEF CallOK, CallUnderWay, HoldsUnit, HoldsSession, KeyFree, BalanceSeen,
     Reserved, InTransaction, Inserted
<1>3. RTypeOK'
  <2>1. ASSUME NEW q \in Workers
        PROVE  /\ rpc'[q] = "none" <=> call'[q] = Null
               /\ rpc'[q] = "none" /\ req'[q] # Null => req'[q].op # "redeem"
               /\ rpc'[q] \in {"findReceipt", "reserve", "lockSession", "raced"} =>
                     pc'[q] = "idle"
               /\ rpc'[q] \in {"readCredits", "readDebits", "insert", "markUsed"} =>
                     pc'[q] = "lockAccount"
    BY <1>1 DEF ShopInvariant, RTypeOK
  <2> QED
    BY <1>1, <2>1 DEF ShopInvariant, RTypeOK, CallStatements, shop, shopLocks
<1> QED
  BY <1>1, <1>2, <1>3, QuietShop DEF ShopInvariant, RTypeOK, shopLocks

LEMMA FindReceiptStep ==
    ASSUME LedgerOK, ShopInvariant, NEW p \in Workers, FindReceipt(p)
    PROVE  ShopInvariant'
<1>1. CASE AnswerFromReceipt(p)
  BY <1>1, FailsStep DEF AnswerFromReceipt, Answers
<1>2. CASE ~AnswerFromReceipt(p)
  <2> USE <1>2 DEF FindReceipt
  <2>1. /\ Continue(p, "reserve") /\ rpc[p] = "findReceipt"
        /\ UNCHANGED <<vars, shop, shopLocks, call, pending, before, after, answer>>
    OBVIOUS
  <2>2. rpc'[p] = "reserve" /\ pc'[p] = "idle" /\ ~pending'[p]
    BY <2>1 DEF Continue, ShopInvariant, RTypeOK, CallOK, KeyFree, Inserted, vars, local
  <2>3. CallOK(p)'
    BY <2>2 DEF CallOK, CallUnderWay, HoldsUnit, HoldsSession, KeyFree, BalanceSeen,
       Reserved, InTransaction, Inserted
  <2> HIDE DEF FindReceipt
  <2> QED
    BY <2>1, <2>2, <2>3, ContinueStep
    DEF CallStatements, vars, local, shopLocks, ShopInvariant, RTypeOK
<1> QED BY <1>1, <1>2

(* The unit a call takes is there, and stays until it commits.             *)
LEMMA ReserveStep ==
    ASSUME LedgerOK, ShopInvariant, NEW p \in Workers, Reserve(p)
    PROVE  ShopInvariant'
<1>1. CASE Fails(p, "refused")
  BY <1>1, FailsStep DEF Answers
<1>2. CASE ~Fails(p, "refused")
  <2>0. /\ rpc[p] = "reserve" /\ Continue(p, "lockSession")
        /\ UNCHANGED <<vars, shop, sessionLock, call, pending, before, after, answer>>
        /\ \/ call[p].item \notin Tracked /\ itemLock' = itemLock
           \/ /\ InStock(call[p].item) /\ WaitsFor(p) = {}
              /\ itemLock' = [itemLock EXCEPT ![call[p].item] = p]
    BY <1>2 DEF Reserve, shopLocks
  <2>1. /\ rpc'[p] = "lockSession" /\ pc'[p] = "idle" /\ ~pending'[p]
        /\ call'[p] = call[p] /\ stock' = stock
    BY <2>0 DEF Continue, ShopInvariant, RTypeOK, CallOK, KeyFree, Inserted, vars,
       local, shop
  <2>2. itemLock' \in [Tracked -> Workers \cup {Null}]
    BY <2>0 DEF ShopInvariant, RTypeOK
  <2>3. call[p].item \in Tracked =>
          itemLock'[call[p].item] = p /\ stock[call[p].item] > 0
    BY <2>0 DEF InStock, ShopInvariant, RTypeOK
  <2>4. CallOK(p)'
    BY <2>1, <2>3 DEF CallOK, CallUnderWay, HoldsUnit, HoldsSession, KeyFree,
       BalanceSeen, Reserved, InTransaction, Inserted
  <2>5. \A q \in Workers \ {p}, i \in Tracked : itemLock[i] = q => itemLock'[i] = q
    BY <2>0 DEF WaitsFor, ShopInvariant, RTypeOK
  <2> QED
    BY <2>0, <2>1, <2>2, <2>4, <2>5, ContinueStep
    DEF CallStatements, vars, local, ShopInvariant, RTypeOK
<1> QED BY <1>1, <1>2

LEMMA LockSessionStep ==
    ASSUME LedgerOK, ShopInvariant, NEW p \in Workers, LockSession(p)
    PROVE  ShopInvariant'
<1>1. CASE Fails(p, "refused")
  BY <1>1, FailsStep DEF Answers
<1>2. CASE ~Fails(p, "refused")
  <2>0. /\ rpc[p] = "lockSession" /\ WaitsFor(p) = {}
        /\ session[call[p].token] = "valid"
        /\ sessionLock' = [sessionLock EXCEPT ![call[p].token] = p]
        /\ Begin(p) /\ req'[p] = LedgerCall(call[p])
        /\ Continue(p, "loadStudent")
        /\ UNCHANGED <<shop, itemLock, call, pending, before, after, answer>>
    BY <1>2 DEF LockSession
  <2>1. call[p].token \in Tokens /\ LedgerCall(call[p]) \in Requests
    BY <2>0, CallTyped DEF ShopInvariant
  <2>2. pc'[p] = "requireActive"
    BY <2>0 DEF Begin, Goto, LedgerCall, LedgerOK, BalanceInvariant, TypeOK
  <2>3. /\ rpc'[p] = "loadStudent" /\ call'[p] = call[p] /\ ~pending'[p]
        /\ sessionLock'[call[p].token] = p
        /\ session' = session /\ stock' = stock /\ itemLock' = itemLock
    BY <2>0, <2>1 DEF Continue, ShopInvariant, RTypeOK, CallOK, KeyFree, Inserted, shop
  <2>4. HoldsUnit(p)'
    BY <2>0, <2>3 DEF ShopInvariant, CallOK, HoldsUnit, Reserved
  <2>5. CallOK(p)'
    BY <2>0, <2>2, <2>3, <2>4 DEF CallOK, CallUnderWay, HoldsSession, KeyFree,
       BalanceSeen, InTransaction, Inserted
  <2>6. sessionLock' \in [Tokens -> Workers \cup {Null}]
    BY <2>0 DEF ShopInvariant, RTypeOK
  <2>7. \A q \in Workers \ {p}, t \in Tokens : sessionLock[t] = q => sessionLock'[t] = q
    BY <2>0 DEF WaitsFor, ShopInvariant, RTypeOK
  <2>8. /\ UNCHANGED store
        /\ \A q \in Workers \ {p} :
              pc'[q] = pc[q] /\ req'[q] = req[q] /\ row'[q] = row[q]
    BY <2>0, OneSessionMoves, StatementsStoreNothing DEF LedgerOK, BalanceInvariant
  <2> QED
    BY <2>0, <2>3, <2>5, <2>6, <2>7, <2>8, ContinueStep
    DEF CallStatements, ShopInvariant, RTypeOK
<1> QED BY <1>1, <1>2

LEMMA LoadStudentStep ==
    ASSUME LedgerOK, TypeOK', ShopInvariant, NEW p \in Workers, LoadStudent(p)
    PROVE  ShopInvariant'
<1>0. /\ rpc[p] = "loadStudent" /\ RequireActive(p)
      /\ UNCHANGED store
      /\ \A q \in Workers \ {p} :
            pc'[q] = pc[q] /\ req'[q] = req[q] /\ row'[q] = row[q]
  BY OneSessionMoves, StatementsStoreNothing
  DEF LoadStudent, Step, LedgerOK, BalanceInvariant
<1>1. CASE pc'[p] = "idle"
  <2>1. EndCall(p, "refused") /\ UNCHANGED shop /\ req'[p] = Null
    BY <1>1 DEF LoadStudent, TypeOK
  <2> QED BY <1>0, <2>1, CallGivesUp DEF Answers
<1>2. CASE pc'[p] # "idle"
  <2>1. /\ Continue(p, "readCredits")
        /\ UNCHANGED <<shop, shopLocks, call, pending, before, after, answer>>
    BY <1>2 DEF LoadStudent
  <2>2. req[p] = LedgerCall(call[p])
    BY <1>0 DEF ShopInvariant, CallOK, CallUnderWay, InTransaction
  <2>3. req' = req /\ pc'[p] = "lockAccount"
    BY <1>0, <1>2, <2>2 DEF RequireActive, Rollback, EndTransaction, Goto, LedgerCall,
       LedgerOK, BalanceInvariant, TypeOK
  <2>4. /\ rpc'[p] = "readCredits" /\ call'[p] = call[p] /\ ~pending'[p]
        /\ UNCHANGED <<stock, session, itemLock, sessionLock, receipt>>
    BY <1>0, <2>1 DEF Continue, ShopInvariant, RTypeOK, CallOK, KeyFree, Inserted,
       shop, shopLocks
  <2>5. CallOK(p)'
    BY <1>0, <2>2, <2>3, <2>4 DEF ShopInvariant, CallOK, CallUnderWay, HoldsUnit,
       HoldsSession, KeyFree, BalanceSeen, Reserved, InTransaction, Inserted
  <2> QED
    BY <1>0, <2>1, <2>3, <2>4, <2>5, ContinueStep
    DEF CallStatements, ShopInvariant, RTypeOK
<1> QED BY <1>1, <1>2

LEMMA ReadBeforeStep ==
    ASSUME LedgerOK, ShopInvariant, NEW p \in Workers,
           ReadCredits(p) \/ ReadDebits(p)
    PROVE  ShopInvariant'
<1> DEFINE s == IF rpc[p] = "readCredits" THEN "readDebits" ELSE "insert"
<1>1. /\ rpc[p] \in {"readCredits", "readDebits"} /\ Continue(p, s)
      /\ UNCHANGED <<vars, shop, shopLocks, call, pending, after, answer>>
  BY DEF ReadCredits, ReadDebits
<1>2. before' \in [Workers -> Int]
  <2>1. StudentOf[call[p].token] \in Accounts
    BY <1>1, CallTyped DEF ShopInvariant, Accounts
  <2>2. /\ credited[StudentOf[call[p].token]] \in Int
        /\ debited[StudentOf[call[p].token]] \in Int
    BY <2>1 DEF LedgerOK, BalanceInvariant, TypeOK
  <2> QED BY <2>2 DEF ReadCredits, ReadDebits, ShopInvariant, RTypeOK
<1>3. /\ rpc'[p] = s /\ call'[p] = call[p] /\ ~pending'[p]
      /\ UNCHANGED <<stock, session, itemLock, sessionLock, receipt, pc, req, row, store>>
  BY <1>1 DEF Continue, ShopInvariant, RTypeOK, CallOK, KeyFree, Inserted,
     shop, shopLocks, vars, local
<1>4. CallOK(p)'
  BY <1>1, <1>3 DEF ShopInvariant, CallOK, CallUnderWay, HoldsUnit,
     HoldsSession, KeyFree, BalanceSeen, Reserved, InTransaction, Inserted
<1>5. pc'[p] = "lockAccount"
  BY <1>1, <1>3 DEF ShopInvariant, RTypeOK
<1> QED
  BY <1>1, <1>2, <1>3, <1>4, <1>5, ContinueStep
  DEF CallStatements, ShopInvariant, RTypeOK

(* The flush waits for whoever else inserts the key.                       *)
LEMMA InsertStep ==
    ASSUME LedgerOK, ShopInvariant, NEW p \in Workers, Insert(p)
    PROVE  ShopInvariant'
<1>1. CASE receipt[call[p].key] # Null
  <2>0. /\ rpc[p] = "insert" /\ LedgerGivesUp(p) /\ Unlock(p) /\ Continue(p, "raced")
        /\ UNCHANGED <<shop, call, pending, before, after, answer>>
    BY <1>1 DEF Insert
  <2>1. /\ UNCHANGED store /\ pc'[p] = "idle"
        /\ \A q \in Workers \ {p} :
              pc'[q] = pc[q] /\ req'[q] = req[q] /\ row'[q] = row[q]
    BY <2>0, GivesUp DEF LedgerOK, BalanceInvariant
  <2>2. /\ rpc'[p] = "raced" /\ ~pending'[p]
        /\ itemLock' \in [Tracked -> Workers \cup {Null}]
        /\ sessionLock' \in [Tokens -> Workers \cup {Null}]
    BY <2>0 DEF Continue, Unlock, ShopInvariant, RTypeOK, CallOK, KeyFree, Inserted
  <2>3. CallOK(p)'
    BY <2>2 DEF CallOK, CallUnderWay, HoldsUnit, HoldsSession, KeyFree, BalanceSeen,
       Reserved, InTransaction, Inserted
  <2>4. \A q \in Workers \ {p} :
          /\ \A i \in Tracked : itemLock[i] = q => itemLock'[i] = q
          /\ \A t \in Tokens : sessionLock[t] = q => sessionLock'[t] = q
    BY <2>0, UnlockFreesOwn
  <2>5. /\ "raced" \in CallStatements \ {"none"} /\ rpc[p] # "none"
        /\ pending' \in [Workers -> BOOLEAN]
        /\ before' \in [Workers -> Int] /\ after' \in [Workers -> Int]
    BY <2>0 DEF CallStatements, ShopInvariant, RTypeOK
  <2> QED
    BY <2>0, <2>1, <2>2, <2>3, <2>4, <2>5, ContinueStep
<1>2. CASE receipt[call[p].key] = Null
  <2>0. /\ rpc[p] = "insert" /\ WaitsFor(p) = {} /\ Continue(p, "markUsed")
        /\ pending' = [pending EXCEPT ![p] = TRUE]
        /\ UNCHANGED <<vars, shop, shopLocks, call, before, after, answer>>
    BY <1>2 DEF Insert
  <2>1. /\ rpc'[p] = "markUsed" /\ pending'[p] /\ call'[p] = call[p]
        /\ UNCHANGED <<stock, session, itemLock, sessionLock, receipt, pc, req, row, store>>
    BY <2>0 DEF Continue, ShopInvariant, RTypeOK, shop, shopLocks, vars, local
  <2>2. CallOK(p)'
    BY <1>2, <2>0, <2>1 DEF ShopInvariant, CallOK, CallUnderWay, HoldsUnit,
       HoldsSession, KeyFree, BalanceSeen, Reserved, InTransaction, Inserted
  <2>3. \A q \in Workers \ {p} : pending[q] => call[q].key # call[p].key
    BY <2>0 DEF WaitsFor
  <2>4. /\ pc'[p] = "lockAccount" /\ pending' \in [Workers -> BOOLEAN]
        /\ \A q \in Workers \ {p} : pending'[q] = pending[q]
    BY <2>0, <2>1 DEF ShopInvariant, RTypeOK
  <2> QED
    BY <2>0, <2>1, <2>2, <2>3, <2>4, ContinueStep
    DEF CallStatements, ShopInvariant, RTypeOK
<1> QED BY <1>1, <1>2

LEMMA RacedStep ==
    ASSUME LedgerOK, ShopInvariant, NEW p \in Workers, Raced(p)
    PROVE  ShopInvariant'
BY FailsStep DEF Raced, AnswerFromReceipt, Answers

LEMMA MarkUsedStep ==
    ASSUME LedgerOK, ShopInvariant, NEW p \in Workers, MarkUsed(p)
    PROVE  ShopInvariant'
<1>1. CASE Fails(p, "refused")
  BY <1>1, FailsStep DEF Answers
<1>2. CASE ~Fails(p, "refused")
  <2>0. /\ rpc[p] = "markUsed" /\ WaitsFor(p) = {} /\ Continue(p, "debit")
        /\ sessionLock' = [sessionLock EXCEPT ![call[p].token] = p]
        /\ UNCHANGED <<vars, shop, itemLock, call, pending, before, after, answer>>
    BY <1>2 DEF MarkUsed
  <2>1. /\ rpc'[p] = "debit" /\ call'[p] = call[p]
        /\ UNCHANGED <<stock, session, itemLock, receipt, pc, req, row, store, pending>>
    BY <2>0 DEF Continue, ShopInvariant, RTypeOK, shop, vars, local
  <2>2. sessionLock' = sessionLock
    BY <2>0 DEF ShopInvariant, RTypeOK, CallOK, HoldsSession, InTransaction
  <2>3. pc[p] = "lockAccount"
    BY <2>0 DEF ShopInvariant, RTypeOK
  <2>4. CallOK(p)'
    BY <2>0, <2>1, <2>2, <2>3 DEF ShopInvariant, CallOK, CallUnderWay, HoldsUnit,
       HoldsSession, KeyFree, BalanceSeen, Reserved, InTransaction, Inserted, PastLock
  <2>5. /\ "debit" \in CallStatements \ {"none"} /\ rpc[p] # "none"
        /\ sessionLock \in [Tokens -> Workers \cup {Null}]
        /\ itemLock \in [Tracked -> Workers \cup {Null}]
        /\ pending \in [Workers -> BOOLEAN]
        /\ before \in [Workers -> Int] /\ after \in [Workers -> Int]
    BY <2>0 DEF CallStatements, ShopInvariant, RTypeOK
  <2>6. pending[p]
    BY <2>0 DEF ShopInvariant, CallOK, KeyFree, Inserted
  <2> QED
    BY <2>0, <2>1, <2>2, <2>4, <2>5, <2>6, ContinueStep
<1> QED BY <1>1, <1>2

(* The ledger's statements in a redemption: it inserts its row, because a  *)
(* redemption row of another session under its key would be on a receipt.  *)
LEMMA DebitMoves ==
    ASSUME LedgerOK, TypeOK', ShopInvariant, NEW p \in Workers, rpc[p] = "debit",
           LedgerStatement(p), pc'[p] # "idle"
    PROVE  /\ req'[p] = req[p]
           /\ pc'[p] \in PastLock \cup {"commit"}
           /\ pc'[p] = "commit" => row'[p] # Null
<1>1. /\ req[p] = LedgerCall(call[p]) /\ pc[p] \in PastLock
      /\ receipt[call[p].key] = Null
  BY DEF ShopInvariant, CallOK, CallUnderWay, KeyFree, InTransaction, Inserted
<1>2. req[p].op = "redeem" /\ req[p].key = call[p].key
  BY <1>1 DEF LedgerCall
<1>3. call[p].key \in Keys
  BY CallTyped DEF ShopInvariant
<1>4. /\ TypeOK
      /\ ~(ledger[req[p].key] # Null /\ ledger[req[p].key].type = "redeem")
      /\ pc[p] = "insertEntries" => row[p] # Null
  BY <1>1, <1>2, <1>3
  DEF LedgerOK, BalanceInvariant, RowPending, ShopInvariant, ReceiptBacked
<1>5. \A a : ~Rollback(p, a)
  BY <1>4 DEF Rollback, EndTransaction, TypeOK
<1> USE <1>2, <1>4, <1>5 DEF TypeOK, PastLock, Goto
<1>6. CASE LockAccount(p) \/ SumCredits(p) \/ SumDebits(p)
  BY <1>6 DEF LockAccount, SumCredits, SumDebits
<1>7. CASE ExistingKey(p)
  BY <1>7 DEF ExistingKey
<1>8. CASE InsertRow(p) \/ InsertEntries(p)
  BY <1>8 DEF InsertRow, InsertEntries
<1> QED BY <1>6, <1>7, <1>8 DEF LedgerStatement

LEMMA DebitStep ==
    ASSUME LedgerOK, TypeOK', ShopInvariant, NEW p \in Workers, Debit(p)
    PROVE  ShopInvariant'
<1>0. /\ rpc[p] = "debit" /\ LedgerStatement(p)
      /\ UNCHANGED store
      /\ \A q \in Workers \ {p} :
            pc'[q] = pc[q] /\ req'[q] = req[q] /\ row'[q] = row[q]
  BY OneSessionMoves, StatementsStoreNothing
  DEF Debit, LedgerStatement, Step, LedgerOK, BalanceInvariant
<1>1. CASE pc'[p] = "idle"
  <2>1. EndCall(p, "refused") /\ UNCHANGED shop /\ req'[p] = Null
    BY <1>1 DEF Debit, TypeOK
  <2> QED BY <1>0, <2>1, CallGivesUp DEF Answers
<1>2. CASE pc'[p] # "idle"
  <2> DEFINE s == IF pc'[p] = "commit" THEN "readAfter" ELSE "debit"
  <2>1. Continue(p, s) /\ UNCHANGED <<shop, shopLocks, call, pending, before, after, answer>>
    BY <1>2 DEF Debit
  <2>2. /\ req'[p] = req[p] /\ pc'[p] \in PastLock \cup {"commit"}
        /\ pc'[p] = "commit" => row'[p] # Null
    BY <1>0, <1>2, DebitMoves
  <2>3. /\ rpc'[p] = s /\ call'[p] = call[p] /\ pending'[p]
        /\ UNCHANGED <<stock, session, itemLock, sessionLock, receipt, pending>>
    BY <1>0, <2>1 DEF Continue, ShopInvariant, RTypeOK, CallOK, KeyFree, Inserted,
       shop, shopLocks
  <2>4. CallOK(p)'
    BY <1>0, <2>2, <2>3 DEF ShopInvariant, CallOK, CallUnderWay, HoldsUnit,
       HoldsSession, KeyFree, BalanceSeen, Reserved, InTransaction, Inserted, PastLock
  <2>5. /\ s \in CallStatements \ {"none"} /\ rpc[p] # "none" /\ pending[p]
        /\ s \notin {"findReceipt", "reserve", "lockSession", "raced"}
        /\ s \notin {"readCredits", "readDebits", "insert", "markUsed"}
        /\ sessionLock' \in [Tokens -> Workers \cup {Null}]
        /\ itemLock' \in [Tracked -> Workers \cup {Null}]
        /\ pending' \in [Workers -> BOOLEAN]
        /\ before' \in [Workers -> Int] /\ after' \in [Workers -> Int]
    BY <1>0, <2>1, <2>3 DEF CallStatements, ShopInvariant, RTypeOK
  <2> HIDE DEF s
  <2> QED
    BY <1>0, <2>1, <2>3, <2>4, <2>5, ContinueStep
<1> QED BY <1>1, <1>2

(* balance_after is read under the lock of the account.                    *)
LEMMA ReadAfterStep ==
    ASSUME LedgerOK, ShopInvariant, NEW p \in Workers, ReadAfter(p)
    PROVE  ShopInvariant'
<1> DEFINE w == StudentOf[call[p].token]
<1>0. /\ rpc[p] = "readAfter" /\ Continue(p, "commit")
      /\ UNCHANGED <<vars, shop, shopLocks, call, pending, before, answer>>
  BY DEF ReadAfter
<1>1. /\ pc[p] = "commit" /\ row[p] # Null /\ row[p].amount \in Nat
      /\ req[p] = LedgerCall(call[p])
  BY <1>0, RowTyped DEF ShopInvariant, CallOK, CallUnderWay, InTransaction,
     LedgerOK, BalanceInvariant, TypeOK
<1>2. credited[w] \in Nat /\ debited[w] \in Nat
  BY <1>0, CallTyped DEF ShopInvariant, Accounts, LedgerOK, BalanceInvariant, TypeOK
<1>3. after' = [after EXCEPT ![p] = credited[w] - debited[w] - row[p].amount]
  BY <1>1 DEF ReadAfter
<1>4. /\ rpc'[p] = "commit" /\ call'[p] = call[p] /\ pending[p]
      /\ UNCHANGED <<stock, session, itemLock, sessionLock, receipt, pending, pc,
                     req, row, credited, debited, store>>
  BY <1>0 DEF Continue, ShopInvariant, RTypeOK, CallOK, KeyFree, Inserted,
     shop, shopLocks, vars, local, store
<1>5. BalanceSeen(p)'
  BY <1>0, <1>3, <1>4 DEF BalanceSeen, ShopInvariant, RTypeOK
<1>6. CallOK(p)'
  BY <1>0, <1>1, <1>4, <1>5 DEF ShopInvariant, CallOK, CallUnderWay, HoldsUnit,
     HoldsSession, KeyFree, Reserved, InTransaction, Inserted
<1>7. /\ "commit" \in CallStatements \ {"none"} /\ rpc[p] # "none"
      /\ sessionLock' \in [Tokens -> Workers \cup {Null}]
      /\ itemLock' \in [Tracked -> Workers \cup {Null}]
      /\ pending' \in [Workers -> BOOLEAN]
      /\ before' \in [Workers -> Int] /\ after' \in [Workers -> Int]
      /\ \A q \in Workers \ {p} : after'[q] = after[q]
  BY <1>0, <1>2, <1>1, <1>3, <1>4 DEF CallStatements, ShopInvariant, RTypeOK
<1> HIDE DEF w
<1> QED BY <1>0, <1>4, <1>6, <1>7, ContinueStep

-----------------------------------------------------------------------------
(* Everything else that runs.                                              *)

(* A statement of p outside redeem.                                        *)
LEMMA OutsideStep ==
    ASSUME LedgerOK, ShopInvariant, NEW p \in Workers, rpc[p] = "none",
           UNCHANGED <<store, shop, rpc, call, pending, before, after>>,
           answer' \in [Workers -> Answers],
           itemLock' \in [Tracked -> Workers \cup {Null}],
           sessionLock' \in [Tokens -> Workers \cup {Null}],
           req'[p] # Null => req'[p].op # "redeem",
           \A q \in Workers \ {p} :
              /\ pc'[q] = pc[q] /\ req'[q] = req[q] /\ row'[q] = row[q]
              /\ \A i \in Tracked : itemLock[i] = q => itemLock'[i] = q
              /\ \A t \in Tokens : sessionLock[t] = q => sessionLock'[t] = q
    PROVE  ShopInvariant'
<1>1. ~pending[p]
  BY DEF ShopInvariant, CallOK, KeyFree, Inserted
<1>2. CallOK(p)'
  BY <1>1 DEF CallOK, CallUnderWay, HoldsUnit, HoldsSession, KeyFree, BalanceSeen,
     Reserved, InTransaction, Inserted
<1>3. RTypeOK'
  BY DEF ShopInvariant, RTypeOK, shop, Answers
<1> QED BY <1>1, <1>2, <1>3, QuietShop

LEMMA StartLedgerCallStep ==
    ASSUME LedgerOK, ShopInvariant, NEW p \in Workers, StartLedgerCall(p)
    PROVE  ShopInvariant'
<1>1. /\ rpc[p] = "none" /\ req'[p].op # "redeem"
      /\ UNCHANGED <<shop, shopLocks, rpc, call, pending, before, after>>
      /\ answer' \in [Workers -> Answers]
      /\ UNCHANGED store
      /\ \A q \in Workers \ {p} :
            pc'[q] = pc[q] /\ req'[q] = req[q] /\ row'[q] = row[q]
  BY OneSessionMoves, StatementsStoreNothing
  DEF StartLedgerCall, LedgerOK, BalanceInvariant, ShopInvariant, RTypeOK, Answers
<1> QED BY <1>1, OutsideStep DEF ShopInvariant, RTypeOK, shopLocks

LEMMA PlainLedgerStep ==
    ASSUME LedgerOK, ShopInvariant, NEW p \in Workers, PlainLedger(p)
    PROVE  ShopInvariant'
<1>1. /\ rpc[p] = "none" /\ UNCHANGED rvars
      /\ UNCHANGED store
      /\ \A q \in Workers \ {p} :
            pc'[q] = pc[q] /\ req'[q] = req[q] /\ row'[q] = row[q]
  BY OneSessionMoves, StatementsStoreNothing
  DEF PlainLedger, LedgerStatement, Step, LedgerOK, BalanceInvariant
<1>2. req'[p] \in {req[p], Null}
  <2>1. TypeOK
    BY DEF LedgerOK, BalanceInvariant
  <2>2. CASE \E a : Rollback(p, a)
    BY <2>1, <2>2 DEF Rollback, EndTransaction, TypeOK
  <2>3. CASE req' = req
    BY <2>3
  <2> QED
    BY <2>2, <2>3 DEF PlainLedger, LedgerStatement, RequireActive, ReversalKey,
       LockOriginal, LockAccount, SumCredits, SumDebits, ExistingKey, InsertRow,
       InsertEntries
<1> QED
  BY <1>1, <1>2, OutsideStep
  DEF ShopInvariant, RTypeOK, rvars, shopLocks, callVars, Answers

LEMMA RestoreInventoryStep ==
    ASSUME LedgerOK, ShopInvariant, NEW p \in Workers, RestoreInventory(p)
    PROVE  ShopInvariant'
<1>1. /\ rpc[p] = "none"
      /\ itemLock[ItemReturned(p)] = Null
      /\ itemLock' = [itemLock EXCEPT ![ItemReturned(p)] = p]
      /\ UNCHANGED <<vars, shop, sessionLock, callVars>>
  BY DEF RestoreInventory, MustRestore
<1>2. /\ itemLock' \in [Tracked -> Workers \cup {Null}]
      /\ \A q \in Workers \ {p}, i \in Tracked : itemLock[i] = q => itemLock'[i] = q
  BY <1>1 DEF ShopInvariant, RTypeOK
<1> QED
  BY <1>1, <1>2, OutsideStep
  DEF ShopInvariant, RTypeOK, callVars, vars, local, Answers

(* A session is created, expires or is purged: one that a call holds stays *)
(* unused, and none is used that way.                                      *)
LEMMA SessionStep ==
    ASSUME LedgerOK, ShopInvariant, NEW t \in Tokens,
           CreateSession(t) \/ Expire(t) \/ Purge(t)
    PROVE  ShopInvariant'
<1>0. UNCHANGED <<vars, stock, receipt, shopLocks, callVars>>
  BY DEF CreateSession, Expire, Purge
<1> USE <1>0 DEF vars, store, local, shopLocks, callVars
<1>1. /\ session' \in [Tokens -> {"none", "valid", "expired", "used"}]
      /\ \A u \in Tokens : session'[u] = "used" <=> session[u] = "used"
      /\ \A u \in Tokens, q \in Workers :
            sessionLock[u] = q /\ session[u] \in {"valid", "expired"} =>
              session'[u] \in {"valid", "expired"}
  BY DEF CreateSession, Expire, Purge, ShopInvariant, RTypeOK
<1>2. RTypeOK'
  BY <1>1 DEF ShopInvariant, RTypeOK
<1>3. ASSUME NEW q \in Workers PROVE CallOK(q)'
  <2>1. CallUndisturbed(q)
    BY <1>1 DEF CallUndisturbed, ShopInvariant, CallOK, KeyFree
  <2> QED BY <2>1, CallUndisturbedStep DEF ShopInvariant
<1>4. OneInserter' /\ ReceiptBacked' /\ ReceiptsCarried' /\ PaidOnce'
  BY DEF ShopInvariant, OneInserter, ReceiptBacked, ReceiptsCarried, PaidOnce, Redeemed
<1>5. UsedIsPaid'
  BY <1>1 DEF ShopInvariant, UsedIsPaid
<1>6. StockConserved' /\ \A i \in Tracked : IsFiniteSet(Units(i))'
  <2>1. \A i \in Tracked : Units(i)' = Units(i)
    BY DEF Units, Redeemed
  <2> QED BY <2>1, StockByUnits DEF ShopInvariant
<1> QED BY <1>2, <1>3, <1>4, <1>5, <1>6 DEF ShopInvariant

(* A wallet is frozen, or nothing happens.                                 *)
LEMMA IdleShopStep ==
    ASSUME LedgerOK, ShopInvariant, UNCHANGED <<store, local, rvars>>,
           UNCHANGED accountLock
    PROVE  ShopInvariant'
<1> USE DEF store, local, rvars, shop, shopLocks, callVars
<1>1. RTypeOK'
  BY DEF ShopInvariant, RTypeOK
<1>2. ASSUME NEW q \in Workers PROVE CallOK(q)'
  <2>1. CallUndisturbed(q)
    BY DEF CallUndisturbed, ShopInvariant, CallOK, KeyFree
  <2> QED BY <2>1, CallUndisturbedStep DEF ShopInvariant
<1>3. OneInserter' /\ ReceiptBacked' /\ ReceiptsCarried' /\ PaidOnce' /\ UsedIsPaid'
  BY DEF ShopInvariant, OneInserter, ReceiptBacked, ReceiptsCarried, PaidOnce,
     UsedIsPaid, Redeemed
<1>4. StockConserved' /\ \A i \in Tracked : IsFiniteSet(Units(i))'
  <2>1. \A i \in Tracked : Units(i)' = Units(i)
    BY DEF Units, Redeemed
  <2> QED BY <2>1, StockByUnits DEF ShopInvariant
<1> QED BY <1>1, <1>2, <1>3, <1>4 DEF ShopInvariant

-----------------------------------------------------------------------------
(* The commits.                                                            *)

LEMMA BackingKept ==
    ASSUME LedgerOK, NEW p \in Workers, Commit(p), NEW k \in Keys
    PROVE  /\ HoldsKey(p, k) =>
                backing'[k] = IF req[p].op \in {"earn", "redeem"} THEN "completed"
                              ELSE "none"
           /\ ~HoldsKey(p, k) =>
                backing'[k] = IF MarksOriginal(p) /\ k = req[p].original
                                 /\ backing[k] # "none"
                              THEN "reversed" ELSE backing[k]
BY DEF Commit, BackingAfter, HoldsKey

LEMMA CommitCallFacts ==
    ASSUME LedgerOK, ShopInvariant, NEW p \in Workers, CommitCall(p)
    PROVE  /\ call[p].key \in Keys /\ call[p].token \in Tokens
           /\ call[p].item \in Items /\ pending[p]
           /\ receipt[call[p].key] = Null
           /\ receipt'[call[p].key] \in ReceiptType
           /\ receipt'[call[p].key].token = call[p].token
           /\ receipt'[call[p].key].item = call[p].item
           /\ receipt'[call[p].key].after = after[p]
           /\ \A k \in Keys \ {call[p].key} : receipt'[k] = receipt[k]
           /\ receipt' \in [Keys -> ReceiptType \cup {Null}]
           /\ \A k \in Keys : HoldsKey(p, k) <=> k = call[p].key
           /\ ~MarksOriginal(p) /\ req[p].op = "redeem"
           /\ session[call[p].token] \in {"valid", "expired"}
           /\ sessionLock[call[p].token] = p
           /\ call[p].item \in Tracked =>
                itemLock[call[p].item] = p /\ stock[call[p].item] > 0
<1>1. rpc[p] = "commit" /\ rpc[p] # "none"
  BY DEF CommitCall
<1>2. call[p].key \in Keys /\ call[p].token \in Tokens /\ call[p].item \in Items
  BY <1>1, CallTyped DEF ShopInvariant
<1>3. pending[p] /\ receipt[call[p].key] = Null
  BY <1>1 DEF ShopInvariant, CallOK, KeyFree, Inserted
<1>4. receipt' = [receipt EXCEPT ![call[p].key] =
                     [token |-> call[p].token, item |-> call[p].item,
                      before |-> before[p], after |-> after[p]]]
  BY DEF CommitCall
<1>5. [token |-> call[p].token, item |-> call[p].item,
       before |-> before[p], after |-> after[p]] \in ReceiptType
  BY <1>2 DEF ShopInvariant, RTypeOK, ReceiptType
<1>6. /\ receipt'[call[p].key] \in ReceiptType
      /\ receipt'[call[p].key].token = call[p].token
      /\ receipt'[call[p].key].item = call[p].item
      /\ receipt'[call[p].key].after = after[p]
      /\ \A k \in Keys \ {call[p].key} : receipt'[k] = receipt[k]
      /\ receipt' \in [Keys -> ReceiptType \cup {Null}]
  BY <1>2, <1>4, <1>5 DEF ShopInvariant, RTypeOK
<1>7. /\ \A k \in Keys : HoldsKey(p, k) <=> k = call[p].key
      /\ ~MarksOriginal(p) /\ req[p].op = "redeem"
  <2>1. RTypeOK /\ CallOK(p)
    BY DEF ShopInvariant
  <2>2. req[p] = LedgerCall(call[p]) /\ row[p] # Null
    BY <1>1, <2>1, RedemptionRow
  <2>3. req[p].key = call[p].key /\ req[p].op = "redeem"
    BY <2>2 DEF LedgerCall
  <2> QED BY <2>2, <2>3 DEF HoldsKey, MarksOriginal
<1>8. /\ session[call[p].token] \in {"valid", "expired"}
      /\ sessionLock[call[p].token] = p
      /\ call[p].item \in Tracked =>
           itemLock[call[p].item] = p /\ stock[call[p].item] > 0
  BY <1>1 DEF ShopInvariant, CallOK, HoldsSession, HoldsUnit, Reserved, InTransaction
<1> QED BY <1>2, <1>3, <1>6, <1>7, <1>8

(* Nobody else is disturbed by the commit of a redemption.                 *)
LEMMA CommitCallLocal ==
    ASSUME LedgerOK, ShopInvariant, NEW p \in Workers, CommitCall(p)
    PROVE  RTypeOK' /\ OneInserter' /\ \A q \in Workers : CallOK(q)'
<1>1. /\ Commit(p) /\ EndCall(p, "receipt") /\ RTypeOK /\ TypeOK /\ rpc[p] = "commit"
  BY DEF CommitCall, ShopInvariant, LedgerOK, BalanceInvariant
<1>2. /\ stock' = [i \in Tracked |->
                     IF i = call[p].item THEN stock[i] - 1 ELSE stock[i]]
      /\ session' = [session EXCEPT ![call[p].token] = "used"]
  BY DEF CommitCall
<1>3. /\ stock' \in [Tracked -> Int]
      /\ session' \in [Tokens -> {"none", "valid", "expired", "used"}]
      /\ receipt' \in [Keys -> ReceiptType \cup {Null}]
  BY <1>1, <1>2, CommitCallFacts DEF RTypeOK
<1>4. /\ req'[p] = Null
      /\ \A q \in Workers \ {p} :
            pc'[q] = pc[q] /\ req'[q] = req[q] /\ row'[q] = row[q]
  BY <1>1, OneSessionMoves DEF Step, Commit, EndTransaction, TypeOK
<1>5. /\ RTypeOK' /\ CallOK(p)' /\ ~pending'[p]
      /\ \A q \in Workers \ {p} :
            /\ rpc'[q] = rpc[q] /\ call'[q] = call[q]
            /\ pending'[q] = pending[q] /\ after'[q] = after[q]
            /\ \A i \in Tracked : itemLock[i] = q => itemLock'[i] = q
            /\ \A t \in Tokens : sessionLock[t] = q => sessionLock'[t] = q
  BY <1>1, <1>3, <1>4, EndCallStep DEF Answers
<1>6. ASSUME NEW q \in Workers \ {p}
      PROVE  CallOK(q)'
  <2>1. \A i \in Tracked : itemLock[i] = q => stock'[i] = stock[i]
    BY <1>2, CommitCallFacts
  <2>2. \A t \in Tokens : sessionLock[t] = q => session'[t] = session[t]
    BY <1>1, <1>2, CommitCallFacts DEF RTypeOK
  <2>3. \A w \in Wallets : accountLock[w] = q =>
          credited'[w] = credited[w] /\ debited'[w] = debited[w]
    BY <1>1, SumsMove DEF LedgerOK
  <2>4. pending[q] => receipt'[call[q].key] = Null
    <3> SUFFICES ASSUME pending[q] PROVE receipt'[call[q].key] = Null
      OBVIOUS
    <3>1. receipt[call[q].key] = Null /\ rpc[q] # "none"
      BY DEF ShopInvariant, CallOK, KeyFree, Inserted
    <3>2. call[q].key \in Keys
      BY <1>1, <3>1, CallTyped
    <3>3. call[q].key # call[p].key
      BY CommitCallFacts DEF ShopInvariant, OneInserter
    <3> QED BY <3>1, <3>2, <3>3, CommitCallFacts
  <2>5. CallUndisturbed(q)
    BY <1>4, <1>5, <2>1, <2>2, <2>3, <2>4 DEF CallUndisturbed
  <2> QED BY <2>5, CallUndisturbedStep DEF ShopInvariant
<1>7. OneInserter'
  BY <1>5 DEF ShopInvariant, OneInserter
<1> QED BY <1>5, <1>6, <1>7

LEMMA CommitCallReceipts ==
    ASSUME LedgerOK, ShopInvariant, NEW p \in Workers, CommitCall(p)
    PROVE  ReceiptBacked' /\ ReceiptsCarried' /\ PaidOnce' /\ UsedIsPaid'
<1>1. Commit(p) /\ rpc[p] = "commit" /\ BalanceInvariant
  BY DEF CommitCall, LedgerOK
<1>2. ASSUME NEW k \in Keys, k # call[p].key
      PROVE  /\ receipt'[k] = receipt[k] /\ backing'[k] = backing[k]
             /\ ledger[k] = Null => ledger'[k] = Null
             /\ ledger[k] # Null =>
                  /\ ledger'[k] # Null
                  /\ ledger'[k].type = ledger[k].type
                  /\ ledger'[k].debit = ledger[k].debit
                  /\ ledger'[k].amount = ledger[k].amount
                  /\ ledger'[k].status = ledger[k].status
  BY <1>1, <1>2, CommitCallFacts, RowsKept, BackingKept
<1>3. /\ receipt'[call[p].key] # Null
      /\ backing'[call[p].key] = "completed"
      /\ ledger'[call[p].key] # Null
      /\ ledger'[call[p].key].type = "redeem"
      /\ ledger'[call[p].key].status = "posted"
      /\ ledger'[call[p].key].amount = Price[receipt'[call[p].key].item]
      /\ ledger'[call[p].key].debit = StudentOf[receipt'[call[p].key].token]
  <2>1. ledger'[call[p].key] = row[p] /\ backing'[call[p].key] = "completed"
    BY <1>1, CommitCallFacts, RowsKept, BackingKept
  <2>2. receipt'[call[p].key] # Null
    BY CommitCallFacts
  <2> QED BY <1>1, <2>1, <2>2, CommitCallFacts, RedemptionRow DEF ShopInvariant
<1>4. ReceiptBacked'
  <2> SUFFICES ASSUME NEW k \in Keys
      PROVE  /\ receipt'[k] # Null <=> ledger'[k] # Null /\ ledger'[k].type = "redeem"
             /\ receipt'[k] # Null =>
                  /\ ledger'[k].amount = Price[receipt'[k].item]
                  /\ ledger'[k].debit = StudentOf[receipt'[k].token]
                  /\ Redeemed(k)' <=> ledger'[k].status = "posted"
    BY DEF ReceiptBacked
  <2>1. CASE k = call[p].key
    BY <1>3, <2>1 DEF Redeemed
  <2>2. CASE k # call[p].key
    BY <1>2, <2>2 DEF ShopInvariant, ReceiptBacked, Redeemed
  <2> QED BY <2>1, <2>2
<1>5. ReceiptsCarried'
  BY <1>2, <1>3 DEF ShopInvariant, ReceiptsCarried
<1>6. \A k \in Keys : receipt[k] # Null => receipt[k].token # call[p].token
  BY CommitCallFacts DEF ShopInvariant, UsedIsPaid
<1>7. PaidOnce'
  BY <1>2, <1>6, CommitCallFacts DEF ShopInvariant, PaidOnce
<1>8. UsedIsPaid'
  <2>1. session' = [session EXCEPT ![call[p].token] = "used"]
    BY DEF CommitCall
  <2>2. \A t \in Tokens :
          session'[t] = IF t = call[p].token THEN "used" ELSE session[t]
    BY <2>1 DEF ShopInvariant, RTypeOK
  <2> SUFFICES ASSUME NEW t \in Tokens
               PROVE  session'[t] = "used" <=>
                        \E k \in Keys : receipt'[k] # Null /\ receipt'[k].token = t
    BY DEF UsedIsPaid
  <2>3. CASE t = call[p].token
    BY <1>3, <2>2, <2>3, CommitCallFacts
  <2>4. CASE t # call[p].token
    BY <1>2, <2>2, <2>4, CommitCallFacts DEF ShopInvariant, UsedIsPaid
  <2> QED BY <2>3, <2>4
<1> QED BY <1>4, <1>5, <1>7, <1>8

(* The unit that leaves the stock is the one on the new receipt.           *)
LEMMA CommitCallStock ==
    ASSUME LedgerOK, ShopInvariant, NEW p \in Workers, CommitCall(p)
    PROVE  StockConserved' /\ \A i \in Tracked : IsFiniteSet(Units(i))'
<1>1. Commit(p) /\ RTypeOK
  BY DEF CommitCall, ShopInvariant
<1>2. \A k \in Keys \ {call[p].key} : backing'[k] = backing[k] /\ receipt'[k] = receipt[k]
  BY <1>1, CommitCallFacts, BackingKept
<1>3. receipt'[call[p].key] # Null /\ backing'[call[p].key] = "completed"
  BY <1>1, CommitCallFacts, BackingKept
<1>4. ASSUME NEW i \in Tracked
      PROVE  /\ stock'[i] >= 0 /\ IsFiniteSet(Units(i)')
             /\ stock'[i] + Cardinality(Units(i)') = InitialStock[i]
  <2>1. stock'[i] = IF i = call[p].item THEN stock[i] - 1 ELSE stock[i]
    BY DEF CommitCall
  <2>2. /\ stock[i] >= 0 /\ stock[i] \in Int /\ IsFiniteSet(Units(i))
        /\ stock[i] + Cardinality(Units(i)) = InitialStock[i]
    BY <1>1, StockByUnits DEF ShopInvariant, RTypeOK
  <2>3. Cardinality(Units(i)) \in Nat
    BY <2>2, FS_CardinalityType
  <2>4. CASE i = call[p].item
    <3>1. Units(i)' = Units(i) \cup {call[p].key} /\ call[p].key \notin Units(i)
      BY <1>2, <1>3, <2>4, CommitCallFacts DEF Units, Redeemed
    <3>2. /\ IsFiniteSet(Units(i) \cup {call[p].key})
          /\ Cardinality(Units(i) \cup {call[p].key}) = Cardinality(Units(i)) + 1
      BY <2>2, <3>1, FS_AddElement
    <3>3. stock[i] > 0
      BY <2>4, CommitCallFacts
    <3>4. IsFiniteSet(Units(i)') /\ Cardinality(Units(i)') = Cardinality(Units(i)) + 1
      BY <3>1, <3>2
    <3> HIDE CallsAssumption
    <3> QED BY <2>1, <2>2, <2>3, <2>4, <3>3, <3>4
  <2>5. CASE i # call[p].item
    <3>1. Units(i)' = Units(i)
      BY <1>2, <1>3, <2>5, CommitCallFacts DEF Units, Redeemed
    <3> QED BY <2>1, <2>2, <2>5, <3>1
  <2> QED BY <2>4, <2>5
<1> QED BY <1>4, StockByUnits

LEMMA CommitCallStep ==
    ASSUME LedgerOK, ShopInvariant, NEW p \in Workers, CommitCall(p)
    PROVE  ShopInvariant'
BY CommitCallLocal, CommitCallReceipts, CommitCallStock DEF ShopInvariant

(* What the commit of anything but a redemption does to the rows that      *)
(* receipts rest on.                                                       *)
LEMMA CommitLedgerFacts ==
    ASSUME LedgerOK, ShopInvariant, NEW p \in Workers, CommitLedger(p),
           NEW k \in Keys
    PROVE  /\ receipt'[k] = receipt[k]
           /\ receipt[k] = Null => (ledger'[k] # Null => ledger'[k].type # "redeem")
           /\ receipt[k] # Null =>
                /\ ledger'[k] # Null
                /\ ledger'[k].type = ledger[k].type
                /\ ledger'[k].debit = ledger[k].debit
                /\ ledger'[k].amount = ledger[k].amount
                /\ IF MarksOriginal(p) /\ k = req[p].original
                   THEN /\ ledger[k].status = "posted"
                        /\ ledger'[k].status = "reversed"
                        /\ backing'[k] = "reversed"
                   ELSE /\ ledger'[k].status = ledger[k].status
                        /\ backing'[k] = backing[k]
<1>1. Commit(p) /\ receipt' = receipt /\ rpc[p] = "none" /\ BalanceInvariant
  BY DEF CommitLedger, LedgerOK
<1>2. req[p] # Null /\ req[p].op # "redeem"
  BY <1>1 DEF ShopInvariant, RTypeOK, Commit, BalanceInvariant, TypeOK
<1>3. CASE receipt[k] = Null
  <2>1. ledger[k] # Null => ledger[k].type # "redeem"
    BY <1>3 DEF ShopInvariant, ReceiptBacked
  <2>2. HoldsKey(p, k) => ledger'[k] = row[p] /\ row[p].type # "redeem"
    BY <1>1, <1>2, RowsKept, RowNamesOriginal DEF HoldsKey, LedgerOK
  <2> QED BY <1>1, <1>3, <2>1, <2>2, RowsKept
<1>4. CASE receipt[k] # Null
  <2>1. ledger[k] # Null /\ backing[k] # "none"
    BY <1>4 DEF ShopInvariant, ReceiptBacked, ReceiptsCarried
  <2>2. ~HoldsKey(p, k)
    BY <1>1, <2>1, RowsKept
  <2>3. MarksOriginal(p) /\ k = req[p].original => ledger[k].status = "posted"
    BY DEF MarksOriginal, LedgerOK, ReversalInvariant, HeldToReverse, Reversing
  <2> QED BY <1>1, <1>4, <2>1, <2>2, <2>3, RowsKept, BackingKept
<1> QED BY <1>3, <1>4

LEMMA CommitLedgerLocal ==
    ASSUME LedgerOK, ShopInvariant, NEW p \in Workers, CommitLedger(p)
    PROVE  RTypeOK' /\ OneInserter' /\ \A q \in Workers : CallOK(q)'
<1>1. /\ Commit(p) /\ Unlock(p) /\ UNCHANGED <<session, receipt, callVars>>
      /\ RTypeOK /\ TypeOK /\ rpc[p] = "none"
      /\ MustRestore(p) => itemLock[ItemReturned(p)] = p
      /\ stock' = IF MustRestore(p)
                  THEN [stock EXCEPT ![ItemReturned(p)] = @ + 1] ELSE stock
  BY DEF CommitLedger, ShopInvariant, LedgerOK, BalanceInvariant
<1> USE DEF callVars
<1>2. /\ req'[p] = Null
      /\ \A q \in Workers \ {p} :
            pc'[q] = pc[q] /\ req'[q] = req[q] /\ row'[q] = row[q]
  BY <1>1, OneSessionMoves DEF Step, Commit, EndTransaction, TypeOK
<1>3. RTypeOK'
  <2>1. stock' \in [Tracked -> Int]
    <3>1. stock \in [Tracked -> Int]
      BY <1>1 DEF RTypeOK
    <3>2. MustRestore(p) =>
            /\ ItemReturned(p) \in Tracked
            /\ stock' = [stock EXCEPT ![ItemReturned(p)] = stock[ItemReturned(p)] + 1]
      BY <1>1 DEF MustRestore
    <3>3. ~MustRestore(p) => stock' = stock
      BY <1>1
    <3> HIDE DEF ItemReturned, MustRestore
    <3> QED BY <3>1, <3>2, <3>3
  <2>2. /\ itemLock' \in [Tracked -> Workers \cup {Null}]
        /\ sessionLock' \in [Tokens -> Workers \cup {Null}]
    BY <1>1 DEF RTypeOK, Unlock
  <2> QED BY <1>1, <1>2, <2>1, <2>2 DEF RTypeOK
<1>4. ~pending[p]
  BY <1>1 DEF ShopInvariant, CallOK, KeyFree, Inserted
<1>5. CallOK(p)'
  BY <1>1, <1>4 DEF CallOK, CallUnderWay, HoldsUnit, HoldsSession, KeyFree, BalanceSeen,
     Reserved, InTransaction, Inserted
<1>6. ASSUME NEW q \in Workers \ {p}
      PROVE  CallOK(q)'
  <2>1. \A i \in Tracked : itemLock[i] = q => stock'[i] = stock[i]
    BY <1>1 DEF RTypeOK
  <2>2. \A w \in Wallets : accountLock[w] = q =>
          credited'[w] = credited[w] /\ debited'[w] = debited[w]
    BY <1>1, SumsMove DEF LedgerOK
  <2>3. CallUndisturbed(q)
    BY <1>1, <1>2, <2>1, <2>2, UnlockFreesOwn
    DEF CallUndisturbed, ShopInvariant, CallOK, KeyFree
  <2> QED BY <2>3, CallUndisturbedStep DEF ShopInvariant
<1>7. OneInserter'
  BY <1>1 DEF ShopInvariant, OneInserter
<1> QED BY <1>3, <1>5, <1>6, <1>7

LEMMA CommitLedgerReceipts ==
    ASSUME LedgerOK, ShopInvariant, NEW p \in Workers, CommitLedger(p)
    PROVE  ReceiptBacked' /\ ReceiptsCarried' /\ PaidOnce' /\ UsedIsPaid'
<1>1. ReceiptBacked'
  <2> SUFFICES ASSUME NEW k \in Keys
      PROVE  /\ receipt'[k] # Null <=> ledger'[k] # Null /\ ledger'[k].type = "redeem"
             /\ receipt'[k] # Null =>
                  /\ ledger'[k].amount = Price[receipt'[k].item]
                  /\ ledger'[k].debit = StudentOf[receipt'[k].token]
                  /\ Redeemed(k)' <=> ledger'[k].status = "posted"
    BY DEF ReceiptBacked
  <2> QED
    BY CommitLedgerFacts DEF ShopInvariant, ReceiptBacked, ReceiptsCarried, Redeemed
<1>2. ReceiptsCarried'
  BY CommitLedgerFacts DEF ShopInvariant, ReceiptsCarried
<1>3. PaidOnce' /\ UsedIsPaid'
  BY DEF CommitLedger, ShopInvariant, PaidOnce, UsedIsPaid
<1> QED BY <1>1, <1>2, <1>3

(* The unit of a reversed redemption returns with the reversal.            *)
LEMMA CommitLedgerStock ==
    ASSUME LedgerOK, ShopInvariant, NEW p \in Workers, CommitLedger(p)
    PROVE  StockConserved' /\ \A i \in Tracked : IsFiniteSet(Units(i))'
<1>1. /\ RTypeOK /\ receipt' = receipt /\ pc[p] = "commit" /\ rpc[p] = "none"
      /\ stock' = IF MustRestore(p)
                  THEN [stock EXCEPT ![ItemReturned(p)] = @ + 1] ELSE stock
      /\ req[p] # Null /\ req[p].original \in Keys
  BY RequestTyped
  DEF CommitLedger, Commit, ShopInvariant, LedgerOK, BalanceInvariant, TypeOK
<1> DEFINE o == req[p].original
<1>2. ASSUME NEW i \in Tracked
      PROVE  /\ stock'[i] >= 0 /\ IsFiniteSet(Units(i)')
             /\ stock'[i] + Cardinality(Units(i)') = InitialStock[i]
  <2>1. /\ stock[i] >= 0 /\ stock[i] \in Int /\ IsFiniteSet(Units(i))
        /\ stock[i] + Cardinality(Units(i)) = InitialStock[i]
    BY <1>1, StockByUnits DEF ShopInvariant, RTypeOK
  <2>2. Cardinality(Units(i)) \in Nat
    BY <2>1, FS_CardinalityType
  <2>3. CASE MustRestore(p) /\ i = ItemReturned(p)
    <3>1. MarksOriginal(p) /\ receipt[o] # Null /\ receipt[o].item = i
      BY <2>3 DEF MustRestore, ItemReturned
    <3>2. Units(i)' = Units(i) \ {o} /\ o \in Units(i)
      BY <1>1, <3>1, CommitLedgerFacts
      DEF Units, Redeemed, ShopInvariant, ReceiptBacked
    <3>3. /\ IsFiniteSet(Units(i) \ {o})
          /\ Cardinality(Units(i) \ {o}) = Cardinality(Units(i)) - 1
      BY <2>1, <3>2, FS_RemoveElement
    <3>4. IsFiniteSet(Units(i)') /\ Cardinality(Units(i)') = Cardinality(Units(i)) - 1
      BY <3>2, <3>3
    <3>5. stock'[i] = stock[i] + 1
      BY <1>1, <2>3 DEF RTypeOK
    <3> QED BY <2>1, <2>2, <3>4, <3>5
  <2>4. CASE ~(MustRestore(p) /\ i = ItemReturned(p))
    <3>1. stock'[i] = stock[i]
      BY <1>1, <2>4 DEF RTypeOK
    <3>2. ASSUME MarksOriginal(p), receipt[o] # Null
          PROVE  receipt[o].item # i
      BY <1>1, <2>4, <3>2 DEF MustRestore, ItemReturned
    <3>3. Units(i)' = Units(i)
      BY <1>1, <3>2, CommitLedgerFacts DEF Units, Redeemed
    <3> QED BY <2>1, <3>1, <3>3
  <2> QED BY <2>3, <2>4
<1> QED BY <1>2, StockByUnits

LEMMA CommitLedgerStep ==
    ASSUME LedgerOK, ShopInvariant, NEW p \in Workers, CommitLedger(p)
    PROVE  ShopInvariant'
BY CommitLedgerLocal, CommitLedgerReceipts, CommitLedgerStock DEF ShopInvariant

-----------------------------------------------------------------------------
(* The theorems.                                                           *)

LEMMA ShopInit == RInit => ShopInvariant
<1> SUFFICES ASSUME RInit PROVE ShopInvariant
  OBVIOUS
<1> USE DEF RInit, Init
<1>1. RTypeOK
  BY DEF RTypeOK, CallStatements, CallType
<1>2. ASSUME NEW p \in Workers PROVE CallOK(p)
  BY DEF CallOK, CallUnderWay, HoldsUnit, HoldsSession, KeyFree, BalanceSeen,
     Reserved, InTransaction, Inserted
<1>3. OneInserter /\ ReceiptBacked /\ ReceiptsCarried /\ PaidOnce /\ UsedIsPaid
  BY DEF OneInserter, ReceiptBacked, ReceiptsCarried, PaidOnce, UsedIsPaid
<1>4. ASSUME NEW i \in Tracked
      PROVE  /\ stock[i] >= 0 /\ IsFiniteSet(Units(i))
             /\ stock[i] + Cardinality(Units(i)) = InitialStock[i]
  <2>1. Units(i) = {}
    BY DEF Units, Redeemed
  <2> QED BY <2>1, FS_EmptySet
<1> QED BY <1>1, <1>2, <1>3, <1>4, StockByUnits DEF ShopInvariant

LEMMA ShopStep ==
    ASSUME LedgerOK, LedgerOK', ShopInvariant, [RNext]_<<vars, rvars>>
    PROVE  ShopInvariant'
<1>0. TypeOK'
  BY DEF LedgerOK, BalanceInvariant
<1>1. ASSUME NEW p \in Workers, CallStep(p) PROVE ShopInvariant'
  BY <1>0, <1>1, FindReceiptStep, ReserveStep, LockSessionStep, LoadStudentStep,
     ReadBeforeStep, InsertStep, RacedStep, MarkUsedStep, DebitStep, ReadAfterStep,
     CommitCallStep, PlainLedgerStep, RestoreInventoryStep, CommitLedgerStep
  DEF CallStep
<1>2. ASSUME NEW p \in Workers, StartCall(p) \/ StartLedgerCall(p) PROVE ShopInvariant'
  BY <1>2, StartCallStep, StartLedgerCallStep
<1>3. ASSUME NEW p \in Workers, Dies(p) \/ Victim(p) PROVE ShopInvariant'
  BY <1>3, FailsStep DEF Dies, Victim, Answers
<1>4. ASSUME NEW t \in Tokens, CreateSession(t) \/ Expire(t) \/ Purge(t)
      PROVE  ShopInvariant'
  BY <1>4, SessionStep
<1>5. ASSUME NEW w \in Wallets, FreezeWallet(w) PROVE ShopInvariant'
  BY <1>5, IdleShopStep DEF FreezeWallet, SetWalletStatus, locks
<1>6. CASE UNCHANGED <<vars, rvars>>
  BY <1>6, IdleShopStep DEF vars, locks
<1> QED BY <1>1, <1>2, <1>3, <1>4, <1>5, <1>6 DEF RNext

(* The lock discipline of redeem: a call past the reservation has its unit,*)
(* its QR session, its key and its balance to itself until it commits.     *)
THEOREM ShopInvariance == RSpec => []ShopInvariant
<1>1. Spec => []LedgerOK
  BY Invariance, ReversalInvariance, PTL DEF LedgerOK
<1>2. RSpec => []LedgerOK
  BY <1>1, ShopImplementsLedger, PTL DEF ImplementsLedger
<1>3. LedgerOK /\ LedgerOK' /\ ShopInvariant /\ [RNext]_<<vars, rvars>> => ShopInvariant'
  BY ShopStep
<1> QED BY <1>2, <1>3, ShopInit, PTL DEF RSpec

(* Every variable of the shop keeps its type, and a redeem call is at the  *)
(* statement of the ledger that redeem has reached.                        *)
THEOREM ShopTypeCorrect == RSpec => []RTypeOK
<1>1. ShopInvariant => RTypeOK
  BY DEF ShopInvariant
<1> QED BY <1>1, ShopInvariance, PTL

(* No item is oversold and no unit lost, whatever races, fails or dies     *)
(* (reserve_inventory, restore_inventory).                                 *)
THEOREM StockAddsUp == RSpec => []StockConserved
<1>1. ShopInvariant => StockConserved
  BY DEF ShopInvariant
<1> QED BY <1>1, ShopInvariance, PTL

(* A receipt exists exactly when the ledger has debited its student by the *)
(* price.                                                                  *)
THEOREM ReceiptsBacked == RSpec => []ReceiptBacked
<1>1. ShopInvariant => ReceiptBacked
  BY DEF ShopInvariant
<1> QED BY <1>1, ShopInvariance, PTL

(* A QR session pays for one receipt or none.                              *)
THEOREM SessionsPayOnce == RSpec => []SessionPaysOnce
<1>1. ShopInvariant => SessionPaysOnce
  <2> SUFFICES ASSUME ShopInvariant, NEW t \in Tokens
               PROVE  LET paid == {k \in Keys : receipt[k] # Null /\ receipt[k].token = t}
                      IN Cardinality(paid) = IF session[t] = "used" THEN 1 ELSE 0
    BY DEF SessionPaysOnce
  <2> DEFINE paid == {k \in Keys : receipt[k] # Null /\ receipt[k].token = t}
  <2>1. CASE session[t] = "used"
    <3>1. PICK k \in Keys : receipt[k] # Null /\ receipt[k].token = t
      BY <2>1 DEF ShopInvariant, UsedIsPaid
    <3>2. paid = {k}
      BY <3>1 DEF ShopInvariant, PaidOnce
    <3> QED BY <2>1, <3>2, FS_Singleton
  <2>2. CASE session[t] # "used"
    <3>1. paid = {}
      BY <2>2 DEF ShopInvariant, UsedIsPaid
    <3> QED BY <2>2, <3>1, FS_EmptySet
  <2> QED BY <2>1, <2>2
<1> QED BY <1>1, ShopInvariance, PTL

-----------------------------------------------------------------------------
(* What is printed on a receipt.                                           *)

(* A vendor has no answer while the call is under way.                     *)
CallUnanswered == \A p \in Workers : rpc[p] # "none" => answer[p] = "none"

(* A step of worker p answers nobody else, and answers p only as it ends   *)
(* the call.                                                               *)
AnswersOwn(p) ==
    /\ \A q \in Workers \ {p} : rpc'[q] = rpc[q] /\ answer'[q] = answer[q]
    /\ rpc'[p] # "none" => answer'[p] = "none"

LEMMA EndCallAnswersOwn ==
    ASSUME RTypeOK, NEW p \in Workers, NEW a, EndCall(p, a)
    PROVE  AnswersOwn(p) /\ answer'[p] = a
BY DEF EndCall, AnswersOwn, RTypeOK

LEMMA FailsAnswersOwn ==
    ASSUME RTypeOK, NEW p \in Workers, NEW a, Fails(p, a)
    PROVE  AnswersOwn(p) /\ answer'[p] = a
BY EndCallAnswersOwn DEF Fails

LEMMA ContinueAnswersOwn ==
    ASSUME RTypeOK, CallUnanswered, NEW p \in Workers, rpc[p] # "none", NEW s,
           Continue(p, s), UNCHANGED answer
    PROVE  AnswersOwn(p) /\ answer'[p] = "none"
BY DEF Continue, AnswersOwn, CallUnanswered, RTypeOK

(* Only its commit prints a receipt for a call that is about to commit.    *)
LEMMA CallStepAnswersOwn ==
    ASSUME RTypeOK, CallUnanswered, NEW p \in Workers, CallStep(p)
    PROVE  AnswersOwn(p) /\ (rpc[p] = "commit" => CommitCall(p))
<1>1. CASE PlainLedger(p) \/ RestoreInventory(p) \/ CommitLedger(p)
  BY <1>1 DEF PlainLedger, RestoreInventory, MustRestore, CommitLedger, rvars, callVars,
     AnswersOwn, CallUnanswered
<1>2. CASE FindReceipt(p) \/ Raced(p)
  BY <1>2, FailsAnswersOwn, ContinueAnswersOwn DEF FindReceipt, Raced, AnswerFromReceipt
<1>3. CASE Reserve(p)
  BY <1>3, FailsAnswersOwn, ContinueAnswersOwn DEF Reserve
<1>4. CASE LockSession(p) \/ MarkUsed(p)
  BY <1>4, FailsAnswersOwn, ContinueAnswersOwn DEF LockSession, MarkUsed
<1>5. CASE LoadStudent(p)
  BY <1>5, EndCallAnswersOwn, ContinueAnswersOwn DEF LoadStudent
<1>6. CASE ReadCredits(p) \/ ReadDebits(p) \/ ReadAfter(p)
  BY <1>6, ContinueAnswersOwn DEF ReadCredits, ReadDebits, ReadAfter
<1>7. CASE Insert(p)
  BY <1>7, ContinueAnswersOwn DEF Insert
<1>8. CASE Debit(p)
  BY <1>8, EndCallAnswersOwn, ContinueAnswersOwn DEF Debit
<1>9. CASE CommitCall(p)
  BY <1>9, EndCallAnswersOwn DEF CommitCall
<1> QED
  BY <1>1, <1>2, <1>3, <1>4, <1>5, <1>6, <1>7, <1>8, <1>9 DEF CallStep

LEMMA AnswerStep ==
    ASSUME RTypeOK, CallUnanswered, [RNext]_<<vars, rvars>>
    PROVE  /\ CallUnanswered'
           /\ \A p \in Workers :
                 rpc[p] = "commit" /\ answer'[p] = "receipt" => CommitCall(p)
<1>1. ASSUME NEW p \in Workers,
             AnswersOwn(p) /\ (rpc[p] = "commit" /\ answer'[p] = "receipt"
                                    => CommitCall(p))
      PROVE  /\ CallUnanswered'
             /\ \A q \in Workers :
                   rpc[q] = "commit" /\ answer'[q] = "receipt" => CommitCall(q)
  BY <1>1 DEF AnswersOwn, CallUnanswered
<1>2. ASSUME NEW p \in Workers,
             StartCall(p) \/ StartLedgerCall(p) \/ CallStep(p) \/ Dies(p) \/ Victim(p)
      PROVE  AnswersOwn(p) /\ (rpc[p] = "commit" /\ answer'[p] = "receipt"
                                    => CommitCall(p))
  <2>1. CASE StartCall(p) \/ StartLedgerCall(p)
    BY <2>1 DEF StartCall, StartLedgerCall, Continue, AnswersOwn, RTypeOK
  <2>2. CASE Dies(p) \/ Victim(p)
    BY <2>2, FailsAnswersOwn DEF Dies, Victim
  <2> QED BY <1>2, <2>1, <2>2, CallStepAnswersOwn
<1>3. CASE UNCHANGED <<rpc, answer>>
  BY <1>3 DEF CallUnanswered
<1>4. ASSUME NEW t \in Tokens, CreateSession(t) \/ Expire(t) \/ Purge(t)
      PROVE  UNCHANGED <<rpc, answer>>
  BY <1>4 DEF CreateSession, Expire, Purge, callVars
<1>5. ASSUME NEW w \in Wallets, FreezeWallet(w)
      PROVE  UNCHANGED <<rpc, answer>>
  BY <1>5 DEF FreezeWallet, rvars, callVars
<1>6. UNCHANGED <<vars, rvars>> => UNCHANGED <<rpc, answer>>
  BY DEF rvars, callVars
<1> QED BY <1>1, <1>2, <1>3, <1>4, <1>5, <1>6 DEF RNext

(* The balance seen by ReadAfter is the one CommitCall leaves: the account *)
(* has been locked in between.                                             *)
LEMMA CommitShowsBalance ==
    ASSUME LedgerOK, ShopInvariant, NEW p \in Workers, CommitCall(p)
    PROVE  LET w == StudentOf[call[p].token]
           IN receipt'[call[p].key].after = credited'[w] - debited'[w]
<1> DEFINE w == StudentOf[call[p].token]
<1>1. Commit(p) /\ rpc[p] = "commit" /\ RTypeOK /\ CallOK(p) /\ TypeOK
  BY DEF CommitCall, ShopInvariant, LedgerOK, BalanceInvariant
<1>2. /\ after[p] = credited[w] - debited[w] - row[p].amount
      /\ receipt'[call[p].key].after = after[p]
      /\ req[p] = LedgerCall(call[p]) /\ row[p] # Null
  BY <1>1, CommitCallFacts DEF CallOK, BalanceSeen, CallUnderWay, InTransaction
<1>3. row[p].debit = w /\ row[p].credit \notin Wallets /\ w \in Wallets
  <2>1. row[p].credit = "vendor_revenue"
    BY <1>2, RowNamesOriginal DEF LedgerOK, LedgerCall, CreditAccount
  <2>2. row[p].debit = w /\ w \in Wallets
    BY <1>1, RedemptionRow, CommitCallFacts
  <2> QED BY <2>1, <2>2 DEF SystemAccounts
<1>4. /\ credited \in [Accounts -> Nat] /\ debited \in [Accounts -> Nat]
      /\ row[p].amount \in Nat
  BY <1>1, <1>2, RowTyped DEF TypeOK
<1>5. credited'[w] = credited[w] /\ debited'[w] = debited[w] + row[p].amount
  BY <1>1, <1>2, <1>3, <1>4 DEF Commit, CreditedAfter, DebitedAfter, Accounts
<1> QED BY <1>2, <1>3, <1>4, <1>5 DEF Accounts

(* The balance printed on a receipt is the balance its commit leaves       *)
(* (redeem, lines 161-177), although it was read some statements earlier.  *)
THEOREM ReceiptsShowBalance == RSpec => ReceiptShowsBalance
<1>1. Spec => []LedgerOK
  BY Invariance, ReversalInvariance, PTL DEF LedgerOK
<1>2. RSpec => []LedgerOK
  BY <1>1, ShopImplementsLedger, PTL DEF ImplementsLedger
<1>3. RInit => CallUnanswered
  BY DEF RInit, CallUnanswered
<1>4. RTypeOK /\ CallUnanswered /\ [RNext]_<<vars, rvars>> => CallUnanswered'
  BY AnswerStep
<1>5. LedgerOK /\ ShopInvariant /\ CallUnanswered /\ [RNext]_<<vars, rvars>> =>
        [\A p \in Workers : rpc[p] = "commit" /\ answer'[p] = "receipt"
            => LET w == StudentOf[call[p].token]
               IN receipt'[call[p].key].after = credited'[w] - debited'[w]]_
          <<vars, rvars>>
  BY AnswerStep, CommitShowsBalance DEF ShopInvariant
<1> QED
  BY <1>2, <1>3, <1>4, <1>5, ShopInvariance, ShopTypeCorrect, PTL
  DEF RSpec, ReceiptShowsBalance
=============================================================================
