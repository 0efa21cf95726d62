---------------------------- MODULE LedgerProofs ----------------------------
(***************************************************************************)
(* No student wallet is ever negative, for any number of workers, wallets, *)
(* keys and amounts and any set of requests, key collisions included.      *)
(***************************************************************************)
EXTENDS LedgerService, TLAPS

USE AmountsAssumption, RequestsAssumption, AccountsAssumption, NullAssumption

(* The values a typed state gives to a worker that serves a request. *)
LEMMA RequestTyped ==
    ASSUME TypeOK, NEW p \in Workers, req[p] # Null
    PROVE  /\ req[p] \in RequestType
           /\ req[p].op \in Ops
           /\ req[p].key \in Keys
           /\ req[p].wallet \in Wallets
           /\ req[p].amount \in Nat
           /\ req[p].credit \in BOOLEAN
           /\ req[p].original \in Keys
BY DEF TypeOK, RequestType

(* A committed row is a record. *)
LEMMA RowTyped ==
    ASSUME NEW t \in TxRecord
    PROVE  /\ t.type \in Ops
           /\ t.debit \in Accounts
           /\ t.credit \in Accounts
           /\ t.amount \in Nat \ {0}
           /\ t.status \in {"posted", "reversed"}
           /\ t.reverses \in Keys \cup {Null}
           /\ t # Null
BY DEF TxRecord

(* The accounts and the amount a request works with once its original, if  *)
(* it has one, was found.                                                  *)
LEMMA EntriesTyped ==
    ASSUME TypeOK, NEW p \in Workers, req[p] # Null,
           req[p].op = "reversal" => Original(req[p]) # Null
    PROVE  /\ DebitAccount(req[p]) \in Accounts
           /\ CreditAccount(req[p]) \in Accounts
           /\ Amount(req[p]) \in Nat
           /\ Amount(req[p]) # 0 => NewRow(req[p]) \in TxRecord
<1>1. req[p].op \in Ops /\ req[p].wallet \in Wallets /\ req[p].original \in Keys
      /\ req[p].amount \in Nat /\ req[p].credit \in BOOLEAN
  BY RequestTyped
<1>2. req[p].op = "reversal" =>
        /\ Original(req[p]).debit \in Accounts
        /\ Original(req[p]).credit \in Accounts
        /\ Original(req[p]).amount \in Nat \ {0}
  BY <1>1, RowTyped DEF TypeOK, Original
<1>3. DebitAccount(req[p]) \in Accounts /\ CreditAccount(req[p]) \in Accounts
  BY <1>1, <1>2 DEF DebitAccount, CreditAccount, Ops, Accounts, SystemAccounts
<1>4. Amount(req[p]) \in Nat
  BY <1>1, <1>2 DEF Amount
<1>5. Amount(req[p]) # 0 => NewRow(req[p]) \in TxRecord
  BY <1>1, <1>3, <1>4 DEF NewRow, TxRecord
<1> QED BY <1>3, <1>4, <1>5

(* What a worker relies on between two statements: nobody moves its         *)
(* variables, takes its locks, changes the sums of an account it has       *)
(* locked, commits its key, or rewrites the entries of a committed row.    *)
Undisturbed(q) ==
    /\ pc'[q] = pc[q] /\ req'[q] = req[q] /\ row'[q] = row[q]
    /\ creditSum'[q] = creditSum[q]
    /\ \A w \in Wallets : accountLock[w] = q =>
          /\ accountLock'[w] = q
          /\ credited'[w] = credited[w]
          /\ debited'[w] = debited[w]
    /\ row[q] # Null => ledger'[req[q].key] = Null
    /\ \A k \in Keys : ledger[k] # Null =>
          /\ ledger'[k] # Null
          /\ ledger'[k].debit = ledger[k].debit
          /\ ledger'[k].credit = ledger[k].credit
          /\ ledger'[k].amount = ledger[k].amount

LEMMA UndisturbedStep ==
    ASSUME BalanceInvariant, NEW q \in Workers, Undisturbed(q)
    PROVE  (LockedReadStands(q) /\ OriginalFound(q) /\ RowPending(q))'
<1> USE DEF BalanceInvariant, Undisturbed
<1>1. CASE req[q] = Null
  BY <1>1, SMTT(20) DEF TypeOK, LockedReadStands, OriginalFound, RowPending
<1>2. CASE req[q] # Null
  <2>1. req[q].op \in Ops /\ req[q].wallet \in Wallets /\ req[q].original \in Keys
    BY <1>2, RequestTyped
  <2>2. Original(req[q]) # Null =>
          /\ (Original(req[q]) # Null)'
          /\ Original(req[q]).debit' = Original(req[q]).debit
          /\ Original(req[q]).credit' = Original(req[q]).credit
          /\ Original(req[q]).amount' = Original(req[q]).amount
    BY <2>1 DEF Original
  <2>3. (req[q].op = "reversal" => Original(req[q]) # Null) =>
          /\ WalletOf(req[q])' = WalletOf(req[q])
          /\ DebitAccount(req[q])' = DebitAccount(req[q])
          /\ Amount(req[q])' = Amount(req[q])
    BY <2>1, <2>2 DEF WalletOf, DebitAccount, Amount, Ops
  <2>4. pc[q] \in {"lockAccount", "sumCredits", "sumDebits", "existingKey",
                   "insertRow"} =>
          (req[q].op = "reversal" => Original(req[q]) # Null)
    BY <1>2 DEF OriginalFound
  <2>5. pc[q] \in {"sumCredits", "sumDebits"} => WalletOf(req[q]) \in Wallets
    BY <1>2, <2>1 DEF OriginalFound, WalletOf
  <2>6. LockedReadStands(q)'
    <3>1. (pc[q] \in {"sumCredits", "sumDebits"} =>
             accountLock[WalletOf(req[q])] = q)'
      BY <2>3, <2>4, <2>5 DEF LockedReadStands
    <3>2. (pc[q] = "sumDebits" => creditSum[q] = credited[WalletOf(req[q])])'
      <4> SUFFICES ASSUME pc[q] = "sumDebits"
                   PROVE  creditSum'[q] = credited'[WalletOf(req[q])']
        OBVIOUS
      <4>1. WalletOf(req[q])' = WalletOf(req[q]) /\ WalletOf(req[q]) \in Wallets
        BY <2>3, <2>4, <2>5
      <4>2. /\ accountLock[WalletOf(req[q])] = q
            /\ creditSum[q] = credited[WalletOf(req[q])]
        BY DEF LockedReadStands
      <4> QED BY <4>1, <4>2
    <3>3. (pc[q] \in {"existingKey", "insertRow"}
           /\ DebitAccount(req[q]) \in Wallets =>
             Covered(q, DebitAccount(req[q]), Amount(req[q])))'
      BY <2>3, <2>4 DEF LockedReadStands, Covered
    <3>4. (row[q] # Null /\ row[q].debit \in Wallets =>
             Covered(q, row[q].debit, row[q].amount))'
      BY DEF LockedReadStands, Covered
    <3> QED BY <3>1, <3>2, <3>3, <3>4 DEF LockedReadStands
  <2>7. OriginalFound(q)'
    BY <1>2, <2>2 DEF OriginalFound
  <2>8. RowPending(q)'
    BY <2>3, <2>4 DEF RowPending
  <2> QED BY <2>6, <2>7, <2>8
<1> QED BY <1>1, <1>2

(* A transaction that ends without a commit preserves the invariant. *)
LEMMA RollbackStep ==
    ASSUME BalanceInvariant, NEW p \in Workers, NEW answer \in Outcomes,
           Rollback(p, answer)
    PROVE  BalanceInvariant'
<1> USE DEF Rollback, EndTransaction, store
<1>1. TypeOK'
  BY DEF BalanceInvariant, TypeOK, Statements
<1>2. NonNegative'
  BY DEF BalanceInvariant, NonNegative
<1>3. \A q \in Workers : (LockedReadStands(q) /\ OriginalFound(q) /\ RowPending(q))'
  <2> SUFFICES ASSUME NEW q \in Workers
               PROVE  (LockedReadStands(q) /\ OriginalFound(q) /\ RowPending(q))'
    OBVIOUS
  <2>1. CASE q = p
    BY <2>1 DEF BalanceInvariant, TypeOK, LockedReadStands, OriginalFound, RowPending
  <2>2. CASE q # p
    <3>1. Undisturbed(q)
      BY <2>2 DEF BalanceInvariant, TypeOK, RowPending, Undisturbed
    <3> QED BY <3>1, UndisturbedStep
  <2> QED BY <2>1, <2>2
<1>4. LocksExclude'
  BY DEF BalanceInvariant, TypeOK, LocksExclude, SharesAccount, HoldsKey
<1> QED BY <1>1, <1>2, <1>3, <1>4 DEF BalanceInvariant

(* A statement of p that commits nothing preserves the invariant if it     *)
(* leaves p itself in order, takes only an account nobody shares and a key *)
(* nobody holds.                                                           *)
LEMMA StatementStep ==
    ASSUME BalanceInvariant, NEW p \in Workers, TypeOK', UNCHANGED store,
           (LockedReadStands(p) /\ OriginalFound(p) /\ RowPending(p))',
           \A q \in Workers \ {p} :
              /\ pc'[q] = pc[q] /\ req'[q] = req[q]
              /\ row'[q] = row[q] /\ creditSum'[q] = creditSum[q],
           \A w \in Wallets :
              \/ accountLock'[w] = accountLock[w]
              \/ /\ accountLock'[w] = p
                 /\ \A q \in Workers \ {p} :
                       accountLock[w] # q /\ ~SharesAccount(q, w),
           \A w \in Wallets : SharesAccount(p, w)' => accountLock'[w] \in {p, Null},
           \A k \in Keys : HoldsKey(p, k)' =>
              HoldsKey(p, k) \/ \A q \in Workers \ {p} : ~HoldsKey(q, k),
           \A k \in Keys : txLock'[k] # txLock[k] => ledger[k] # Null
    PROVE  BalanceInvariant'
<1>1. NonNegative'
  BY DEF BalanceInvariant, NonNegative, store
<1>2. ASSUME NEW q \in Workers \ {p}
      PROVE  /\ (LockedReadStands(q) /\ OriginalFound(q) /\ RowPending(q))'
             /\ \A w \in Wallets : SharesAccount(q, w)' = SharesAccount(q, w)
             /\ \A k \in Keys : HoldsKey(q, k)' = HoldsKey(q, k)
  <2>1. Undisturbed(q)
    BY <1>2 DEF BalanceInvariant, TypeOK, RowPending, Undisturbed, store
  <2>2. /\ \A w \in Wallets : SharesAccount(q, w)' = SharesAccount(q, w)
        /\ \A k \in Keys : HoldsKey(q, k)' = HoldsKey(q, k)
    BY <1>2 DEF SharesAccount, HoldsKey
  <2> QED BY <2>1, <2>2, UndisturbedStep
<1>3. LocksExclude'
  <2>1. ASSUME NEW q \in Workers, NEW w \in Wallets, SharesAccount(q, w)'
        PROVE  accountLock'[w] \in {q, Null}
    <3>1. CASE q = p
      BY <3>1, <2>1
    <3>2. CASE q # p
      <4>1. SharesAccount(q, w)
        BY <1>2, <2>1, <3>2
      <4>2. accountLock[w] \in {q, Null}
        BY <4>1 DEF BalanceInvariant, LocksExclude
      <4>3. accountLock'[w] = accountLock[w]
        BY <4>1, <3>2
      <4> QED BY <4>2, <4>3
    <3> QED BY <3>1, <3>2
  <2>2. ASSUME NEW q \in Workers, NEW r \in Workers, NEW k \in Keys,
               HoldsKey(q, k)', HoldsKey(r, k)'
        PROVE  q = r
    BY <1>2, <2>2 DEF BalanceInvariant, LocksExclude
  <2>3. \A k \in Keys : txLock'[k] # Null => ledger'[k] # Null
    BY DEF BalanceInvariant, LocksExclude, store
  <2> QED BY <2>1, <2>2, <2>3 DEF LocksExclude
<1> QED BY <1>1, <1>2, <1>3 DEF BalanceInvariant

-----------------------------------------------------------------------------
(* One lemma per statement.                                                *)

LEMMA BeginStep ==
    ASSUME BalanceInvariant, NEW p \in Workers, Begin(p)
    PROVE  BalanceInvariant'
<1> USE DEF Begin, Goto, locks
<1>1. TypeOK'
  BY DEF BalanceInvariant, TypeOK, Statements, Outcomes, store
<1>2. /\ pc'[p] \in {"reversalKey", "requireActive"} /\ row'[p] = Null
      /\ pc'[p] = "reversalKey" <=> req'[p].op = "reversal"
  BY DEF BalanceInvariant, TypeOK, RowPending
<1>3. (LockedReadStands(p) /\ OriginalFound(p) /\ RowPending(p))'
  BY <1>2 DEF LockedReadStands, OriginalFound, RowPending
<1>4. \A q \in Workers \ {p} :
         /\ pc'[q] = pc[q] /\ req'[q] = req[q]
         /\ row'[q] = row[q] /\ creditSum'[q] = creditSum[q]
  BY DEF BalanceInvariant, TypeOK
<1>5. /\ \A w \in Wallets : ~SharesAccount(p, w)'
      /\ \A k \in Keys : ~HoldsKey(p, k)'
  BY <1>2 DEF SharesAccount, HoldsKey
<1> QED BY <1>1, <1>3, <1>4, <1>5, StatementStep

LEMMA RequireActiveStep ==
    ASSUME BalanceInvariant, NEW p \in Workers, RequireActive(p)
    PROVE  BalanceInvariant'
<1>1. CASE Rollback(p, "refused")
  BY <1>1, RollbackStep DEF Outcomes
<1>2. CASE ~Rollback(p, "refused")
  <2> USE <1>2 DEF RequireActive, Goto, locks
  <2>1. TypeOK'
    BY DEF BalanceInvariant, TypeOK, Statements, store
  <2>2. req[p] # Null /\ req[p].op \in Ops
    BY RequestTyped DEF BalanceInvariant, TypeOK
  <2>3. /\ row'[p] = Null
        /\ pc'[p] = IF req[p].op = "earn" THEN "existingKey" ELSE "lockAccount"
        /\ req'[p] = req[p] /\ req[p].op # "reversal"
    BY <2>2 DEF BalanceInvariant, TypeOK, RowPending, OriginalFound
  <2>4. (LockedReadStands(p) /\ OriginalFound(p) /\ RowPending(p))'
    BY <2>3, AccountsAssumption DEF LockedReadStands, OriginalFound, RowPending,
       DebitAccount, SystemAccounts
  <2>5. \A q \in Workers \ {p} :
           /\ pc'[q] = pc[q] /\ req'[q] = req[q]
           /\ row'[q] = row[q] /\ creditSum'[q] = creditSum[q]
    BY DEF BalanceInvariant, TypeOK
  <2>6. /\ \A w \in Wallets : ~SharesAccount(p, w)'
        /\ \A k \in Keys : ~HoldsKey(p, k)'
    BY <2>3 DEF SharesAccount, HoldsKey
  <2> QED BY <2>1, <2>4, <2>5, <2>6, StatementStep
<1> QED BY <1>1, <1>2

LEMMA LockAccountStep ==
    ASSUME BalanceInvariant, NEW p \in Workers, LockAccount(p)
    PROVE  BalanceInvariant'
<1> USE DEF LockAccount, Goto
<1>1. req[p] # Null /\ row[p] = Null
  BY DEF BalanceInvariant, TypeOK, RowPending
<1>2. WalletOf(req[p]) \in Wallets
  BY <1>1, RequestTyped DEF BalanceInvariant, OriginalFound, WalletOf
<1>3. TypeOK'
  BY <1>2 DEF BalanceInvariant, TypeOK, Statements, store
<1>4. /\ req' = req /\ row' = row
      /\ pc'[p] = IF req[p].op = "adjustment" /\ req[p].credit
                  THEN "existingKey" ELSE "sumCredits"
      /\ accountLock'[WalletOf(req[p])] = p
      /\ WalletOf(req[p])' = WalletOf(req[p])
      /\ Original(req[p])' = Original(req[p])
  BY <1>2 DEF BalanceInvariant, TypeOK, store, WalletOf, Original
<1>5. LockedReadStands(p)'
  BY <1>1, <1>4, AccountsAssumption
  DEF LockedReadStands, DebitAccount, SystemAccounts
<1>6. OriginalFound(p)' /\ RowPending(p)'
  BY <1>1, <1>4 DEF BalanceInvariant, OriginalFound, RowPending
<1>7. \A w \in Wallets :
         \/ accountLock'[w] = accountLock[w]
         \/ /\ accountLock'[w] = p
            /\ \A q \in Workers \ {p} :
                  accountLock[w] # q /\ ~SharesAccount(q, w)
  BY <1>2 DEF BalanceInvariant, TypeOK, Blockers
<1>8. /\ \A w \in Wallets : ~SharesAccount(p, w)'
      /\ \A k \in Keys : ~HoldsKey(p, k)'
  BY <1>1, <1>4 DEF SharesAccount, HoldsKey
<1> QED
  BY <1>3, <1>5, <1>6, <1>7, <1>8, StatementStep DEF BalanceInvariant, TypeOK

LEMMA SumCreditsStep ==
    ASSUME BalanceInvariant, NEW p \in Workers, SumCredits(p)
    PROVE  BalanceInvariant'
<1> USE DEF SumCredits, Goto, locks
<1>1. req[p] # Null /\ row[p] = Null
  BY DEF BalanceInvariant, TypeOK, RowPending
<1>2. WalletOf(req[p]) \in Wallets
  BY <1>1, RequestTyped DEF BalanceInvariant, OriginalFound, WalletOf
<1>3. TypeOK'
  BY <1>2 DEF BalanceInvariant, TypeOK, Statements, store, Accounts
<1>4. /\ req' = req /\ row' = row /\ accountLock' = accountLock
      /\ pc'[p] = "sumDebits"
      /\ creditSum'[p] = credited'[WalletOf(req[p])]
      /\ accountLock[WalletOf(req[p])] = p
      /\ WalletOf(req[p])' = WalletOf(req[p])
      /\ Original(req[p])' = Original(req[p])
  BY <1>1 DEF BalanceInvariant, TypeOK, store, WalletOf, Original, LockedReadStands
<1>5. LockedReadStands(p)'
  BY <1>1, <1>4 DEF LockedReadStands
<1>6. OriginalFound(p)' /\ RowPending(p)'
  BY <1>1, <1>4 DEF BalanceInvariant, OriginalFound, RowPending
<1>7. /\ \A w \in Wallets : ~SharesAccount(p, w)'
      /\ \A k \in Keys : ~HoldsKey(p, k)'
  BY <1>1, <1>4 DEF SharesAccount, HoldsKey
<1> QED
  BY <1>3, <1>4, <1>5, <1>6, <1>7, StatementStep DEF BalanceInvariant, TypeOK

(* The account an operation debits is the one whose balance it has read.   *)
LEMMA SumDebitsStep ==
    ASSUME BalanceInvariant, NEW p \in Workers, SumDebits(p)
    PROVE  BalanceInvariant'
<1>1. CASE Rollback(p, "refused")
  BY <1>1, RollbackStep DEF Outcomes
<1>2. CASE ~Rollback(p, "refused")
  <2> USE <1>2 DEF SumDebits, Goto, locks
  <2>1. req[p] # Null /\ row[p] = Null
    BY DEF BalanceInvariant, TypeOK, RowPending
  <2>2. TypeOK'
    BY DEF BalanceInvariant, TypeOK, Statements, store
  <2>3. /\ req' = req /\ row' = row /\ accountLock' = accountLock
        /\ credited' = credited /\ debited' = debited
        /\ pc'[p] = "existingKey"
        /\ DebitAccount(req[p])' = DebitAccount(req[p])
        /\ Amount(req[p])' = Amount(req[p])
        /\ Original(req[p])' = Original(req[p])
    BY DEF BalanceInvariant, TypeOK, store, DebitAccount, Amount, Original
  <2>4. /\ WalletOf(req[p]) \in Wallets
        /\ accountLock[WalletOf(req[p])] = p
        /\ creditSum[p] = credited[WalletOf(req[p])]
        /\ creditSum[p] - debited[WalletOf(req[p])] >= Amount(req[p])
    BY <2>1, RequestTyped DEF BalanceInvariant, OriginalFound, WalletOf,
       LockedReadStands
  <2>5. DebitAccount(req[p]) \in Wallets => DebitAccount(req[p]) = WalletOf(req[p])
    BY <2>1, RequestTyped, AccountsAssumption
    DEF BalanceInvariant, DebitAccount, WalletOf, Ops, SystemAccounts
  <2>6. DebitAccount(req[p]) \in Wallets =>
          Covered(p, DebitAccount(req[p]), Amount(req[p]))
    <3>1. /\ Amount(req[p]) \in Nat
          /\ credited[WalletOf(req[p])] \in Nat /\ debited[WalletOf(req[p])] \in Nat
      BY <2>1, <2>4, EntriesTyped DEF BalanceInvariant, TypeOK, OriginalFound, Accounts
    <3> QED BY <2>4, <2>5, <3>1 DEF Covered
  <2>7. LockedReadStands(p)'
    BY <2>1, <2>3, <2>6 DEF LockedReadStands, Covered
  <2>8. OriginalFound(p)' /\ RowPending(p)'
    BY <2>1, <2>3 DEF BalanceInvariant, OriginalFound, RowPending
  <2>9. /\ \A w \in Wallets : ~SharesAccount(p, w)'
        /\ \A k \in Keys : ~HoldsKey(p, k)'
    BY <2>1, <2>3 DEF SharesAccount, HoldsKey
  <2> QED
    BY <2>2, <2>3, <2>7, <2>8, <2>9, StatementStep DEF BalanceInvariant, TypeOK
<1> QED BY <1>1, <1>2

LEMMA ReversalKeyStep ==
    ASSUME BalanceInvariant, NEW p \in Workers, ReversalKey(p)
    PROVE  BalanceInvariant'
<1>1. CASE Rollback(p, "refused")
  BY <1>1, RollbackStep DEF Outcomes
<1>2. CASE ~Rollback(p, "refused")
  <2> USE <1>2 DEF ReversalKey, Goto, locks
  <2>1. req[p] # Null /\ row[p] = Null
    BY DEF BalanceInvariant, TypeOK, RowPending
  <2>2. TypeOK'
    BY DEF BalanceInvariant, TypeOK, Statements, store
  <2>3. /\ req' = req /\ row' = row /\ accountLock' = accountLock
        /\ creditSum' = creditSum /\ UNCHANGED store
        /\ pc'[p] \in {"lockOriginal", "commit"}
        /\ req[p].op = "reversal"
    BY <2>1 DEF BalanceInvariant, TypeOK, OriginalFound
  <2>4. (LockedReadStands(p) /\ OriginalFound(p) /\ RowPending(p))'
    BY <2>1, <2>3 DEF LockedReadStands, OriginalFound, RowPending
  <2>5. /\ \A w \in Wallets : ~SharesAccount(p, w)'
        /\ \A k \in Keys : ~HoldsKey(p, k)'
    BY <2>1, <2>3 DEF SharesAccount, HoldsKey
  <2> QED
    BY <2>2, <2>3, <2>4, <2>5, StatementStep DEF BalanceInvariant, TypeOK
<1> QED BY <1>1, <1>2

(* A reversal that skips the balance check debits no student wallet. *)
LEMMA LockOriginalStep ==
    ASSUME BalanceInvariant, NEW p \in Workers, LockOriginal(p)
    PROVE  BalanceInvariant'
<1>1. CASE Rollback(p, "refused")
  BY <1>1, RollbackStep DEF Outcomes
<1>2. CASE ~Rollback(p, "refused")
  <2> USE <1>2 DEF LockOriginal, Goto
  <2>1. req[p] # Null /\ row[p] = Null /\ req[p].op = "reversal"
    BY DEF BalanceInvariant, TypeOK, RowPending, OriginalFound
  <2>2. req[p].original \in Keys
    BY <2>1, RequestTyped DEF BalanceInvariant
  <2>3. TypeOK'
    BY <2>2 DEF BalanceInvariant, TypeOK, Statements, store
  <2>4. /\ req' = req /\ row' = row /\ accountLock' = accountLock
        /\ creditSum' = creditSum /\ UNCHANGED store
        /\ Original(req[p])' = Original(req[p])
        /\ Original(req[p]) # Null
        /\ pc'[p] = IF Original(req[p]).credit \in Wallets
                    THEN "lockAccount" ELSE "existingKey"
    BY DEF BalanceInvariant, TypeOK, Original, store
  <2>5. DebitAccount(req[p])' = Original(req[p]).credit
    BY <2>1, <2>4 DEF DebitAccount
  <2>6. (LockedReadStands(p) /\ OriginalFound(p) /\ RowPending(p))'
    BY <2>1, <2>4, <2>5 DEF LockedReadStands, OriginalFound, RowPending
  <2>7. /\ \A w \in Wallets : ~SharesAccount(p, w)'
        /\ \A k \in Keys : ~HoldsKey(p, k)'
    BY <2>1, <2>4 DEF SharesAccount, HoldsKey
  <2>8. \A k \in Keys : txLock'[k] # txLock[k] => ledger[k] # Null
    BY <2>2, <2>4 DEF BalanceInvariant, TypeOK, Original
  <2> QED
    BY <2>3, <2>4, <2>6, <2>7, <2>8, StatementStep DEF BalanceInvariant, TypeOK
<1> QED BY <1>1, <1>2

LEMMA ExistingKeyStep ==
    ASSUME BalanceInvariant, NEW p \in Workers, ExistingKey(p)
    PROVE  BalanceInvariant'
<1>1. CASE Rollback(p, "refused")
  BY <1>1, RollbackStep DEF Outcomes
<1>2. CASE ~Rollback(p, "refused")
  <2> USE <1>2 DEF ExistingKey, Goto, locks
  <2>1. req[p] # Null /\ row[p] = Null
    BY DEF BalanceInvariant, TypeOK, RowPending
  <2>2. TypeOK'
    BY DEF BalanceInvariant, TypeOK, Statements, store
  <2>3. /\ req' = req /\ row' = row /\ accountLock' = accountLock
        /\ creditSum' = creditSum /\ UNCHANGED store
        /\ pc'[p] \in {"insertRow", "commit"}
        /\ pc'[p] = "insertRow" => Amount(req[p]) # 0
    BY DEF BalanceInvariant, TypeOK
  <2>4. /\ DebitAccount(req[p])' = DebitAccount(req[p])
        /\ Amount(req[p])' = Amount(req[p])
        /\ Original(req[p])' = Original(req[p])
    BY <2>3 DEF store, DebitAccount, Amount, Original
  <2>5. LockedReadStands(p)'
    BY <2>1, <2>3, <2>4 DEF BalanceInvariant, LockedReadStands, Covered, store
  <2>6. OriginalFound(p)' /\ RowPending(p)'
    BY <2>1, <2>3, <2>4 DEF BalanceInvariant, OriginalFound, RowPending
  <2>7. /\ \A w \in Wallets : ~SharesAccount(p, w)'
        /\ \A k \in Keys : ~HoldsKey(p, k)'
    BY <2>1, <2>3 DEF SharesAccount, HoldsKey
  <2> QED
    BY <2>2, <2>3, <2>5, <2>6, <2>7, StatementStep DEF BalanceInvariant, TypeOK
<1> QED BY <1>1, <1>2

LEMMA InsertRowStep ==
    ASSUME BalanceInvariant, NEW p \in Workers, InsertRow(p)
    PROVE  BalanceInvariant'
<1>1. CASE Rollback(p, "refused")
  BY <1>1, RollbackStep DEF Outcomes
<1>2. CASE ~Rollback(p, "refused")
  <2> USE <1>2 DEF InsertRow, Goto, locks
  <2>1. req[p] # Null /\ row[p] = Null /\ Amount(req[p]) # 0
    BY DEF BalanceInvariant, TypeOK, RowPending
  <2>2. NewRow(req[p]) \in TxRecord
    BY <2>1, EntriesTyped DEF BalanceInvariant, OriginalFound
  <2>3. TypeOK'
    BY <2>2 DEF BalanceInvariant, TypeOK, Statements, store
  <2>4. /\ req' = req /\ accountLock' = accountLock
        /\ creditSum' = creditSum /\ UNCHANGED store
        /\ pc'[p] = "insertEntries"
        /\ ledger[req[p].key] = Null
        /\ row'[p] = NewRow(req[p]) /\ row'[p] # Null
    BY <2>2, RowTyped DEF BalanceInvariant, TypeOK
  <2>5. row'[p].debit = DebitAccount(req[p]) /\ row'[p].amount = Amount(req[p])
    BY <2>4 DEF NewRow
  <2>6. LockedReadStands(p)'
    BY <2>4, <2>5 DEF BalanceInvariant, LockedReadStands, Covered, store
  <2>7. OriginalFound(p)' /\ RowPending(p)'
    BY <2>4 DEF BalanceInvariant, OriginalFound, RowPending, store
  <2>8. /\ \A w \in Wallets : ~SharesAccount(p, w)'
        /\ \A k \in Keys : HoldsKey(p, k)' =>
              \A q \in Workers \ {p} : ~HoldsKey(q, k)
    BY <2>4 DEF SharesAccount, HoldsKey, Blockers
  <2> QED
    BY <2>3, <2>4, <2>6, <2>7, <2>8, StatementStep DEF BalanceInvariant, TypeOK
<1> QED BY <1>1, <1>2

LEMMA InsertEntriesStep ==
    ASSUME BalanceInvariant, NEW p \in Workers, InsertEntries(p)
    PROVE  BalanceInvariant'
<1> USE DEF InsertEntries, Goto, locks
<1>1. TypeOK'
  BY DEF BalanceInvariant, TypeOK, Statements, store
<1>2. /\ req' = req /\ row' = row /\ accountLock' = accountLock
      /\ creditSum' = creditSum /\ UNCHANGED store
      /\ pc'[p] = "commit" /\ row[p] # Null
  BY DEF BalanceInvariant, TypeOK, RowPending
<1>3. LockedReadStands(p)'
  BY <1>2 DEF BalanceInvariant, LockedReadStands, Covered, store
<1>4. OriginalFound(p)' /\ RowPending(p)'
  BY <1>2 DEF BalanceInvariant, OriginalFound, RowPending, store
<1>5. \A w \in Wallets : SharesAccount(p, w)' => accountLock'[w] \in {p, Null}
  BY <1>2 DEF BalanceInvariant, TypeOK, SharesAccount, Blockers
<1>6. \A k \in Keys : HoldsKey(p, k)' => HoldsKey(p, k)
  BY <1>2 DEF HoldsKey
<1> QED
  BY <1>1, <1>2, <1>3, <1>4, <1>5, <1>6, StatementStep DEF BalanceInvariant, TypeOK

-----------------------------------------------------------------------------
(* The commit.                                                             *)

(* Rows only appear or are marked; nobody else's pending key is taken.     *)
LEMMA LedgerGrows ==
    ASSUME BalanceInvariant, NEW p \in Workers, Commit(p)
    PROVE  /\ ledger' \in [Keys -> TxRecord \cup {Null}]
           /\ \A k \in Keys : ledger[k] # Null =>
                /\ ledger'[k] # Null
                /\ ledger'[k].debit = ledger[k].debit
                /\ ledger'[k].credit = ledger[k].credit
                /\ ledger'[k].amount = ledger[k].amount
           /\ \A k \in Keys : ledger[k] = Null /\ ~HoldsKey(p, k) => ledger'[k] = Null
<1> USE DEF BalanceInvariant, Commit, LedgerAfter, HoldsKey
<1>1. \A k \in Keys : MarksOriginal(p) /\ k = req[p].original => ledger[k] # Null
  BY DEF MarksOriginal, LocksExclude
<1>2. row[p] # Null => row[p] \in TxRecord /\ ledger[req[p].key] = Null
  BY DEF TypeOK, RowPending
<1>3. \A k \in Keys : ledger[k] # Null =>
        /\ ledger[k] \in TxRecord
        /\ [ledger[k] EXCEPT !.status = "reversed"] \in TxRecord
        /\ [ledger[k] EXCEPT !.status = "reversed"].debit = ledger[k].debit
        /\ [ledger[k] EXCEPT !.status = "reversed"].credit = ledger[k].credit
        /\ [ledger[k] EXCEPT !.status = "reversed"].amount = ledger[k].amount
  BY DEF TypeOK, TxRecord
<1>4. ASSUME NEW k \in Keys
      PROVE  /\ ledger'[k] \in TxRecord \cup {Null}
             /\ ledger[k] # Null =>
                  /\ ledger'[k] # Null
                  /\ ledger'[k].debit = ledger[k].debit
                  /\ ledger'[k].credit = ledger[k].credit
                  /\ ledger'[k].amount = ledger[k].amount
             /\ ledger[k] = Null /\ ~HoldsKey(p, k) => ledger'[k] = Null
  <2>1. CASE row[p] # Null /\ k = req[p].key
    BY <1>2, <2>1
  <2>2. CASE ~(row[p] # Null /\ k = req[p].key) /\ MarksOriginal(p) /\ k = req[p].original
    <3>1. ledger'[k] = [ledger[k] EXCEPT !.status = "reversed"]
      BY <2>2
    <3> QED BY <1>1, <1>3, <2>2, <3>1, NullAssumption
  <2>3. CASE ~(row[p] # Null /\ k = req[p].key) /\ ~(MarksOriginal(p) /\ k = req[p].original)
    BY <2>3 DEF TypeOK
  <2> QED BY <2>1, <2>2, <2>3
<1>5. ledger' = [k \in Keys |-> ledger'[k]]
  BY DEF Commit, LedgerAfter
<1> QED BY <1>4, <1>5

(* The sums move by the committed row, which an account locked by somebody *)
(* else is not part of.                                                    *)
LEMMA SumsMove ==
    ASSUME BalanceInvariant, NEW p \in Workers, Commit(p)
    PROVE  /\ credited' \in [Accounts -> Nat]
           /\ debited' \in [Accounts -> Nat]
           /\ NonNegative'
           /\ \A q \in Workers \ {p}, w \in Wallets : accountLock[w] = q =>
                credited'[w] = credited[w] /\ debited'[w] = debited[w]
<1> USE DEF BalanceInvariant, TypeOK, Commit, CreditedAfter, DebitedAfter
<1>1. CASE row[p] = Null
  BY <1>1 DEF NonNegative
<1>2. CASE row[p] # Null
  <2>1. /\ row[p].debit \in Accounts /\ row[p].credit \in Accounts
        /\ row[p].amount \in Nat
    BY <1>2, RowTyped
  <2>2. /\ credited' \in [Accounts -> Nat]
        /\ debited' \in [Accounts -> Nat]
        /\ \A a \in Accounts :
             /\ credited'[a] = credited[a] + (IF a = row[p].credit THEN row[p].amount ELSE 0)
             /\ debited'[a] = debited[a] + (IF a = row[p].debit THEN row[p].amount ELSE 0)
    BY <1>2, <2>1
  <2>3. NonNegative'
    <3> SUFFICES ASSUME NEW w \in Wallets PROVE debited'[w] <= credited'[w]
      BY DEF NonNegative
    <3>1. w \in Accounts /\ credited[w] \in Nat /\ debited[w] \in Nat
      BY DEF Accounts
    <3>2. debited[w] <= credited[w]
      BY DEF NonNegative
    <3>3. w = row[p].debit => row[p].amount <= credited[w] - debited[w]
      BY <1>2 DEF LockedReadStands, Covered
    <3> QED BY <2>1, <2>2, <3>1, <3>2, <3>3
  <2>4. ASSUME NEW q \in Workers \ {p}, NEW w \in Wallets, accountLock[w] = q
        PROVE  credited'[w] = credited[w] /\ debited'[w] = debited[w]
    <3>1. w # row[p].debit /\ w # row[p].credit
      BY <1>2, <2>4, NullAssumption DEF LocksExclude, SharesAccount
    <3>2. w \in Accounts /\ credited[w] \in Nat /\ debited[w] \in Nat
      BY DEF Accounts
    <3> QED BY <2>2, <3>1, <3>2
  <2> QED BY <2>2, <2>3, <2>4
<1> QED BY <1>1, <1>2

LEMMA CommitStep ==
    ASSUME BalanceInvariant, NEW p \in Workers, Commit(p)
    PROVE  BalanceInvariant'
<1>grows. \A k \in Keys : ledger[k] # Null =>
            /\ ledger'[k] # Null
            /\ ledger'[k].debit = ledger[k].debit
            /\ ledger'[k].credit = ledger[k].credit
            /\ ledger'[k].amount = ledger[k].amount
  BY LedgerGrows
<1>sums. \A q \in Workers \ {p}, w \in Wallets : accountLock[w] = q =>
            credited'[w] = credited[w] /\ debited'[w] = debited[w]
  BY SumsMove
<1> USE DEF Commit, EndTransaction
<1>1. backing' \in [Keys -> {"none", "completed", "reversed"}]
  BY DEF BalanceInvariant, TypeOK, BackingAfter
<1>2. TypeOK'
  <2>1. /\ ledger' \in [Keys -> TxRecord \cup {Null}]
        /\ credited' \in [Accounts -> Nat]
        /\ debited' \in [Accounts -> Nat]
    BY LedgerGrows, SumsMove
  <2>2. /\ active' \in [Wallets -> BOOLEAN]
        /\ accountLock' \in [Wallets -> Workers \cup {Null}]
        /\ txLock' \in [Keys -> Workers \cup {Null}]
        /\ creditSum' \in [Workers -> Nat]
    BY DEF BalanceInvariant, TypeOK
  <2>3. /\ pc' \in [Workers -> Statements]
        /\ req' \in [Workers -> Requests \cup {Null}]
        /\ row' \in [Workers -> TxRecord \cup {Null}]
        /\ outcome' \in [Workers -> Outcomes]
    BY DEF BalanceInvariant, TypeOK, Statements, Outcomes
  <2>4. \A q \in Workers : req'[q] = Null <=> pc'[q] = "idle"
    BY DEF BalanceInvariant, TypeOK
  <2> QED BY <1>1, <2>1, <2>2, <2>3, <2>4 DEF TypeOK
<1>3. NonNegative'
  BY SumsMove
<1>4. ASSUME NEW q \in Workers
      PROVE  (LockedReadStands(q) /\ OriginalFound(q) /\ RowPending(q))'
  <2>1. CASE q = p
    BY <2>1 DEF BalanceInvariant, TypeOK, LockedReadStands, OriginalFound, RowPending
  <2>2. CASE q # p
    <3>1. row[q] # Null => ledger'[req[q].key] = Null
      <4> SUFFICES ASSUME row[q] # Null PROVE ledger'[req[q].key] = Null
        OBVIOUS
      <4>1. req[q] # Null /\ ledger[req[q].key] = Null
        BY DEF BalanceInvariant, RowPending, TypeOK
      <4>2. req[q].key \in Keys
        BY <4>1, RequestTyped DEF BalanceInvariant
      <4>3. ~HoldsKey(p, req[q].key)
        BY <2>2, <4>2 DEF BalanceInvariant, LocksExclude, HoldsKey
      <4> QED BY <4>1, <4>2, <4>3, LedgerGrows
    <3>2. /\ pc'[q] = pc[q] /\ req'[q] = req[q] /\ row'[q] = row[q]
          /\ creditSum'[q] = creditSum[q]
          /\ \A w \in Wallets : accountLock[w] = q => accountLock'[w] = q
      BY <2>2 DEF BalanceInvariant, TypeOK
    <3>3. Undisturbed(q)
      <4>1. \A w \in Wallets : accountLock[w] = q =>
              credited'[w] = credited[w] /\ debited'[w] = debited[w]
        BY <1>sums, <2>2
      <4> HIDE DEF Commit, EndTransaction
      <4> QED BY <1>grows, <3>1, <3>2, <4>1 DEF Undisturbed
    <3> QED BY <3>3, UndisturbedStep
  <2> QED BY <2>1, <2>2
<1>5. LocksExclude'
  <2>1. \A q \in Workers, w \in Wallets :
          SharesAccount(q, w)' => SharesAccount(q, w) /\ q # p
    BY DEF BalanceInvariant, TypeOK, SharesAccount
  <2>2. \A q \in Workers, k \in Keys : HoldsKey(q, k)' => HoldsKey(q, k)
    BY DEF BalanceInvariant, TypeOK, HoldsKey
  <2>3. \A w \in Wallets : accountLock'[w] \in {accountLock[w], Null}
    BY DEF BalanceInvariant, TypeOK
  <2>4. \A k \in Keys : txLock'[k] # Null => ledger'[k] # Null
    BY LedgerGrows DEF BalanceInvariant, TypeOK, LocksExclude
  <2> QED BY <2>1, <2>2, <2>3, <2>4 DEF BalanceInvariant, LocksExclude
<1> QED BY <1>2, <1>3, <1>4, <1>5 DEF BalanceInvariant

LEMMA SetWalletStatusStep ==
    ASSUME BalanceInvariant, NEW w \in Wallets, SetWalletStatus(w)
    PROVE  BalanceInvariant'
<1> USE DEF SetWalletStatus, store, locks, local
<1>1. TypeOK' /\ NonNegative'
  BY DEF BalanceInvariant, TypeOK, NonNegative
<1>2. ASSUME NEW q \in Workers
      PROVE  (LockedReadStands(q) /\ OriginalFound(q) /\ RowPending(q))'
  BY UndisturbedStep DEF BalanceInvariant, RowPending, Undisturbed
<1>3. LocksExclude'
  BY DEF BalanceInvariant, LocksExclude, SharesAccount, HoldsKey
<1> QED BY <1>1, <1>2, <1>3 DEF BalanceInvariant

-----------------------------------------------------------------------------
(* The theorems.                                                           *)

LEMMA InvariantInit == Init => BalanceInvariant
<1> SUFFICES ASSUME Init PROVE BalanceInvariant
  OBVIOUS
<1> USE DEF Init
<1>1. TypeOK
  BY DEF TypeOK, Statements, Outcomes
<1>2. NonNegative
  BY DEF NonNegative, Accounts
<1>3. ASSUME NEW p \in Workers
      PROVE  LockedReadStands(p) /\ OriginalFound(p) /\ RowPending(p)
  BY DEF LockedReadStands, OriginalFound, RowPending
<1>4. LocksExclude
  BY DEF LocksExclude, SharesAccount, HoldsKey
<1> QED BY <1>1, <1>2, <1>3, <1>4 DEF BalanceInvariant

LEMMA InvariantStep == BalanceInvariant /\ [Next]_vars => BalanceInvariant'
<1> SUFFICES ASSUME BalanceInvariant, [Next]_vars PROVE BalanceInvariant'
  OBVIOUS
<1>1. ASSUME NEW p \in Workers, Begin(p) PROVE BalanceInvariant'
  BY <1>1, BeginStep
<1>2. ASSUME NEW p \in Workers, Step(p) PROVE BalanceInvariant'
  BY <1>2, RequireActiveStep, LockAccountStep, SumCreditsStep, SumDebitsStep,
     ReversalKeyStep, LockOriginalStep, ExistingKeyStep, InsertRowStep,
     InsertEntriesStep, CommitStep
  DEF Step
<1>3. ASSUME NEW p \in Workers, Crash(p) \/ DeadlockVictim(p) PROVE BalanceInvariant'
  BY <1>3, RollbackStep DEF Crash, DeadlockVictim, Outcomes
<1>4. ASSUME NEW w \in Wallets, SetWalletStatus(w) PROVE BalanceInvariant'
  BY <1>4, SetWalletStatusStep
<1>5. CASE UNCHANGED vars
  <2> USE <1>5 DEF vars, store, locks, local
  <2>1. TypeOK' /\ NonNegative'
    BY DEF BalanceInvariant, TypeOK, NonNegative
  <2>2. ASSUME NEW q \in Workers
        PROVE  (LockedReadStands(q) /\ OriginalFound(q) /\ RowPending(q))'
    BY UndisturbedStep DEF BalanceInvariant, RowPending, Undisturbed
  <2>3. LocksExclude'
    BY DEF BalanceInvariant, LocksExclude, SharesAccount, HoldsKey
  <2> QED BY <2>1, <2>2, <2>3 DEF BalanceInvariant
<1> QED BY <1>1, <1>2, <1>3, <1>4, <1>5 DEF Next

(* What a session has checked under its locks stays true until it commits. *)
THEOREM Invariance == Spec => []BalanceInvariant
<1> QED BY InvariantInit, InvariantStep, PTL DEF Spec

(* Every variable keeps its type. *)
THEOREM TypeCorrect == Spec => []TypeOK
<1>1. BalanceInvariant => TypeOK
  BY DEF BalanceInvariant
<1> QED BY <1>1, Invariance, PTL

(* No student wallet is ever negative: no set of requests, however their   *)
(* keys collide and their statements interleave, spends credits twice.     *)
THEOREM Solvent == Spec => []NonNegative
<1>1. BalanceInvariant => NonNegative
  BY DEF BalanceInvariant
<1> QED BY <1>1, Invariance, PTL
=============================================================================
