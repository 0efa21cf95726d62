--------------------------- MODULE ReversalProofs ---------------------------
(***************************************************************************)
(* A transaction is reversed once, and a success is answered only for what *)
(* was asked, provided a key means one thing; hence the ledger implements  *)
(* AtomicLedger.  Without that proviso the run ledger_f3 reverses a        *)
(* transaction and returns no money.  If moreover no reversal is reversed, *)
(* the events, redemptions and adjustments in force add up to the balance. *)
(***************************************************************************)
EXTENDS LedgerProofs, FiniteSetTheorems

USE AmountsAssumption, RequestsAssumption, AccountsAssumption, NullAssumption

(* The uncommitted row of a session is still the one its request describes.*)
RowAsAsked(p) == row[p] # Null => row[p] = NewRow(req[p])

PastLock == {"lockAccount", "sumCredits", "sumDebits", "existingKey",
             "insertRow", "insertEntries"}

(* A reversal that will post holds its original ...                        *)
OriginalHeld(p) ==
    req[p] # Null /\ req[p].op = "reversal"
        /\ (pc[p] \in PastLock \/ row[p] # Null) => txLock[req[p].original] = p

(* ... and whoever holds a transaction is about to reverse it, and the     *)
(* transaction is in force.                                                *)
Reversing(p, k) ==
    /\ req[p] # Null
    /\ req[p].op = "reversal"
    /\ req[p].original = k
    /\ pc[p] \in PastLock \cup {"commit"}
    /\ ledger[k].status = "posted"

HeldToReverse == \A k \in Keys, p \in Workers : txLock[k] = p => Reversing(p, k)

(* A session that commits without a row of its own has found one.          *)
Replays(p) ==
    pc[p] = "commit" /\ row[p] = Null =>
        /\ ledger[req[p].key] # Null
        /\ ledger[req[p].key].type = req[p].op

(* Every posted row was asked for, and names what it reverses.             *)
RowRecorded(t, k) ==
    /\ \E r \in Requests : r.key = k /\ Fulfils(r, t)
    /\ t.type = "reversal" <=> t.reverses # Null

Recorded ==
    \A k \in Keys : ledger[k] # Null =>
        /\ RowRecorded(ledger[k], k)
        /\ ledger[k].reverses # Null => ledger[ledger[k].reverses] # Null

ReversalInvariant ==
    /\ \A p \in Workers : RowAsAsked(p) /\ OriginalHeld(p) /\ Replays(p)
    /\ HeldToReverse
    /\ Recorded

-----------------------------------------------------------------------------
(* Steps that commit nothing.                                              *)

(* What a request that reverses nothing debits and credits depends on no   *)
(* row.                                                                    *)
LEMMA AccountsFixed ==
    ASSUME NEW r \in Requests, r.op # "reversal"
    PROVE  DebitAccount(r)' = DebitAccount(r) /\ CreditAccount(r)' = CreditAccount(r)
<1>1. r.op \in Ops
  BY DEF RequestType
<1> QED BY <1>1 DEF DebitAccount, CreditAccount, Ops

(* A step of p that leaves the ledger alone preserves the invariant if it  *)
(* leaves p in order and takes no transaction somebody else holds.         *)
LEMMA QuietStep ==
    ASSUME ReversalInvariant, NEW p \in Workers, ledger' = ledger,
           (RowAsAsked(p) /\ OriginalHeld(p) /\ Replays(p))',
           \A q \in Workers \ {p} :
              pc'[q] = pc[q] /\ req'[q] = req[q] /\ row'[q] = row[q],
           \A k \in Keys, q \in Workers \ {p} : (txLock'[k] = q) <=> (txLock[k] = q),
           \A k \in Keys : txLock'[k] = p => Reversing(p, k)',
           \A q \in Workers : req[q] # Null => req[q].original \in Keys
    PROVE  ReversalInvariant'
<1>1. ASSUME NEW q \in Workers
      PROVE  (RowAsAsked(q) /\ OriginalHeld(q) /\ Replays(q))'
  <2>1. CASE q = p
    BY <2>1
  <2>2. CASE q # p
    <3>1. pc'[q] = pc[q] /\ req'[q] = req[q] /\ row'[q] = row[q]
      BY <2>2
    <3>2. RowAsAsked(q)'
      <4>1. Original(req[q])' = Original(req[q])
        BY <3>1 DEF Original
      <4>2. /\ DebitAccount(req[q])' = DebitAccount(req[q])
            /\ CreditAccount(req[q])' = CreditAccount(req[q])
            /\ Amount(req[q])' = Amount(req[q])
        BY <3>1, <4>1 DEF DebitAccount, CreditAccount, Amount
      <4>3. NewRow(req[q])' = NewRow(req[q])
        BY <3>1, <4>2 DEF NewRow
      <4> QED BY <3>1, <4>3 DEF ReversalInvariant, RowAsAsked
    <3>3. OriginalHeld(q)'
      BY <2>2, <3>1 DEF ReversalInvariant, OriginalHeld
    <3>4. Replays(q)'
      BY <3>1 DEF ReversalInvariant, Replays
    <3> QED BY <3>2, <3>3, <3>4
  <2> QED BY <2>1, <2>2
<1>2. HeldToReverse'
  <2> SUFFICES ASSUME NEW k \in Keys, NEW q \in Workers, txLock'[k] = q
               PROVE  Reversing(q, k)'
    BY DEF HeldToReverse
  <2> QED BY DEF ReversalInvariant, HeldToReverse, Reversing
<1>3. Recorded'
  <2> SUFFICES ASSUME NEW k \in Keys, ledger'[k] # Null
               PROVE  /\ RowRecorded(ledger[k], k)'
                      /\ ledger'[k].reverses # Null => ledger'[ledger'[k].reverses] # Null
    BY DEF Recorded
  <2>1. /\ RowRecorded(ledger[k], k)
        /\ ledger[k].reverses # Null => ledger[ledger[k].reverses] # Null
    BY DEF ReversalInvariant, Recorded
  <2>2. PICK r \in Requests : r.key = k /\ Fulfils(r, ledger[k])
    BY <2>1 DEF RowRecorded
  <2>3. Fulfils(r, ledger[k])'
    BY <2>2, AccountsFixed DEF Fulfils
  <2> QED BY <2>1, <2>2, <2>3 DEF RowRecorded
<1> QED BY <1>1, <1>2, <1>3 DEF ReversalInvariant

LEMMA RollbackKeepsReversals ==
    ASSUME BalanceInvariant, ReversalInvariant, NEW p \in Workers, NEW answer,
           Rollback(p, answer)
    PROVE  ReversalInvariant'
<1> USE DEF Rollback, EndTransaction, store
<1>1. pc'[p] = "idle" /\ req'[p] = Null /\ row'[p] = Null
  BY DEF BalanceInvariant, TypeOK
<1>2. (RowAsAsked(p) /\ OriginalHeld(p) /\ Replays(p))'
  BY <1>1 DEF RowAsAsked, OriginalHeld, Replays
<1>3. \A q \in Workers \ {p} :
         pc'[q] = pc[q] /\ req'[q] = req[q] /\ row'[q] = row[q]
  BY DEF BalanceInvariant, TypeOK
<1>4. \A k \in Keys, q \in Workers : txLock'[k] = q <=> (txLock[k] = q /\ q # p)
  OBVIOUS
<1>5. \A q \in Workers : req[q] # Null => req[q].original \in Keys
  BY RequestTyped DEF BalanceInvariant
<1> QED BY <1>2, <1>3, <1>4, <1>5, QuietStep

(* A statement that goes on with its request and its locks.                *)
LEMMA AdvanceStep ==
    ASSUME BalanceInvariant, ReversalInvariant, NEW p \in Workers,
           UNCHANGED <<ledger, txLock, req>>, req[p] # Null,
           RowAsAsked(p)', Replays(p)',
           \A q \in Workers \ {p} : pc'[q] = pc[q] /\ row'[q] = row[q],
           req[p].op = "reversal" =>
              \/ pc[p] \in PastLock /\ pc'[p] \in PastLock \cup {"commit"}
              \/ /\ pc[p] = "reversalKey" /\ row'[p] = Null
                 /\ pc'[p] \in {"lockOriginal", "commit"}
    PROVE  ReversalInvariant'
<1>1. OriginalHeld(p)'
  BY DEF ReversalInvariant, OriginalHeld, PastLock
<1>2. ASSUME NEW k \in Keys, txLock'[k] = p
      PROVE  Reversing(p, k)'
  <2>1. Reversing(p, k)
    BY <1>2 DEF ReversalInvariant, HeldToReverse
  <2>2. pc'[p] \in PastLock \cup {"commit"}
    BY <2>1 DEF Reversing, PastLock
  <2> QED BY <2>1, <2>2 DEF Reversing
<1>3. \A q \in Workers : req[q] # Null => req[q].original \in Keys
  BY RequestTyped DEF BalanceInvariant
<1> QED BY <1>1, <1>2, <1>3, QuietStep

LEMMA BeginKeepsReversals ==
    ASSUME BalanceInvariant, ReversalInvariant, NEW p \in Workers, Begin(p)
    PROVE  ReversalInvariant'
<1> USE DEF Begin, Goto, locks, store
<1>1. /\ pc'[p] \in {"reversalKey", "requireActive"} /\ row'[p] = Null
      /\ req[p] = Null
  BY DEF BalanceInvariant, TypeOK, RowPending
<1>2. (RowAsAsked(p) /\ OriginalHeld(p) /\ Replays(p))'
  BY <1>1 DEF RowAsAsked, OriginalHeld, Replays, PastLock
<1>3. \A q \in Workers \ {p} :
         pc'[q] = pc[q] /\ req'[q] = req[q] /\ row'[q] = row[q]
  BY DEF BalanceInvariant, TypeOK
<1>4. \A k \in Keys : txLock'[k] # p
  BY <1>1 DEF ReversalInvariant, HeldToReverse, Reversing
<1>5. \A q \in Workers : req[q] # Null => req[q].original \in Keys
  BY RequestTyped DEF BalanceInvariant
<1> QED BY <1>2, <1>3, <1>4, <1>5, QuietStep

LEMMA RequireActiveKeepsReversals ==
    ASSUME BalanceInvariant, ReversalInvariant, NEW p \in Workers, RequireActive(p)
    PROVE  ReversalInvariant'
<1>1. CASE Rollback(p, "refused")
  BY <1>1, RollbackKeepsReversals
<1>2. CASE ~Rollback(p, "refused")
  <2> USE <1>2 DEF RequireActive, Goto, locks, store
  <2>1. req[p] # Null /\ row[p] = Null /\ req[p].op # "reversal"
    BY DEF BalanceInvariant, TypeOK, RowPending, OriginalFound
  <2>2. pc'[p] \in {"existingKey", "lockAccount"} /\ row' = row
    BY DEF BalanceInvariant, TypeOK
  <2>3. RowAsAsked(p)' /\ Replays(p)'
    BY <2>1, <2>2 DEF RowAsAsked, Replays
  <2> QED BY <2>1, <2>3, AdvanceStep DEF BalanceInvariant, TypeOK
<1> QED BY <1>1, <1>2

(* The statements between the lock of the account and the lookup of the    *)
(* key.                                                                    *)
LEMMA BalanceReadKeepsReversals ==
    ASSUME BalanceInvariant, ReversalInvariant, NEW p \in Workers,
           LockAccount(p) \/ SumCredits(p) \/ SumDebits(p)
    PROVE  ReversalInvariant'
<1>1. CASE SumDebits(p) /\ Rollback(p, "refused")
  BY <1>1, RollbackKeepsReversals
<1>2. CASE ~(SumDebits(p) /\ Rollback(p, "refused"))
  <2> USE <1>2 DEF LockAccount, SumCredits, SumDebits, Goto, locks, store
  <2>1. req[p] # Null /\ row[p] = Null
    BY DEF BalanceInvariant, TypeOK, RowPending
  <2>2. /\ pc[p] \in PastLock
        /\ pc'[p] \in PastLock
        /\ pc'[p] # "commit"
        /\ row' = row
    BY DEF BalanceInvariant, TypeOK, PastLock
  <2>3. RowAsAsked(p)' /\ Replays(p)'
    BY <2>1, <2>2 DEF RowAsAsked, Replays
  <2> QED BY <2>1, <2>2, <2>3, AdvanceStep DEF BalanceInvariant, TypeOK
<1> QED BY <1>1, <1>2

LEMMA ReversalKeyKeepsReversals ==
    ASSUME BalanceInvariant, ReversalInvariant, NEW p \in Workers, ReversalKey(p)
    PROVE  ReversalInvariant'
<1>1. CASE Rollback(p, "refused")
  BY <1>1, RollbackKeepsReversals
<1>2. CASE ~Rollback(p, "refused")
  <2> USE <1>2 DEF ReversalKey, Goto, locks, store
  <2>1. req[p] # Null /\ row[p] = Null /\ req[p].op = "reversal"
    BY DEF BalanceInvariant, TypeOK, RowPending, OriginalFound
  <2>2. /\ pc'[p] \in {"lockOriginal", "commit"} /\ row' = row
        /\ pc'[p] = "commit" => /\ ledger[req[p].key] # Null
                                /\ ledger[req[p].key].type = "reversal"
    BY DEF BalanceInvariant, TypeOK
  <2>3. RowAsAsked(p)' /\ Replays(p)'
    BY <2>1, <2>2 DEF RowAsAsked, Replays
  <2> QED BY <2>1, <2>2, <2>3, AdvanceStep DEF BalanceInvariant, TypeOK
<1> QED BY <1>1, <1>2

LEMMA LockOriginalKeepsReversals ==
    ASSUME BalanceInvariant, ReversalInvariant, NEW p \in Workers, LockOriginal(p)
    PROVE  ReversalInvariant'
<1>1. CASE Rollback(p, "refused")
  BY <1>1, RollbackKeepsReversals
<1>2. CASE ~Rollback(p, "refused")
  <2> USE <1>2 DEF LockOriginal, Goto, store
  <2>1. /\ req[p] # Null /\ row[p] = Null
        /\ req[p].op = "reversal" /\ req[p].original \in Keys
    BY RequestTyped DEF BalanceInvariant, TypeOK, RowPending, OriginalFound
  <2>2. /\ pc'[p] \in {"lockAccount", "existingKey"} /\ row' = row /\ req' = req
        /\ txLock' = [txLock EXCEPT ![req[p].original] = p]
        /\ \A q \in Workers \ {p} : txLock[req[p].original] # q
        /\ ledger[req[p].original].status = "posted"
    BY DEF BalanceInvariant, TypeOK, Blockers, Original
  <2>3. (RowAsAsked(p) /\ OriginalHeld(p) /\ Replays(p))'
    BY <2>1, <2>2 DEF BalanceInvariant, TypeOK, RowAsAsked, OriginalHeld, Replays
  <2>4. \A k \in Keys, q \in Workers \ {p} : txLock'[k] = q <=> txLock[k] = q
    BY <2>1, <2>2 DEF BalanceInvariant, TypeOK
  <2>5. ASSUME NEW k \in Keys, txLock'[k] = p
        PROVE  Reversing(p, k)'
    <3>1. k = req[p].original
      BY <2>2, <2>5 DEF BalanceInvariant, TypeOK, ReversalInvariant,
         HeldToReverse, Reversing
    <3> QED BY <2>1, <2>2, <3>1 DEF Reversing, PastLock
  <2>6. \A q \in Workers : req[q] # Null => req[q].original \in Keys
    BY RequestTyped DEF BalanceInvariant
  <2> QED
    BY <2>2, <2>3, <2>4, <2>5, <2>6, QuietStep DEF BalanceInvariant, TypeOK
<1> QED BY <1>1, <1>2

LEMMA ExistingKeyKeepsReversals ==
    ASSUME BalanceInvariant, ReversalInvariant, NEW p \in Workers, ExistingKey(p)
    PROVE  ReversalInvariant'
<1>1. CASE Rollback(p, "refused")
  BY <1>1, RollbackKeepsReversals
<1>2. CASE ~Rollback(p, "refused")
  <2> USE <1>2 DEF ExistingKey, Goto, locks, store
  <2>1. req[p] # Null /\ row[p] = Null
    BY DEF BalanceInvariant, TypeOK, RowPending
  <2>2. /\ pc[p] \in PastLock
        /\ pc'[p] \in PastLock \cup {"commit"} /\ row' = row /\ req' = req
        /\ pc'[p] = "commit" => /\ ledger[req[p].key] # Null
                                /\ ledger[req[p].key].type = req[p].op
    BY DEF BalanceInvariant, TypeOK, PastLock
  <2>3. RowAsAsked(p)' /\ Replays(p)'
    BY <2>1, <2>2 DEF RowAsAsked, Replays
  <2> QED BY <2>1, <2>2, <2>3, AdvanceStep DEF BalanceInvariant, TypeOK
<1> QED BY <1>1, <1>2

LEMMA InsertKeepsReversals ==
    ASSUME BalanceInvariant, ReversalInvariant, NEW p \in Workers,
           InsertRow(p) \/ InsertEntries(p)
    PROVE  ReversalInvariant'
<1>1. CASE InsertRow(p) /\ Rollback(p, "refused")
  BY <1>1, RollbackKeepsReversals
<1>2. CASE ~(InsertRow(p) /\ Rollback(p, "refused"))
  <2> USE <1>2 DEF InsertRow, InsertEntries, Goto, locks, store
  <2>1. req[p] # Null /\ (pc[p] = "insertEntries" => row[p] # Null)
    BY DEF BalanceInvariant, TypeOK, RowPending
  <2>2. /\ pc[p] \in PastLock
        /\ pc'[p] \in {"insertEntries", "commit"} /\ req' = req
        /\ pc'[p] = "commit" => row'[p] # Null
        /\ row'[p] = row[p] \/ row'[p] = NewRow(req[p])
    BY <2>1 DEF BalanceInvariant, TypeOK, PastLock
  <2>3. NewRow(req[p])' = NewRow(req[p])
    BY <2>2 DEF NewRow, DebitAccount, CreditAccount, Amount, Original
  <2>4. RowAsAsked(p)' /\ Replays(p)'
    BY <2>2, <2>3 DEF ReversalInvariant, RowAsAsked, Replays
  <2> QED
    BY <2>1, <2>2, <2>4, AdvanceStep DEF BalanceInvariant, TypeOK, PastLock
<1> QED BY <1>1, <1>2

-----------------------------------------------------------------------------
(* The commit.                                                             *)

(* What a commit does to a row: it appears as its session inserted it, or  *)
(* it is marked, or it stays.                                              *)
LEMMA RowsKept ==
    ASSUME BalanceInvariant, NEW p \in Workers, Commit(p), NEW k \in Keys
    PROVE  /\ HoldsKey(p, k) => ledger[k] = Null /\ ledger'[k] = row[p]
           /\ ledger[k] = Null /\ ~HoldsKey(p, k) => ledger'[k] = Null
           /\ ledger[k] # Null =>
                /\ ledger'[k] # Null
                /\ ledger'[k].type = ledger[k].type
                /\ ledger'[k].debit = ledger[k].debit
                /\ ledger'[k].credit = ledger[k].credit
                /\ ledger'[k].amount = ledger[k].amount
                /\ ledger'[k].reverses = ledger[k].reverses
                /\ ledger'[k].status =
                     IF MarksOriginal(p) /\ k = req[p].original THEN "reversed"
                     ELSE ledger[k].status
<1>1. ledger' = LedgerAfter(p)
  BY DEF Commit
<1>2. HoldsKey(p, k) => ledger[k] = Null
  BY DEF BalanceInvariant, RowPending, HoldsKey
<1>3. CASE HoldsKey(p, k)
  BY <1>1, <1>2, <1>3 DEF LedgerAfter, HoldsKey
<1>4. CASE ~HoldsKey(p, k) /\ MarksOriginal(p) /\ k = req[p].original
  <2>1. ledger[k] # Null
    BY <1>4 DEF MarksOriginal, BalanceInvariant, LocksExclude
  <2>2. ledger[k] \in TxRecord
    BY <2>1 DEF BalanceInvariant, TypeOK
  <2>3. ledger'[k] = [ledger[k] EXCEPT !.status = "reversed"]
    BY <1>1, <1>4 DEF LedgerAfter, HoldsKey
  <2>4. ledger'[k] # Null
    BY <2>1, LedgerGrows
  <2> QED BY <1>4, <2>1, <2>2, <2>3, <2>4 DEF TxRecord
<1>5. CASE ~HoldsKey(p, k) /\ ~(MarksOriginal(p) /\ k = req[p].original)
  BY <1>1, <1>5 DEF LedgerAfter, HoldsKey
<1> QED BY <1>3, <1>4, <1>5

(* The row of a session names what it reverses and nothing else.           *)
LEMMA RowNamesOriginal ==
    ASSUME BalanceInvariant, ReversalInvariant, NEW p \in Workers, row[p] # Null
    PROVE  /\ req[p] # Null /\ req[p] \in Requests /\ req[p].key \in Keys
           /\ row[p] \in TxRecord
           /\ row[p].type = req[p].op
           /\ row[p].status = "posted"
           /\ row[p].amount = Amount(req[p])
           /\ row[p].debit = DebitAccount(req[p])
           /\ row[p].credit = CreditAccount(req[p])
           /\ req[p].op = "reversal" =>
                /\ row[p].reverses = req[p].original
                /\ req[p].original \in Keys
                /\ MarksOriginal(p)
                /\ Original(req[p]) # Null
           /\ req[p].op # "reversal" => row[p].reverses = Null
<1>1. req[p] # Null /\ req[p] \in Requests /\ row[p] \in TxRecord
  BY DEF BalanceInvariant, TypeOK, RowPending
<1>2. req[p].key \in Keys /\ req[p].original \in Keys
  BY <1>1, RequestTyped DEF BalanceInvariant
<1>3. row[p] = NewRow(req[p])
  BY DEF ReversalInvariant, RowAsAsked
<1>4. req[p].op = "reversal" => MarksOriginal(p) /\ Original(req[p]) # Null
  BY <1>1, <1>2 DEF ReversalInvariant, OriginalHeld, MarksOriginal,
     BalanceInvariant, LocksExclude, Original
<1> QED BY <1>1, <1>2, <1>3, <1>4 DEF NewRow

(* What one worker knows survives the commit of another.                   *)
LEMMA OthersKeepReversals ==
    ASSUME BalanceInvariant, ReversalInvariant, NEW p \in Workers, Commit(p),
           NEW q \in Workers \ {p}
    PROVE  (RowAsAsked(q) /\ OriginalHeld(q) /\ Replays(q))'
<1>1. pc'[q] = pc[q] /\ req'[q] = req[q] /\ row'[q] = row[q]
  BY DEF BalanceInvariant, TypeOK, Commit, EndTransaction
<1>2. RowAsAsked(q)'
  <2> SUFFICES ASSUME row[q] # Null PROVE row'[q] = NewRow(req[q])'
    BY <1>1 DEF RowAsAsked
  <2>1. /\ req[q] \in Requests
        /\ req[q].op = "reversal" => req[q].original \in Keys /\ Original(req[q]) # Null
    BY RowNamesOriginal
  <2>2. CASE req[q].op = "reversal"
    <3>1. /\ Original(req[q]).debit' = Original(req[q]).debit
          /\ Original(req[q]).credit' = Original(req[q]).credit
          /\ Original(req[q]).amount' = Original(req[q]).amount
      BY <1>1, <2>1, <2>2, RowsKept DEF Original
    <3>2. NewRow(req[q])' = NewRow(req[q])
      BY <1>1, <2>2, <3>1 DEF NewRow, DebitAccount, CreditAccount, Amount
    <3> QED BY <1>1, <3>2 DEF ReversalInvariant, RowAsAsked
  <2>3. CASE req[q].op # "reversal"
    <3>1. /\ DebitAccount(req[q])' = DebitAccount(req[q])
          /\ CreditAccount(req[q])' = CreditAccount(req[q])
      <4>1. req[q].op \in Ops
        BY <2>1 DEF RequestType
      <4> QED BY <1>1, <2>3, <4>1 DEF DebitAccount, CreditAccount, Ops
    <3>2. NewRow(req[q])' = NewRow(req[q])
      BY <1>1, <2>3, <3>1 DEF NewRow, Amount
    <3> QED BY <1>1, <3>2 DEF ReversalInvariant, RowAsAsked
  <2> QED BY <2>2, <2>3
<1>3. OriginalHeld(q)'
  <2>1. \A k \in Keys : txLock[k] = q => txLock'[k] = q
    BY DEF Commit, EndTransaction
  <2>2. req[q] # Null => req[q].original \in Keys
    BY RequestTyped DEF BalanceInvariant
  <2> QED BY <1>1, <2>1, <2>2 DEF ReversalInvariant, OriginalHeld
<1>4. Replays(q)'
  <2> SUFFICES ASSUME pc[q] = "commit", row[q] = Null
               PROVE  /\ ledger'[req[q].key] # Null
                      /\ ledger'[req[q].key].type = req[q].op
    BY <1>1 DEF Replays
  <2>1. req[q].key \in Keys
    BY RequestTyped DEF BalanceInvariant, TypeOK
  <2>2. ledger[req[q].key] # Null /\ ledger[req[q].key].type = req[q].op
    BY DEF ReversalInvariant, Replays
  <2> QED BY <2>1, <2>2, RowsKept
<1> QED BY <1>2, <1>3, <1>4

LEMMA CommitKeepsHeld ==
    ASSUME BalanceInvariant, ReversalInvariant, NEW p \in Workers, Commit(p)
    PROVE  HeldToReverse'
<1> SUFFICES ASSUME NEW k \in Keys, NEW q \in Workers, txLock'[k] = q
             PROVE  Reversing(q, k)'
  BY DEF HeldToReverse
<1>1. q # p /\ txLock[k] = q
  BY DEF Commit, EndTransaction
<1>2. Reversing(q, k) /\ ledger[k] # Null
  BY <1>1 DEF ReversalInvariant, HeldToReverse, BalanceInvariant, LocksExclude
<1>3. ~(MarksOriginal(p) /\ k = req[p].original)
  BY <1>1 DEF MarksOriginal
<1>4. ledger'[k].status = "posted"
  BY <1>2, <1>3, RowsKept DEF Reversing
<1>5. pc'[q] = pc[q] /\ req'[q] = req[q]
  BY <1>1 DEF BalanceInvariant, TypeOK, Commit, EndTransaction
<1> QED BY <1>2, <1>4, <1>5 DEF Reversing

LEMMA CommitKeepsRecorded ==
    ASSUME BalanceInvariant, ReversalInvariant, NEW p \in Workers, Commit(p)
    PROVE  Recorded'
<1> SUFFICES ASSUME NEW k \in Keys, ledger'[k] # Null
             PROVE  /\ RowRecorded(ledger[k], k)'
                    /\ ledger'[k].reverses # Null => ledger'[ledger'[k].reverses] # Null
  BY DEF Recorded
<1>grow. \A j \in Keys : ledger[j] # Null => ledger'[j] # Null
  BY RowsKept
<1>1. CASE HoldsKey(p, k)
  <2>1. row[p] # Null /\ req[p].key = k /\ ledger'[k] = row[p]
    BY <1>1, RowsKept DEF HoldsKey
  <2>2. /\ req[p] \in Requests
        /\ row[p].type = req[p].op
        /\ row[p].amount = Amount(req[p])
        /\ row[p].debit = DebitAccount(req[p])
        /\ row[p].credit = CreditAccount(req[p])
        /\ req[p].op = "reversal" =>
             row[p].reverses = req[p].original /\ req[p].original \in Keys
             /\ Original(req[p]) # Null
        /\ req[p].op # "reversal" => row[p].reverses = Null
        /\ row[p] # Null
    BY <2>1, RowNamesOriginal
  <2>3. Fulfils(req[p], row[p])
    BY <2>2 DEF Fulfils, Amount
  <2>4. PICK r \in Requests : r = req[p]
    BY <2>2
  <2>5. r.key = k /\ Fulfils(r, ledger[k])'
    BY <2>1, <2>3, <2>4, AccountsFixed DEF Fulfils
  <2>6. row[p].type = "reversal" <=> row[p].reverses # Null
    BY <2>2
  <2> QED BY <1>grow, <2>1, <2>2, <2>5, <2>6 DEF RowRecorded, Original
<1>2. CASE ~HoldsKey(p, k)
  <2>1. ledger[k] # Null
    BY <1>2, RowsKept
  <2>2. /\ ledger'[k].type = ledger[k].type
        /\ ledger'[k].debit = ledger[k].debit
        /\ ledger'[k].credit = ledger[k].credit
        /\ ledger'[k].amount = ledger[k].amount
        /\ ledger'[k].reverses = ledger[k].reverses
    BY <2>1, RowsKept
  <2>3. /\ RowRecorded(ledger[k], k)
        /\ ledger[k].reverses # Null => ledger[ledger[k].reverses] # Null
    BY <2>1 DEF ReversalInvariant, Recorded
  <2>4. PICK r \in Requests : r.key = k /\ Fulfils(r, ledger[k])
    BY <2>3 DEF RowRecorded
  <2>5. Fulfils(r, ledger[k])'
    BY <2>2, <2>4, AccountsFixed DEF Fulfils
  <2>6. ledger[k].reverses \in Keys \cup {Null}
    BY <2>1, RowTyped DEF BalanceInvariant, TypeOK
  <2> QED BY <1>grow, <2>2, <2>3, <2>4, <2>5, <2>6 DEF RowRecorded
<1> QED BY <1>1, <1>2

LEMMA CommitKeepsReversals ==
    ASSUME BalanceInvariant, ReversalInvariant, NEW p \in Workers, Commit(p)
    PROVE  ReversalInvariant'
<1>1. (RowAsAsked(p) /\ OriginalHeld(p) /\ Replays(p))'
  BY DEF Commit, EndTransaction, BalanceInvariant, TypeOK, RowAsAsked,
     OriginalHeld, Replays
<1>2. \A q \in Workers : (RowAsAsked(q) /\ OriginalHeld(q) /\ Replays(q))'
  BY <1>1, OthersKeepReversals
<1> QED
  BY <1>2, CommitKeepsHeld, CommitKeepsRecorded DEF ReversalInvariant

-----------------------------------------------------------------------------
(* The invariant.                                                          *)

LEMMA ReversalInit == Init => ReversalInvariant
<1> SUFFICES ASSUME Init PROVE ReversalInvariant
  OBVIOUS
<1> USE DEF Init
<1>1. ASSUME NEW p \in Workers
      PROVE  RowAsAsked(p) /\ OriginalHeld(p) /\ Replays(p)
  BY DEF RowAsAsked, OriginalHeld, Replays
<1>2. HeldToReverse /\ Recorded
  BY DEF HeldToReverse, Recorded
<1> QED BY <1>1, <1>2 DEF ReversalInvariant

LEMMA ReversalStep ==
    ASSUME BalanceInvariant, ReversalInvariant, [Next]_vars
    PROVE  ReversalInvariant'
<1>1. ASSUME NEW p \in Workers, Begin(p) \/ Crash(p) \/ DeadlockVictim(p)
      PROVE  ReversalInvariant'
  BY <1>1, BeginKeepsReversals, RollbackKeepsReversals DEF Crash, DeadlockVictim
<1>2. ASSUME NEW p \in Workers, Step(p)
      PROVE  ReversalInvariant'
  BY <1>2, RequireActiveKeepsReversals, BalanceReadKeepsReversals,
     ReversalKeyKeepsReversals, LockOriginalKeepsReversals,
     ExistingKeyKeepsReversals, InsertKeepsReversals, CommitKeepsReversals
  DEF Step
<1>3. ASSUME UNCHANGED <<store, locks, local>>
      PROVE  ReversalInvariant'
  <2> USE <1>3 DEF store, locks, local
  <2>1. ASSUME NEW p \in Workers
        PROVE  (RowAsAsked(p) /\ OriginalHeld(p) /\ Replays(p))'
    <3>1. NewRow(req[p])' = NewRow(req[p])
      BY DEF NewRow, DebitAccount, CreditAccount, Amount, Original
    <3> QED BY <3>1 DEF ReversalInvariant, RowAsAsked, OriginalHeld, Replays
  <2>2. HeldToReverse'
    BY DEF ReversalInvariant, HeldToReverse, Reversing
  <2>3. Recorded'
    <3> SUFFICES ASSUME NEW k \in Keys, ledger[k] # Null
                 PROVE  RowRecorded(ledger[k], k)'
      BY DEF ReversalInvariant, Recorded
    <3>1. RowRecorded(ledger[k], k)
      BY DEF ReversalInvariant, Recorded
    <3>2. PICK r \in Requests : r.key = k /\ Fulfils(r, ledger[k])
      BY <3>1 DEF RowRecorded
    <3>3. Fulfils(r, ledger[k])'
      BY <3>2, AccountsFixed DEF Fulfils
    <3> QED BY <3>1, <3>2, <3>3 DEF RowRecorded
  <2> QED BY <2>1, <2>2, <2>3 DEF ReversalInvariant
<1>4. ASSUME NEW w \in Wallets, SetWalletStatus(w)
      PROVE  ReversalInvariant'
  BY <1>3, <1>4 DEF SetWalletStatus
<1> QED BY <1>1, <1>2, <1>3, <1>4 DEF Next, vars

(* A session that holds a transaction is about to reverse it, what it has  *)
(* inserted is what it was asked for, and every row was asked for:         *)
(* whichever keys collide.                                                 *)
THEOREM ReversalInvariance == Spec => []ReversalInvariant
<1>1. BalanceInvariant /\ ReversalInvariant /\ [Next]_vars => ReversalInvariant'
  BY ReversalStep
<1> QED BY <1>1, ReversalInit, Invariance, PTL DEF Spec

-----------------------------------------------------------------------------
(* Scoped keys.                                                            *)

(* What two requests have to agree on to ask for the same transaction.     *)
SameCall(r, s) ==
    /\ r.op = s.op
    /\ IF r.op = "reversal" THEN r.original = s.original
       ELSE r.wallet = s.wallet /\ r.amount = s.amount /\ r.credit = s.credit

(* Callers scope their keys (ledger_service.py, lines 74-75): among the    *)
(* requests of one type a key has one meaning.                             *)
ScopedKeys ==
    \A r, s \in Requests : r.op = s.op /\ r.key = s.key => SameCall(r, s)

(* A row found under the key of a request, of its type, is what it asks.   *)
LEMMA FoundIsAsked ==
    ASSUME ScopedKeys, ReversalInvariant, NEW r \in Requests,
           ledger[r.key] # Null, ledger[r.key].type = r.op
    PROVE  Fulfils(r, ledger[r.key])
<1>1. r.key \in Keys /\ r.op \in Ops
  BY DEF RequestType
<1>2. PICK s \in Requests : s.key = r.key /\ Fulfils(s, ledger[r.key])
  BY <1>1 DEF ReversalInvariant, Recorded, RowRecorded
<1>3. SameCall(r, s)
  BY <1>2 DEF ScopedKeys, Fulfils
<1>4. r.op # "reversal" =>
        DebitAccount(r) = DebitAccount(s) /\ CreditAccount(r) = CreditAccount(s)
  BY <1>1, <1>3 DEF SameCall, DebitAccount, CreditAccount, Ops
<1> QED BY <1>2, <1>3, <1>4 DEF Fulfils, SameCall

(* A session that commits without a row reverses nothing: the transaction  *)
(* it holds would have been reversed by the row it found.                  *)
LEMMA NoEmptyReversal ==
    ASSUME ScopedKeys, BalanceInvariant, ReversalInvariant, ReversedOnce,
           NEW p \in Workers, pc[p] = "commit", row[p] = Null
    PROVE  ~MarksOriginal(p)
<1> SUFFICES ASSUME MarksOriginal(p) PROVE FALSE
  OBVIOUS
<1>1. /\ req[p] # Null /\ req[p] \in Requests
      /\ req[p].key \in Keys /\ req[p].original \in Keys
  BY RequestTyped DEF BalanceInvariant, TypeOK
<1>2. req[p].op = "reversal" /\ txLock[req[p].original] = p
  BY DEF MarksOriginal
<1>3. ledger[req[p].original] # Null /\ ledger[req[p].original].status = "posted"
  BY <1>1, <1>2 DEF ReversalInvariant, HeldToReverse, Reversing,
     BalanceInvariant, LocksExclude
<1>4. Fulfils(req[p], ledger[req[p].key])
  BY <1>1, FoundIsAsked DEF ReversalInvariant, Replays
<1>5. req[p].key \in Reversals(req[p].original)
  BY <1>1, <1>2, <1>4 DEF Fulfils, Reversals
<1> QED BY <1>1, <1>3, <1>5 DEF ReversedOnce

LEMMA ReversalsAfter ==
    ASSUME BalanceInvariant, ReversalInvariant, NEW p \in Workers, Commit(p),
           NEW k \in Keys
    PROVE  Reversals(k)' = IF row[p] # Null /\ row[p].reverses = k
                           THEN Reversals(k) \cup {req[p].key} ELSE Reversals(k)
<1>1. \A r \in Keys : HoldsKey(p, r) <=> row[p] # Null /\ r = req[p].key
  BY DEF HoldsKey
<1>2. row[p] # Null => req[p].key \in Keys
  BY RowNamesOriginal
<1>3. ASSUME NEW r \in Keys
      PROVE  (ledger'[r] # Null /\ ledger'[r].reverses = k) <=>
               \/ HoldsKey(p, r) /\ row[p].reverses = k
               \/ ledger[r] # Null /\ ledger[r].reverses = k
  BY RowsKept DEF HoldsKey
<1> QED BY <1>1, <1>2, <1>3 DEF Reversals

LEMMA CommitReversesOnce ==
    ASSUME ScopedKeys, BalanceInvariant, ReversalInvariant, ReversedOnce,
           NEW p \in Workers, Commit(p)
    PROVE  ReversedOnce'
<1> DEFINE Once(k) ==
      IF ledger[k].status = "posted" THEN Reversals(k) = {}
      ELSE \E r \in Keys :
              /\ Reversals(k) = {r}
              /\ ledger[r].debit = ledger[k].credit
              /\ ledger[r].credit = ledger[k].debit
              /\ ledger[r].amount = ledger[k].amount
<1> SUFFICES ASSUME NEW k \in Keys, ledger'[k] # Null
             PROVE  Once(k)'
  BY DEF ReversedOnce
<1>1. CASE HoldsKey(p, k)
  <2>1. ledger[k] = Null /\ ledger'[k] = row[p] /\ row[p] # Null /\ req[p].key = k
    BY <1>1, RowsKept DEF HoldsKey
  <2>2. row[p].status = "posted" /\ row[p].reverses # k
    BY <2>1, RowNamesOriginal DEF Original
  <2>3. Reversals(k) = {}
    BY <2>1 DEF ReversalInvariant, Recorded, Reversals
  <2> QED BY <2>1, <2>2, <2>3, ReversalsAfter
<1>2. CASE ~HoldsKey(p, k) /\ MarksOriginal(p) /\ k = req[p].original
  <2>1. pc[p] = "commit"
    BY DEF Commit
  <2>2. row[p] # Null
    BY <1>2, <2>1, NoEmptyReversal
  <2>3. /\ ledger[k] # Null /\ ledger[k].status = "posted"
        /\ Reversals(k) = {}
    BY <1>2 DEF MarksOriginal, ReversalInvariant, HeldToReverse, Reversing,
       BalanceInvariant, LocksExclude, ReversedOnce
  <2>4. /\ req[p].key \in Keys
        /\ row[p].reverses = k
        /\ row[p].debit = ledger[k].credit
        /\ row[p].credit = ledger[k].debit
        /\ row[p].amount = ledger[k].amount
    BY <1>2, <2>2, RowNamesOriginal
    DEF MarksOriginal, DebitAccount, CreditAccount, Amount, Original
  <2>5. Reversals(k)' = {req[p].key}
    BY <2>2, <2>3, <2>4, ReversalsAfter
  <2>6. ledger'[req[p].key] = row[p]
    BY <2>2, <2>4, RowsKept DEF HoldsKey
  <2>7. /\ ledger'[k].status = "reversed"
        /\ ledger'[k].debit = ledger[k].debit
        /\ ledger'[k].credit = ledger[k].credit
        /\ ledger'[k].amount = ledger[k].amount
    BY <1>2, <2>3, RowsKept
  <2> QED BY <2>4, <2>5, <2>6, <2>7
<1>3. CASE ~HoldsKey(p, k) /\ ~(MarksOriginal(p) /\ k = req[p].original)
  <2>1. ledger[k] # Null /\ Once(k)
    BY <1>3, RowsKept DEF ReversedOnce
  <2>2. /\ ledger'[k].status = ledger[k].status
        /\ ledger'[k].debit = ledger[k].debit
        /\ ledger'[k].credit = ledger[k].credit
        /\ ledger'[k].amount = ledger[k].amount
    BY <1>3, <2>1, RowsKept
  <2>3. Reversals(k)' = Reversals(k)
    BY <1>3, ReversalsAfter, RowNamesOriginal
  <2>4. CASE ledger[k].status = "posted"
    BY <2>1, <2>2, <2>3, <2>4
  <2>5. CASE ledger[k].status # "posted"
    <3>1. PICK r \in Keys :
            /\ Reversals(k) = {r}
            /\ ledger[r].debit = ledger[k].credit
            /\ ledger[r].credit = ledger[k].debit
            /\ ledger[r].amount = ledger[k].amount
      BY <2>1, <2>5
    <3>2. ledger[r] # Null
      BY <3>1 DEF Reversals
    <3>3. /\ ledger'[r].debit = ledger[r].debit
          /\ ledger'[r].credit = ledger[r].credit
          /\ ledger'[r].amount = ledger[r].amount
      BY <3>2, RowsKept
    <3> QED BY <2>2, <2>3, <2>5, <3>1, <3>3
  <2> QED BY <2>4, <2>5
<1> QED BY <1>1, <1>2, <1>3

(* Only a commit writes the ledger.                                        *)
LEMMA OnlyCommitsPost ==
    ASSUME [Next]_vars, \A p \in Workers : ~Commit(p)
    PROVE  UNCHANGED store
<1> USE DEF store
<1>1. ASSUME NEW p \in Workers, NEW a, Rollback(p, a)
      PROVE  UNCHANGED store
  BY <1>1 DEF Rollback
<1>2. ASSUME NEW p \in Workers, Step(p)
      PROVE  UNCHANGED store
  BY <1>1, <1>2 DEF Step, RequireActive, LockAccount, SumCredits, SumDebits,
     ReversalKey, LockOriginal, ExistingKey, InsertRow, InsertEntries
<1>3. ASSUME NEW p \in Workers, Begin(p) \/ Crash(p) \/ DeadlockVictim(p)
      PROVE  UNCHANGED store
  BY <1>1, <1>3 DEF Begin, Crash, DeadlockVictim
<1> QED BY <1>2, <1>3 DEF Next, SetWalletStatus, vars

LEMMA ReversesOnceStep ==
    ASSUME ScopedKeys, BalanceInvariant, ReversalInvariant, ReversedOnce, [Next]_vars
    PROVE  ReversedOnce'
<1>1. CASE \E p \in Workers : Commit(p)
  BY <1>1, CommitReversesOnce
<1>2. CASE \A p \in Workers : ~Commit(p)
  BY <1>2, OnlyCommitsPost DEF store, ReversedOnce, Reversals
<1> QED BY <1>1, <1>2

(* Where callers scope their keys, a transaction is marked reversed exactly*)
(* when one reversal returned its money.                                   *)
THEOREM ReversesOnce == ASSUME ScopedKeys PROVE Spec => []ReversedOnce
<1>1. Init => ReversedOnce
  BY DEF Init, ReversedOnce
<1>2. BalanceInvariant /\ ReversalInvariant /\ ReversedOnce /\ [Next]_vars
        => ReversedOnce'
  BY ReversesOnceStep
<1> QED BY <1>1, <1>2, Invariance, ReversalInvariance, PTL DEF Spec

-----------------------------------------------------------------------------
(* What is answered.                                                       *)

(* A request under way has no answer yet.                                  *)
Unanswered == \A p \in Workers : pc[p] # "idle" => outcome[p] = "none"

LEMMA UnansweredStep ==
    ASSUME TypeOK, Unanswered, [Next]_vars
    PROVE  Unanswered'
<1> SUFFICES ASSUME NEW q \in Workers, pc'[q] # "idle" PROVE outcome'[q] = "none"
  BY DEF Unanswered
<1>0. pc[q] # "idle" => outcome[q] = "none"
  BY DEF Unanswered
<1>1. ASSUME NEW p \in Workers, NEW a, EndTransaction(p, a)
      PROVE  outcome'[q] = "none"
  BY <1>0, <1>1 DEF EndTransaction, TypeOK
<1>2. ASSUME NEW p \in Workers, Begin(p)
      PROVE  outcome'[q] = "none"
  BY <1>0, <1>2 DEF Begin, Goto, TypeOK
<1>3. ASSUME NEW p \in Workers, Step(p)
      PROVE  outcome'[q] = "none"
  <2>1. CASE \E a : EndTransaction(p, a)
    BY <1>1, <2>1
  <2>2. CASE ~\E a : EndTransaction(p, a)
    <3>1. pc[p] # "idle" /\ outcome' = outcome /\ \E s : pc' = [pc EXCEPT ![p] = s]
      BY <1>3, <2>2 DEF Step, RequireActive, LockAccount, SumCredits, SumDebits,
         ReversalKey, LockOriginal, ExistingKey, InsertRow, InsertEntries, Commit,
         Goto, Rollback
    <3> QED BY <1>0, <3>1 DEF TypeOK
  <2> QED BY <2>1, <2>2
<1>4. CASE UNCHANGED local
  BY <1>0, <1>4 DEF local
<1> QED
  BY <1>1, <1>2, <1>3, <1>4
  DEF Next, Crash, DeadlockVictim, Rollback, SetWalletStatus, vars

LEMMA AlwaysUnanswered == Spec => []Unanswered
<1>1. Init => Unanswered
  BY DEF Init, Unanswered
<1>2. TypeOK /\ Unanswered /\ [Next]_vars => Unanswered'
  BY UnansweredStep
<1> QED BY <1>1, <1>2, TypeCorrect, PTL DEF Spec

(* A row that is answered for is the one inserted or the one found.        *)
LEMMA CommitFulfils ==
    ASSUME ScopedKeys, BalanceInvariant, ReversalInvariant,
           NEW p \in Workers, Commit(p)
    PROVE  Fulfils(req[p], ledger'[req[p].key])
<1>1. req[p] \in Requests /\ req[p].key \in Keys /\ pc[p] = "commit"
  BY RequestTyped DEF BalanceInvariant, TypeOK, Commit
<1>2. CASE row[p] # Null
  <2>1. ledger'[req[p].key] = row[p]
    BY <1>1, <1>2, RowsKept DEF HoldsKey
  <2> QED BY <1>2, <2>1, RowNamesOriginal DEF Fulfils, Amount
<1>3. CASE row[p] = Null
  <2>1. /\ ledger[req[p].key] # Null
        /\ Fulfils(req[p], ledger[req[p].key])
    BY <1>1, <1>3, FoundIsAsked DEF ReversalInvariant, Replays
  <2> QED BY <1>1, <2>1, RowsKept DEF Fulfils
<1> QED BY <1>2, <1>3

(* Of a request under way only the commit is a success.                    *)
LEMMA OkIsCommit ==
    ASSUME TypeOK, Unanswered, [Next]_vars, NEW p \in Workers,
           pc[p] = "commit", outcome'[p] = "ok"
    PROVE  Commit(p)
<1>1. outcome[p] = "none"
  BY DEF Unanswered
<1>2. ASSUME NEW q \in Workers, NEW a, EndTransaction(q, a), a # "ok" \/ q # p
      PROVE  FALSE
  BY <1>1, <1>2 DEF EndTransaction, TypeOK
<1>3. ASSUME NEW q \in Workers, Begin(q)
      PROVE  FALSE
  BY <1>1, <1>3 DEF Begin, TypeOK
<1>4. ASSUME NEW q \in Workers, Step(q)
      PROVE  Commit(p)
  <2>1. CASE \E a : a # "ok" /\ EndTransaction(q, a)
    BY <1>2, <2>1
  <2>2. CASE Commit(q)
    BY <1>2, <2>2 DEF Commit
  <2>3. CASE outcome' = outcome
    BY <1>1, <2>3
  <2> QED
    BY <1>4, <2>1, <2>2, <2>3 DEF Step, RequireActive, LockAccount, SumCredits,
       SumDebits, ReversalKey, LockOriginal, ExistingKey, InsertRow, InsertEntries,
       Rollback
<1>5. CASE UNCHANGED outcome
  BY <1>1, <1>5
<1> QED
  BY <1>2, <1>3, <1>4, <1>5
  DEF Next, Crash, DeadlockVictim, Rollback, SetWalletStatus, vars, local

(* Where callers scope their keys, a success is answered for the           *)
(* transaction that was asked for, also when it was another attempt that   *)
(* posted it.                                                              *)
THEOREM AnswersMatch == ASSUME ScopedKeys PROVE Spec => AnswerMatchesRequest
<1>1. BalanceInvariant /\ ReversalInvariant /\ Unanswered /\ [Next]_vars =>
        [\A p \in Workers : pc[p] = "commit" /\ outcome'[p] = "ok"
            => Fulfils(req[p], ledger'[req[p].key])]_vars
  BY OkIsCommit, CommitFulfils DEF BalanceInvariant
<1> QED
  BY <1>1, Invariance, ReversalInvariance, AlwaysUnanswered, PTL
  DEF Spec, AnswerMatchesRequest

-----------------------------------------------------------------------------
(* The refinement.                                                         *)

LEMMA SameRecords == Atomic!Accounts = Accounts /\ Atomic!TxRecord = TxRecord
BY DEF Atomic!Accounts, Accounts, Atomic!SystemAccounts, SystemAccounts,
   Atomic!TxRecord, TxRecord, Atomic!Types, Ops

(* The entries of a row that is committed: the payer has the amount.       *)
LEMMA CommitBooks ==
    ASSUME BalanceInvariant, NEW p \in Workers, Commit(p), row[p] # Null
    PROVE  Atomic!Book(row[p].debit, row[p].credit, row[p].amount)
<1>1. row[p].debit \in Wallets =>
        row[p].amount <= credited[row[p].debit] - debited[row[p].debit]
  BY DEF BalanceInvariant, LockedReadStands, Covered
<1> QED BY <1>1 DEF Commit, CreditedAfter, DebitedAfter, Atomic!Book

(* Posting what is not a reversal.                                         *)
LEMMA CommitPosts ==
    ASSUME BalanceInvariant, ReversalInvariant, NEW p \in Workers, Commit(p),
           row[p] # Null, req[p].op # "reversal"
    PROVE  Atomic!Next
<1>1. /\ req[p] # Null /\ req[p].key \in Keys /\ req[p].wallet \in Wallets
      /\ req[p].op \in Ops /\ req[p].amount \in Amounts
  BY RowNamesOriginal, RequestTyped DEF RequestType
<1>2. row[p] = NewRow(req[p]) /\ ledger[req[p].key] = Null
  BY DEF ReversalInvariant, RowAsAsked, BalanceInvariant, RowPending
<1>3. row[p].amount \in Amounts \ {0}
  BY <1>1, RowNamesOriginal, RowTyped DEF Amount
<1>4. <<row[p].type, row[p].debit, row[p].credit>> \in Atomic!Routes(req[p].wallet)
  BY <1>1, <1>2 DEF NewRow, DebitAccount, CreditAccount, Ops, Atomic!Routes
<1>5. row[p] = Atomic!Entry(row[p].type, row[p].debit, row[p].credit, row[p].amount, Null)
  BY <1>2 DEF NewRow, Atomic!Entry
<1>6. ledger' = [ledger EXCEPT ![req[p].key] = row[p]]
  <2>1. ledger' = [k \in Keys |-> IF k = req[p].key THEN row[p] ELSE ledger[k]]
    BY DEF Commit, LedgerAfter, MarksOriginal
  <2> QED BY <2>1 DEF BalanceInvariant, TypeOK
<1>7. Atomic!Post(req[p].key, row[p].type, row[p].debit, row[p].credit, row[p].amount)
  BY <1>2, <1>5, <1>6, CommitBooks DEF Atomic!Post
<1> QED BY <1>1, <1>3, <1>4, <1>7 DEF Atomic!Next

LEMMA CommitReverses ==
    ASSUME BalanceInvariant, ReversalInvariant, NEW p \in Workers, Commit(p),
           row[p] # Null, req[p].op = "reversal"
    PROVE  Atomic!Next
<1>1. /\ req[p].key \in Keys /\ req[p].original \in Keys /\ MarksOriginal(p)
      /\ ledger[req[p].key] = Null /\ ledger[req[p].original] # Null
      /\ row[p] = NewRow(req[p])
  BY RowNamesOriginal DEF Original, BalanceInvariant, RowPending,
     ReversalInvariant, RowAsAsked
<1>2. ledger[req[p].original].status = "posted"
  BY <1>1 DEF ReversalInvariant, HeldToReverse, Reversing, MarksOriginal
<1>3. row[p] = Atomic!Entry("reversal", ledger[req[p].original].credit,
                            ledger[req[p].original].debit,
                            ledger[req[p].original].amount, req[p].original)
  BY <1>1 DEF NewRow, DebitAccount, CreditAccount, Amount, Original, Atomic!Entry
<1>4. ledger' = [ledger EXCEPT ![req[p].key] = row[p],
                               ![req[p].original].status = "reversed"]
  <2>1. ledger' = [k \in Keys |->
                     IF k = req[p].key THEN row[p]
                     ELSE IF k = req[p].original
                          THEN [ledger[k] EXCEPT !.status = "reversed"]
                          ELSE ledger[k]]
    BY <1>1 DEF Commit, LedgerAfter
  <2> QED BY <1>1, <2>1 DEF BalanceInvariant, TypeOK
<1>5. /\ row[p].debit = ledger[req[p].original].credit
      /\ row[p].credit = ledger[req[p].original].debit
      /\ row[p].amount = ledger[req[p].original].amount
  BY <1>3 DEF Atomic!Entry
<1>6. Atomic!Reverse(req[p].key, req[p].original)
  BY <1>1, <1>2, <1>3, <1>4, <1>5, CommitBooks DEF Atomic!Reverse
<1> QED BY <1>1, <1>6 DEF Atomic!Next

LEMMA CommitIsAtomic ==
    ASSUME ScopedKeys, BalanceInvariant, ReversalInvariant, ReversedOnce,
           NEW p \in Workers, Commit(p)
    PROVE  [Atomic!Next]_Atomic!vars
<1>1. CASE row[p] # Null
  BY <1>1, CommitPosts, CommitReverses
<1>2. CASE row[p] = Null
  <2>1. ~MarksOriginal(p)
    BY <1>2, NoEmptyReversal DEF Commit
  <2>2. ledger' = ledger
    BY <1>2, <2>1 DEF Commit, LedgerAfter, BalanceInvariant, TypeOK
  <2>3. credited' = credited /\ debited' = debited
    BY <1>2 DEF Commit, CreditedAfter, DebitedAfter
  <2> QED BY <2>2, <2>3 DEF Atomic!vars
<1> QED BY <1>1, <1>2

(* Where callers scope their keys, sessions, statements and locks add up   *)
(* to a ledger that posts and reverses in one step.                        *)
THEOREM LedgerIsAtomic == ASSUME ScopedKeys PROVE Spec => ImplementsAtomicLedger
<1>1. Init => Atomic!Init
  BY DEF Init, Atomic!Init, Accounts, SystemAccounts, Atomic!Accounts,
     Atomic!SystemAccounts
<1>2. BalanceInvariant /\ ReversalInvariant /\ ReversedOnce /\ [Next]_vars
        => [Atomic!Next]_Atomic!vars
  <2> SUFFICES ASSUME BalanceInvariant, ReversalInvariant, ReversedOnce, [Next]_vars
               PROVE  [Atomic!Next]_Atomic!vars
    OBVIOUS
  <2>1. CASE \E p \in Workers : Commit(p)
    BY <2>1, CommitIsAtomic
  <2>2. CASE \A p \in Workers : ~Commit(p)
    BY <2>2, OnlyCommitsPost DEF store, Atomic!vars
  <2> QED BY <2>1, <2>2
<1> QED
  BY <1>1, <1>2, Invariance, ReversalInvariance, ReversesOnce, PTL
  DEF Spec, ImplementsAtomicLedger, Atomic!Spec
-----------------------------------------------------------------------------
(* Sums over a finite set of transactions.                                 *)

Chosen(S) == CHOOSE k \in S : TRUE

(* The function by which the fold is defined, and what it has to satisfy.  *)
Sums(t, S) ==
    CHOOSE f : f = [T \in SUBSET S |-> IF T = {} THEN 0
                    ELSE t[Chosen(T)].amount + f[T \ {Chosen(T)}]]
Unfolds(t, S, f) ==
    f = [T \in SUBSET S |-> IF T = {} THEN 0
         ELSE t[Chosen(T)].amount + f[T \ {Chosen(T)}]]

LEMMA TotalIsSum ==
    ASSUME NEW t, NEW S
    PROVE  TotalAmount(t, S) = Sums(t, S)[S]
BY DEF TotalAmount, Sums, Chosen, MapThenSumSet, MapThenFoldSet

LEMMA ChosenIn ==
    ASSUME NEW S, S # {}
    PROVE  Chosen(S) \in S
BY DEF Chosen

(* Some set of a family has no smaller one in it: induction over subsets.  *)
LEMMA SmallestSet ==
    ASSUME NEW S, IsFiniteSet(S), NEW F, F \subseteq SUBSET S, F # {}
    PROVE  \E T \in F : \A U \in F : U \subseteq T => U = T
<1>1. IsWellFoundedOn(StrictSubsetOrdering(S), SUBSET S)
  BY FS_StrictSubsetOrderingWellFounded, FS_FiniteSubsetsOfFinite
<1>2. PICK T \in F : \A U \in F : ~ (<<U, T>> \in StrictSubsetOrdering(S))
  BY <1>1, WFMin
<1>3. \A U \in F : U \subseteq T /\ U # T => <<U, T>> \in StrictSubsetOrdering(S)
  BY DEF StrictSubsetOrdering
<1>4. \A U \in F : U \subseteq T => U = T
  BY <1>2, <1>3
<1> QED BY <1>4, Zenon

LEMMA UnfoldsAt ==
    ASSUME NEW t, NEW S, NEW f, Unfolds(t, S, f), NEW T \in SUBSET S
    PROVE  f[T] = IF T = {} THEN 0
                  ELSE t[Chosen(T)].amount + f[T \ {Chosen(T)}]
BY Zenon DEF Unfolds

(* The sums over the subsets of a set do not depend on the set.            *)
LEMMA SumsAgree ==
    ASSUME NEW t, NEW S, IsFiniteSet(S), NEW f, Unfolds(t, S, f),
           NEW U \in SUBSET S, NEW g, Unfolds(t, U, g)
    PROVE  \A T \in SUBSET U : f[T] = g[T]
<1> DEFINE F == {T \in SUBSET U : f[T] # g[T]}
<1> SUFFICES ASSUME F # {} PROVE FALSE
  OBVIOUS
<1>1. IsFiniteSet(U)
  BY FS_Subset
<1>2. PICK T \in F : \A V \in F : V \subseteq T => V = T
  <2>1. F \subseteq SUBSET U
    OBVIOUS
  <2> HIDE DEF F
  <2> QED BY <1>1, <2>1, SmallestSet
<1>3. T # {} => T \ {Chosen(T)} \notin F
  BY <1>2, ChosenIn
<1>4. T # {} => f[T \ {Chosen(T)}] = g[T \ {Chosen(T)}]
  BY <1>2, <1>3
<1>5. f[T] = g[T]
  BY <1>2, <1>4, UnfoldsAt
<1> QED BY <1>2, <1>5

LEMMA SumsExist ==
    ASSUME NEW t, NEW S, IsFiniteSet(S)
    PROVE  Unfolds(t, S, Sums(t, S))
<1> DEFINE F == {T \in SUBSET S : ~Unfolds(t, T, Sums(t, T))}
<1> SUFFICES ASSUME F # {} PROVE FALSE
  OBVIOUS
<1>1. PICK T \in F : \A V \in F : V \subseteq T => V = T
  <2>1. F \subseteq SUBSET S
    OBVIOUS
  <2> HIDE DEF F
  <2> QED BY <2>1, SmallestSet
<1>2. \A V \in SUBSET T : V # T => Unfolds(t, V, Sums(t, V))
  BY <1>1
<1>3. IsFiniteSet(T) /\ \A V \in SUBSET T : IsFiniteSet(V)
  BY <1>1, FS_Subset
<1> DEFINE f == [V \in SUBSET T |-> IF V = {} THEN 0
                   ELSE t[Chosen(V)].amount
                        + Sums(t, V \ {Chosen(V)})[V \ {Chosen(V)}]]
<1>4. ASSUME NEW V \in SUBSET T, V # T
      PROVE  f[V] = Sums(t, V)[V]
  <2>1. CASE V = {}
    BY <1>2, <1>4, <2>1, UnfoldsAt
  <2>2. CASE V # {}
    <3> DEFINE W == V \ {Chosen(V)}
    <3>1. W \in SUBSET T /\ W # T /\ W \in SUBSET V
      BY <1>4
    <3>2. Sums(t, W)[W] = Sums(t, V)[W]
      BY <1>2, <1>3, <1>4, <3>1, SumsAgree
    <3>3. Sums(t, V)[V] = t[Chosen(V)].amount + Sums(t, V)[W]
      BY <1>2, <1>4, <2>2, UnfoldsAt
    <3> QED BY <2>2, <3>2, <3>3
  <2> QED BY <2>1, <2>2
<1>5. ASSUME NEW V \in SUBSET T
      PROVE  f[V] = IF V = {} THEN 0
                    ELSE t[Chosen(V)].amount + f[V \ {Chosen(V)}]
  <2>1. CASE V # {}
    <3> DEFINE W == V \ {Chosen(V)}
    <3>1. W \in SUBSET T /\ W # T
      BY <2>1, ChosenIn
    <3>2. f[W] = Sums(t, W)[W]
      BY <1>4, <3>1
    <3> QED BY <2>1, <3>2
  <2> QED BY <2>1
<1>6. Unfolds(t, T, f)
  <2> DEFINE g == [V \in SUBSET T |-> IF V = {} THEN 0
                     ELSE t[Chosen(V)].amount + f[V \ {Chosen(V)}]]
  <2>1. f = g
    BY <1>5
  <2> QED BY <2>1 DEF Unfolds
<1>7. Sums(t, T) = CHOOSE h : Unfolds(t, T, h)
  BY DEF Sums, Unfolds
<1>8. Unfolds(t, T, Sums(t, T))
  BY <1>6, <1>7
<1> QED BY <1>1, <1>8

(* A sum is one summand and the sum of the others.                         *)
LEMMA TotalChosen ==
    ASSUME NEW t, NEW S, IsFiniteSet(S), S # {}
    PROVE  TotalAmount(t, S)
             = t[Chosen(S)].amount + TotalAmount(t, S \ {Chosen(S)})
<1> DEFINE T == S \ {Chosen(S)}
<1>1. IsFiniteSet(T) /\ T \in SUBSET S
  BY FS_Subset
<1>2. Unfolds(t, S, Sums(t, S)) /\ Unfolds(t, T, Sums(t, T))
  BY <1>1, SumsExist
<1>3. Sums(t, S)[T] = Sums(t, T)[T]
  <2> HIDE DEF T
  <2> QED BY <1>1, <1>2, SumsAgree
<1>4. Sums(t, S)[S] = t[Chosen(S)].amount + Sums(t, S)[T]
  BY <1>2, UnfoldsAt
<1> QED BY <1>3, <1>4, TotalIsSum

LEMMA TotalEmpty ==
    ASSUME NEW t
    PROVE  TotalAmount(t, {}) = 0
BY FS_EmptySet, SumsExist, UnfoldsAt, TotalIsSum

Priced(t, S) == \A k \in S : t[k].amount \in Nat

LEMMA TotalTyped ==
    ASSUME NEW t, NEW S, IsFiniteSet(S), Priced(t, S)
    PROVE  TotalAmount(t, S) \in Nat
<1> DEFINE F == {T \in SUBSET S : TotalAmount(t, T) \notin Nat}
<1> SUFFICES ASSUME F # {} PROVE FALSE
  OBVIOUS
<1>1. PICK T \in F : \A V \in F : V \subseteq T => V = T
  <2>1. F \subseteq SUBSET S
    OBVIOUS
  <2> HIDE DEF F
  <2> QED BY <2>1, SmallestSet
<1>2. T \in SUBSET S /\ TotalAmount(t, T) \notin Nat
  OBVIOUS
<1>3. T # {}
  BY <1>2, TotalEmpty
<1>4. IsFiniteSet(T) /\ Chosen(T) \in T /\ Chosen(T) \in S
  BY <1>2, <1>3, FS_Subset, ChosenIn
<1>5. T \ {Chosen(T)} \notin F
  BY <1>1, <1>4
<1>6. TotalAmount(t, T \ {Chosen(T)}) \in Nat
  BY <1>2, <1>5
<1>7. TotalAmount(t, T) \in Nat
  BY <1>3, <1>4, <1>6, TotalChosen DEF Priced
<1> QED BY <1>2, <1>7

LEMMA TotalWithout ==
    ASSUME NEW t, NEW S, IsFiniteSet(S), Priced(t, S), NEW k \in S
    PROVE  TotalAmount(t, S) = t[k].amount + TotalAmount(t, S \ {k})
<1> DEFINE F == {T \in SUBSET S : \E j \in T :
                   TotalAmount(t, T) # t[j].amount + TotalAmount(t, T \ {j})}
<1> SUFFICES ASSUME F # {} PROVE FALSE
  OBVIOUS
<1>1. PICK T \in F : \A V \in F : V \subseteq T => V = T
  <2>1. F \subseteq SUBSET S
    OBVIOUS
  <2> HIDE DEF F
  <2> QED BY <2>1, SmallestSet
<1>2. PICK j \in T : TotalAmount(t, T) # t[j].amount + TotalAmount(t, T \ {j})
  BY <1>1
<1> DEFINE c == Chosen(T)
           U == T \ {c, j}
<1>3. IsFiniteSet(T) /\ c \in T /\ IsFiniteSet(U) /\ Priced(t, U)
  BY <1>1, <1>2, FS_Subset, ChosenIn DEF Priced
<1>4. TotalAmount(t, T) = t[c].amount + TotalAmount(t, T \ {c})
  BY <1>3, TotalChosen
<1>5. c # j
  BY <1>2, <1>4
<1>6. (T \ {c}) \ {j} = U /\ (T \ {j}) \ {c} = U
  OBVIOUS
<1>7. TotalAmount(t, T \ {c}) = t[j].amount + TotalAmount(t, U)
  <2>1. T \ {c} \notin F /\ T \ {c} \in SUBSET S /\ j \in T \ {c}
    BY <1>1, <1>2, <1>3, <1>5
  <2> QED BY <1>6, <2>1
<1>8. TotalAmount(t, T \ {j}) = t[c].amount + TotalAmount(t, U)
  <2>1. T \ {j} \notin F /\ T \ {j} \in SUBSET S /\ c \in T \ {j}
    BY <1>1, <1>2, <1>3, <1>5
  <2> QED BY <1>6, <2>1
<1>9. t[c].amount \in Int /\ t[j].amount \in Int /\ TotalAmount(t, U) \in Int
  BY <1>1, <1>2, <1>3, TotalTyped DEF Priced
<1> QED BY <1>2, <1>4, <1>7, <1>8, <1>9

LEMMA TotalWith ==
    ASSUME NEW t, NEW S, IsFiniteSet(S), NEW k, k \notin S, Priced(t, S \cup {k})
    PROVE  TotalAmount(t, S \cup {k}) = t[k].amount + TotalAmount(t, S)
<1>1. IsFiniteSet(S \cup {k}) /\ (S \cup {k}) \ {k} = S
  BY FS_AddElement
<1> QED BY <1>1, TotalWithout

(* It does not depend on anything but the amounts of the set.              *)
LEMMA TotalSame ==
    ASSUME NEW t, NEW u, NEW S, IsFiniteSet(S), \A k \in S : t[k].amount = u[k].amount
    PROVE  TotalAmount(t, S) = TotalAmount(u, S)
<1> DEFINE F == {T \in SUBSET S : TotalAmount(t, T) # TotalAmount(u, T)}
<1> SUFFICES ASSUME F # {} PROVE FALSE
  OBVIOUS
<1>1. PICK T \in F : \A V \in F : V \subseteq T => V = T
  <2>1. F \subseteq SUBSET S
    OBVIOUS
  <2> HIDE DEF F
  <2> QED BY <2>1, SmallestSet
<1>2. T \in SUBSET S /\ TotalAmount(t, T) # TotalAmount(u, T)
  OBVIOUS
<1>3. T # {}
  BY <1>2, TotalEmpty
<1>4. IsFiniteSet(T) /\ Chosen(T) \in T /\ Chosen(T) \in S
  BY <1>2, <1>3, FS_Subset, ChosenIn
<1>5. T \ {Chosen(T)} \notin F
  BY <1>1, <1>4
<1>6. TotalAmount(t, T \ {Chosen(T)}) = TotalAmount(u, T \ {Chosen(T)})
  BY <1>2, <1>5
<1>7. TotalAmount(t, T) = TotalAmount(u, T)
  BY <1>3, <1>4, <1>6, TotalChosen
<1> QED BY <1>2, <1>7

(* A summand more or less, where the amounts stay.                         *)
LEMMA TotalAdds ==
    ASSUME NEW t, NEW u, NEW S, IsFiniteSet(S), NEW k, k \notin S,
           Priced(u, S \cup {k}), \A j \in S : u[j].amount = t[j].amount
    PROVE  TotalAmount(u, S \cup {k}) = TotalAmount(t, S) + u[k].amount
<1>1. TotalAmount(u, S \cup {k}) = u[k].amount + TotalAmount(u, S)
  BY TotalWith
<1>2. TotalAmount(u, S) = TotalAmount(t, S)
  BY TotalSame
<1>3. u[k].amount \in Int /\ TotalAmount(u, S) \in Int
  <2>1. Priced(u, S) /\ u[k].amount \in Int
    BY DEF Priced
  <2> QED BY <2>1, TotalTyped
<1> QED BY <1>1, <1>2, <1>3

LEMMA TotalDrops ==
    ASSUME NEW t, NEW u, NEW S, IsFiniteSet(S), NEW k \in S,
           Priced(t, S), \A j \in S : u[j].amount = t[j].amount
    PROVE  TotalAmount(u, S \ {k}) = TotalAmount(t, S) - t[k].amount
<1>1. IsFiniteSet(S \ {k}) /\ Priced(t, S \ {k})
  BY FS_RemoveElement DEF Priced
<1>2. TotalAmount(t, S) = t[k].amount + TotalAmount(t, S \ {k})
  BY TotalWithout
<1>3. TotalAmount(u, S \ {k}) = TotalAmount(t, S \ {k})
  <2>1. \A j \in S \ {k} : u[j].amount = t[j].amount
    OBVIOUS
  <2> QED BY <1>1, <2>1, TotalSame
<1>4. t[k].amount \in Int /\ TotalAmount(t, S \ {k}) \in Int
  BY <1>1, TotalTyped DEF Priced
<1> QED BY <1>2, <1>3, <1>4

-----------------------------------------------------------------------------
(* Domain rows.                                                            *)

(* Nobody asks to reverse a reversal; the run ledger_f2 shows what happens *)
(* to the event or the redemption otherwise.                               *)
ReversalsFinal ==
    \A r, s \in Requests :
        r.op = "reversal" /\ s.op = "reversal" => r.original # s.key

(* The event or redemption of a transaction says what its status says.     *)
BackingAgrees ==
    \A k \in Keys :
        backing[k] = IF ledger[k] = Null \/ ledger[k].type \in {"adjustment", "reversal"}
                     THEN "none"
                     ELSE IF ledger[k].status = "posted" THEN "completed"
                     ELSE "reversed"

FinitelyPosted == IsFiniteSet({k \in Keys : ledger[k] # Null})

BackingInvariant == FinitelyPosted /\ BackingAgrees /\ BackingExplainsBalance

LEMMA BackedTyped ==
    ASSUME TypeOK, FinitelyPosted, NEW w
    PROVE  /\ IsFiniteSet(BackedCredits(w)) /\ Priced(ledger, BackedCredits(w))
           /\ IsFiniteSet(BackedDebits(w)) /\ Priced(ledger, BackedDebits(w))
<1>1. /\ BackedCredits(w) \subseteq {k \in Keys : ledger[k] # Null}
      /\ BackedDebits(w) \subseteq {k \in Keys : ledger[k] # Null}
  BY DEF BackedCredits, BackedDebits, Backed
<1>2. \A k \in Keys : ledger[k] # Null => ledger[k].amount \in Nat
  BY RowTyped DEF TypeOK
<1> QED BY <1>1, <1>2, FS_Subset DEF Priced, FinitelyPosted

(* What a commit makes of the rows in force: a new one that reverses       *)
(* nothing adds itself, a reversal takes its original out.                 *)
LEMMA BackedAfter ==
    ASSUME ReversalsFinal, BalanceInvariant, ReversalInvariant, BackingAgrees,
           NEW p \in Workers, Commit(p), row[p] # Null
    PROVE  /\ BackingAgrees'
           /\ req[p].op # "reversal" =>
                \A k \in Keys : Backed(k)' <=> Backed(k) \/ k = req[p].key
           /\ req[p].op = "reversal" =>
                /\ Backed(req[p].original)
                /\ \A k \in Keys : Backed(k)' <=> Backed(k) /\ k # req[p].original
<1> DEFINE r == req[p]
           n == req[p].key
           o == req[p].original
<1>1. /\ r \in Requests /\ n \in Keys /\ ledger[n] = Null /\ ledger'[n] = row[p]
      /\ r.op \in Ops /\ row[p].type = r.op /\ row[p].status = "posted"
      /\ row[p] \in TxRecord
  <2>1. r \in Requests /\ n \in Keys
    BY RowNamesOriginal
  <2>2. HoldsKey(p, n)
    BY DEF HoldsKey
  <2> QED BY <2>1, <2>2, RowNamesOriginal, RowsKept DEF RequestType
<1>2. \A k \in Keys \ {n} : ~HoldsKey(p, k)
  BY DEF HoldsKey
<1>3. /\ backing'[n] = IF r.op \in {"earn", "redeem"} THEN "completed" ELSE "none"
      /\ \A k \in Keys \ {n} :
            backing'[k] = IF MarksOriginal(p) /\ k = o /\ backing[k] # "none"
                          THEN "reversed" ELSE backing[k]
  BY <1>1 DEF Commit, BackingAfter
<1>4. MarksOriginal(p) <=> r.op = "reversal"
  BY RowNamesOriginal DEF MarksOriginal
<1>5. \A k \in Keys \ {n} : ledger'[k] = Null <=> ledger[k] = Null
  BY <1>2, RowsKept
<1>6. \A k \in Keys \ {n} : ledger[k] # Null =>
        /\ ledger'[k].type = ledger[k].type
        /\ ledger'[k].status = IF r.op = "reversal" /\ k = o THEN "reversed"
                               ELSE ledger[k].status
  BY <1>4, RowsKept
<1>7. r.op = "reversal" =>
        /\ o \in Keys \ {n} /\ ledger[o] # Null /\ ledger[o].status = "posted"
        /\ ledger[o].type \in Ops \ {"reversal"}
  <2> SUFFICES ASSUME r.op = "reversal" PROVE
        /\ o \in Keys \ {n} /\ ledger[o] # Null /\ ledger[o].status = "posted"
        /\ ledger[o].type \in Ops \ {"reversal"}
    OBVIOUS
  <2>1. o \in Keys /\ ledger[o] # Null /\ txLock[o] = p
    BY RowNamesOriginal DEF Original, MarksOriginal
  <2>2. ledger[o].status = "posted"
    BY <2>1 DEF ReversalInvariant, HeldToReverse, Reversing
  <2>3. PICK s \in Requests : s.key = o /\ Fulfils(s, ledger[o])
    BY <2>1 DEF ReversalInvariant, Recorded, RowRecorded
  <2>4. s.op # "reversal" /\ s.op \in Ops
    BY <1>1, <2>3 DEF ReversalsFinal, RequestType
  <2> QED BY <1>1, <2>1, <2>2, <2>3, <2>4 DEF Fulfils
<1>8. BackingAgrees'
  <2> SUFFICES ASSUME NEW k \in Keys
               PROVE  backing'[k] =
                 IF ledger'[k] = Null \/ ledger'[k].type \in {"adjustment", "reversal"}
                 THEN "none"
                 ELSE IF ledger'[k].status = "posted" THEN "completed" ELSE "reversed"
    BY DEF BackingAgrees
  <2>1. CASE k = n
    BY <1>1, <1>3, <2>1, RowTyped DEF Ops
  <2>2. CASE k # n
    BY <1>3, <1>4, <1>5, <1>6, <1>7, <2>2 DEF BackingAgrees
  <2> QED BY <2>1, <2>2
<1>9. \A k \in Keys \ {n} :
        Backed(k)' <=> Backed(k) /\ ~(r.op = "reversal" /\ k = o)
  BY <1>3, <1>4, <1>5, <1>6, <1>7 DEF Backed
<1>10. \A k \in Keys : k = n => ~Backed(k) /\ (Backed(k)' <=> r.op # "reversal")
  BY <1>1, <1>3, RowTyped DEF Backed, Ops
<1>11. r.op = "reversal" => Backed(o)
  BY <1>7 DEF Backed, BackingAgrees, Ops
<1> QED BY <1>1, <1>7, <1>8, <1>9, <1>10, <1>11

(* The sums over the rows in force follow.                                 *)
LEMMA TotalsAfter ==
    ASSUME ReversalsFinal, BalanceInvariant, ReversalInvariant,
           FinitelyPosted, BackingAgrees,
           NEW p \in Workers, Commit(p), row[p] # Null, NEW w \in Wallets
    PROVE  LET t == row[p]
               credit == TotalAmount(ledger, BackedCredits(w))
               debit == TotalAmount(ledger, BackedDebits(w))
           IN /\ credit \in Int /\ debit \in Int
              /\ TotalAmount(ledger, BackedCredits(w))'
                   = IF t.type # "reversal"
                     THEN credit + (IF t.credit = w THEN t.amount ELSE 0)
                     ELSE credit - (IF t.debit = w THEN t.amount ELSE 0)
              /\ TotalAmount(ledger, BackedDebits(w))'
                   = IF t.type # "reversal"
                     THEN debit + (IF t.debit = w THEN t.amount ELSE 0)
                     ELSE debit - (IF t.credit = w THEN t.amount ELSE 0)
<1> DEFINE t == row[p]
           n == req[p].key
           o == req[p].original
           credits == BackedCredits(w)
           debits == BackedDebits(w)
           after == ledger'
<1>1. /\ IsFiniteSet(credits) /\ Priced(ledger, credits)
      /\ IsFiniteSet(debits) /\ Priced(ledger, debits)
  BY BackedTyped DEF BalanceInvariant
<1>2. TotalAmount(ledger, credits) \in Int /\ TotalAmount(ledger, debits) \in Int
  BY <1>1, TotalTyped
<1>3. /\ n \in Keys /\ ledger[n] = Null /\ after[n] = t
      /\ t.type = req[p].op /\ t.amount \in Nat
  <2>1. HoldsKey(p, n)
    BY DEF HoldsKey
  <2> QED BY <2>1, RowNamesOriginal, RowsKept, RowTyped
<1>4. \A k \in Keys : ledger[k] # Null =>
        /\ after[k] # Null
        /\ after[k].amount = ledger[k].amount
        /\ after[k].debit = ledger[k].debit
        /\ after[k].credit = ledger[k].credit
  BY RowsKept
<1>5. /\ n \notin credits /\ n \notin debits
      /\ \A k \in credits \cup debits :
            k \in Keys /\ ledger[k] # Null /\ after[k].amount = ledger[k].amount
  BY <1>3, <1>4 DEF BackedCredits, BackedDebits, Backed
<1>6. CASE t.type # "reversal"
  <2>1. \A k \in Keys : Backed(k)' <=> Backed(k) \/ k = n
    BY <1>3, <1>6, BackedAfter
  <2>2. BackedCredits(w)' = credits \cup (IF t.credit = w THEN {n} ELSE {})
    BY <1>3, <1>4, <2>1 DEF BackedCredits, Backed
  <2>3. BackedDebits(w)' = debits \cup (IF t.debit = w THEN {n} ELSE {})
    BY <1>3, <1>4, <2>1 DEF BackedDebits, Backed
  <2>4. /\ Priced(after, credits \cup {n}) /\ Priced(after, debits \cup {n})
    BY <1>1, <1>3, <1>5 DEF Priced
  <2>5. TotalAmount(after, credits \cup {n}) = TotalAmount(ledger, credits) + t.amount
    <3> HIDE DEF credits, after, n
    <3> QED BY <1>1, <1>3, <1>5, <2>4, TotalAdds
  <2>6. TotalAmount(after, debits \cup {n}) = TotalAmount(ledger, debits) + t.amount
    <3> HIDE DEF debits, after, n
    <3> QED BY <1>1, <1>3, <1>5, <2>4, TotalAdds
  <2>7. /\ TotalAmount(after, credits) = TotalAmount(ledger, credits)
        /\ TotalAmount(after, debits) = TotalAmount(ledger, debits)
    <3> HIDE DEF credits, debits, after
    <3> QED BY <1>1, <1>5, TotalSame
  <2>8. TotalAmount(ledger, BackedCredits(w))'
          = TotalAmount(ledger, credits) + (IF t.credit = w THEN t.amount ELSE 0)
    <3>1. TotalAmount(ledger, BackedCredits(w))'
            = TotalAmount(after, credits \cup (IF t.credit = w THEN {n} ELSE {}))
      BY <2>2
    <3>2. credits \cup {} = credits
      OBVIOUS
    <3>3. CASE t.credit = w
      BY <3>1, <3>3, <2>5
    <3>4. CASE t.credit # w
      <4> HIDE DEF credits, debits, after
      <4> QED BY <1>2, <2>7, <3>1, <3>2, <3>4
    <3> QED BY <3>3, <3>4
  <2>9. TotalAmount(ledger, BackedDebits(w))'
          = TotalAmount(ledger, debits) + (IF t.debit = w THEN t.amount ELSE 0)
    <3>1. TotalAmount(ledger, BackedDebits(w))'
            = TotalAmount(after, debits \cup (IF t.debit = w THEN {n} ELSE {}))
      BY <2>3
    <3>2. debits \cup {} = debits
      OBVIOUS
    <3>3. CASE t.debit = w
      BY <3>1, <3>3, <2>6
    <3>4. CASE t.debit # w
      <4> HIDE DEF credits, debits, after
      <4> QED BY <1>2, <2>7, <3>1, <3>2, <3>4
    <3> QED BY <3>3, <3>4
  <2> QED BY <1>2, <1>6, <2>8, <2>9
<1>7. CASE t.type = "reversal"
  <2>1. Backed(o) /\ \A k \in Keys : Backed(k)' <=> Backed(k) /\ k # o
    BY <1>3, <1>7, BackedAfter
  <2>2. /\ o \in Keys /\ ledger[o] # Null
        /\ t.amount = ledger[o].amount
        /\ t.debit = ledger[o].credit /\ t.credit = ledger[o].debit
    BY <1>3, <1>7, RowNamesOriginal
    DEF Original, Amount, DebitAccount, CreditAccount
  <2>3. BackedCredits(w)' = credits \ (IF t.debit = w THEN {o} ELSE {})
    BY <1>4, <2>1, <2>2 DEF BackedCredits, Backed
  <2>4. BackedDebits(w)' = debits \ (IF t.credit = w THEN {o} ELSE {})
    BY <1>4, <2>1, <2>2 DEF BackedDebits, Backed
  <2>5. t.debit = w => TotalAmount(after, credits \ {o}) = TotalAmount(ledger, credits) - t.amount
    <3> SUFFICES ASSUME t.debit = w
                 PROVE  TotalAmount(after, credits \ {o}) = TotalAmount(ledger, credits) - t.amount
      OBVIOUS
    <3>1. o \in credits
      BY <2>1, <2>2 DEF BackedCredits
    <3> HIDE DEF credits, debits, after, o
    <3> QED BY <1>1, <1>5, <2>2, <3>1, TotalDrops
  <2>6. t.credit = w => TotalAmount(after, debits \ {o}) = TotalAmount(ledger, debits) - t.amount
    <3> SUFFICES ASSUME t.credit = w
                 PROVE  TotalAmount(after, debits \ {o}) = TotalAmount(ledger, debits) - t.amount
      OBVIOUS
    <3>1. o \in debits
      BY <2>1, <2>2 DEF BackedDebits
    <3> HIDE DEF credits, debits, after, o
    <3> QED BY <1>1, <1>5, <2>2, <3>1, TotalDrops
  <2>7. /\ TotalAmount(after, credits) = TotalAmount(ledger, credits)
        /\ TotalAmount(after, debits) = TotalAmount(ledger, debits)
    <3> HIDE DEF credits, debits, after
    <3> QED BY <1>1, <1>5, TotalSame
  <2>8. TotalAmount(ledger, BackedCredits(w))'
          = TotalAmount(ledger, credits) - (IF t.debit = w THEN t.amount ELSE 0)
    <3>1. TotalAmount(ledger, BackedCredits(w))'
            = TotalAmount(after, credits \ (IF t.debit = w THEN {o} ELSE {}))
      BY <2>3
    <3>2. credits \ {} = credits
      OBVIOUS
    <3>3. CASE t.debit = w
      BY <3>1, <3>3, <2>5
    <3>4. CASE t.debit # w
      <4> HIDE DEF credits, debits, after
      <4> QED BY <1>2, <2>7, <3>1, <3>2, <3>4
    <3> QED BY <3>3, <3>4
  <2>9. TotalAmount(ledger, BackedDebits(w))'
          = TotalAmount(ledger, debits) - (IF t.credit = w THEN t.amount ELSE 0)
    <3>1. TotalAmount(ledger, BackedDebits(w))'
            = TotalAmount(after, debits \ (IF t.credit = w THEN {o} ELSE {}))
      BY <2>4
    <3>2. debits \ {} = debits
      OBVIOUS
    <3>3. CASE t.credit = w
      BY <3>1, <3>3, <2>6
    <3>4. CASE t.credit # w
      <4> HIDE DEF credits, debits, after
      <4> QED BY <1>2, <2>7, <3>1, <3>2, <3>4
    <3> QED BY <3>3, <3>4
  <2> QED BY <1>2, <1>7, <2>8, <2>9
<1> QED BY <1>6, <1>7

LEMMA CommitBacks ==
    ASSUME ScopedKeys, ReversalsFinal, BalanceInvariant, ReversalInvariant,
           ReversedOnce, BackingInvariant, NEW p \in Workers, Commit(p)
    PROVE  BackingInvariant'
<1>1. CASE row[p] = Null
  <2>1. ~MarksOriginal(p)
    BY <1>1, NoEmptyReversal DEF Commit
  <2>2. ledger' = ledger /\ backing' = backing
    BY <1>1, <2>1
    DEF Commit, LedgerAfter, BackingAfter, BalanceInvariant, TypeOK
  <2>3. credited' = credited /\ debited' = debited
    BY <1>1 DEF Commit, CreditedAfter, DebitedAfter
  <2> QED BY <2>2, <2>3
          DEF BackingInvariant, FinitelyPosted, BackingAgrees,
              BackingExplainsBalance, BackedCredits, BackedDebits, Backed
<1>2. CASE row[p] # Null
  <2>1. BackingAgrees'
    BY <1>2, BackedAfter DEF BackingInvariant
  <2>2. FinitelyPosted'
    <3>1. {k \in Keys : ledger'[k] # Null}
            \subseteq {k \in Keys : ledger[k] # Null} \cup {req[p].key}
      BY RowsKept DEF HoldsKey
    <3>2. IsFiniteSet({k \in Keys : ledger[k] # Null} \cup {req[p].key})
      BY FS_AddElement DEF BackingInvariant, FinitelyPosted
    <3> QED BY <3>1, <3>2, FS_Subset DEF FinitelyPosted
  <2>3. ASSUME NEW w \in Wallets
        PROVE  (credited[w] - debited[w] = TotalAmount(ledger, BackedCredits(w))
                                   - TotalAmount(ledger, BackedDebits(w)))'
    <3>1. /\ row[p] \in TxRecord /\ row[p].amount \in Int
          /\ row[p].credit \in Accounts /\ row[p].debit \in Accounts
      BY <1>2, RowNamesOriginal, RowTyped
    <3>2. /\ credited'[w] = credited[w] + (IF row[p].credit = w THEN row[p].amount ELSE 0)
          /\ debited'[w] = debited[w] + (IF row[p].debit = w THEN row[p].amount ELSE 0)
          /\ credited[w] \in Int /\ debited[w] \in Int
      BY <1>2, <3>1 DEF Commit, CreditedAfter, DebitedAfter, BalanceInvariant,
         TypeOK, Accounts
    <3>3. credited[w] - debited[w] = TotalAmount(ledger, BackedCredits(w))
                                     - TotalAmount(ledger, BackedDebits(w))
      BY DEF BackingInvariant, BackingExplainsBalance
    <3> DEFINE a == TotalAmount(ledger, BackedCredits(w))
               b == TotalAmount(ledger, BackedDebits(w))
               c == TotalAmount(ledger, BackedCredits(w))'
               d == TotalAmount(ledger, BackedDebits(w))'
               t == row[p]
    <3>4. /\ a \in Int /\ b \in Int
          /\ c = IF t.type # "reversal"
                 THEN a + (IF t.credit = w THEN t.amount ELSE 0)
                 ELSE a - (IF t.debit = w THEN t.amount ELSE 0)
          /\ d = IF t.type # "reversal"
                 THEN b + (IF t.debit = w THEN t.amount ELSE 0)
                 ELSE b - (IF t.credit = w THEN t.amount ELSE 0)
      BY <1>2, TotalsAfter DEF BackingInvariant
    <3>5. credited'[w] - debited'[w] = c - d
      <4> HIDE DEF a, b, c, d
      <4>1. credited[w] - debited[w] = a - b
        BY <3>3 DEF a, b
      <4> QED BY <3>1, <3>2, <3>4, <4>1
    <3> QED BY <3>5
  <2> QED BY <2>1, <2>2, <2>3 DEF BackingInvariant, BackingExplainsBalance
<1> QED BY <1>1, <1>2

LEMMA BackingStep ==
    ASSUME ScopedKeys, ReversalsFinal, BalanceInvariant, ReversalInvariant,
           ReversedOnce, BackingInvariant, [Next]_vars
    PROVE  BackingInvariant'
<1>1. CASE \E p \in Workers : Commit(p)
  BY <1>1, CommitBacks
<1>2. CASE \A p \in Workers : ~Commit(p)
  BY <1>2, OnlyCommitsPost
  DEF store, BackingInvariant, FinitelyPosted, BackingAgrees,
      BackingExplainsBalance, BackedCredits, BackedDebits, Backed
<1> QED BY <1>1, <1>2

LEMMA BackingInit ==
    ASSUME Init
    PROVE  BackingInvariant
<1>1. {k \in Keys : ledger[k] # Null} = {}
  BY DEF Init
<1>2. \A w : BackedCredits(w) = {} /\ BackedDebits(w) = {}
  BY DEF Init, BackedCredits, BackedDebits, Backed
<1>3. FinitelyPosted /\ BackingAgrees
  BY <1>1, FS_EmptySet DEF FinitelyPosted, BackingAgrees, Init
<1>4. BackingExplainsBalance
  BY <1>2, TotalEmpty DEF BackingExplainsBalance, Init, Accounts
<1> QED BY <1>3, <1>4 DEF BackingInvariant

(* Where callers scope their keys and nobody reverses a reversal, the      *)
(* earning events, the redemptions and the adjustments in force add up to  *)
(* the balance of each wallet, for any number of them: the cascade of      *)
(* reverse_transaction (ledger_service.py, line 283) leaves reports and    *)
(* receipts in agreement with the ledger.                                  *)
THEOREM BackingExplains ==
    ASSUME ScopedKeys, ReversalsFinal PROVE Spec => []BackingExplainsBalance
<1>1. BalanceInvariant /\ ReversalInvariant /\ ReversedOnce /\ BackingInvariant
        /\ [Next]_vars => BackingInvariant'
  BY BackingStep
<1>2. Init => BackingInvariant
  BY BackingInit
<1>3. BackingInvariant => BackingExplainsBalance
  BY DEF BackingInvariant
<1> QED
  BY <1>1, <1>2, <1>3, Invariance, ReversalInvariance, ReversesOnce, PTL DEF Spec
=============================================================================
