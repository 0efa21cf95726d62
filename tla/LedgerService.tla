--------------------------- MODULE LedgerService ---------------------------
(***************************************************************************)
(* The double-entry ledger (app/services/ledger_service.py) as PostgreSQL  *)
(* executes it: every API worker runs one request at a time in its own     *)
(* READ COMMITTED transaction, and a step of the model is one SQL          *)
(* statement, so workers interleave between any two statements.            *)
(*                                                                         *)
(* A transaction sees the committed rows plus its own; its own rows become *)
(* visible to the others when it commits.  Statements wait for             *)
(*   - the FOR UPDATE lock of a student account or a ledger transaction;   *)
(*   - an uncommitted row with the same unique idempotency key;            *)
(*   - the account rows a new ledger entry refers to (the foreign key      *)
(*     takes them FOR KEY SHARE, which conflicts with FOR UPDATE only).    *)
(*                                                                         *)
(* Only what happens inside LedgerService and the commit of its caller is  *)
(* modelled here.  A ledger transaction is identified by its unique key.   *)
(***************************************************************************)
EXTENDS Integers, FiniteSets, FiniteSetsExt

CONSTANTS
    Workers,    \* API worker threads, each with a database session
    Wallets,    \* student wallets; each has one student_wallet account
    Keys,       \* idempotency keys as stored (already scoped by the caller)
    Amounts,    \* amounts a request may carry
    Requests,   \* the calls clients may make
    Null        \* "no row", "no holder", "no request"

SystemAccounts == {"rewards_pool", "vendor_revenue", "system_adjustment"}
Accounts == Wallets \cup SystemAccounts

(* A call of LedgerService.  The operation is also the transaction_type of *)
(* the row it posts; a field an operation does not use is ignored.         *)
Ops == {"earn", "redeem", "adjustment", "reversal"}
RequestType == [op: Ops, key: Keys, wallet: Wallets, amount: Amounts,
                credit: BOOLEAN, original: Keys]

(* A ledger_transactions row with its two ledger_entries. *)
TxRecord == [type: Ops, debit: Accounts, credit: Accounts,
             amount: Nat \ {0}, status: {"posted", "reversed"},
             reverses: Keys \cup {Null}]

ASSUME AmountsAssumption == Amounts \subseteq Nat
ASSUME RequestsAssumption == Requests \subseteq RequestType
ASSUME AccountsAssumption == Wallets \cap SystemAccounts = {}
ASSUME NullAssumption == /\ Null \notin Workers \cup Keys \cup Accounts
                         /\ Null \notin RequestType
                         /\ Null \notin TxRecord

VARIABLES
    ledger,       \* committed transactions by idempotency key
    credited,     \* SUM of committed credit entries of an account
    debited,      \* SUM of committed debit entries of an account
    backing,      \* the earning event or redemption that carries a transaction
    active,       \* wallets.status = 'active'
    accountLock,  \* holder of the FOR UPDATE lock of a student account
    txLock,       \* holder of the FOR UPDATE lock of a ledger transaction
    pc,           \* the statement a worker is about to execute
    req,          \* the request a worker is serving
    creditSum,    \* result of the first of the two SUM statements
    row,          \* the row a worker has inserted and not committed
    outcome       \* what the last request of a worker was answered:
                  \* "refused" is any AppError, "lost" no answer

store == <<ledger, credited, debited, backing>>
locks == <<accountLock, txLock>>
local == <<pc, req, creditSum, row, outcome>>
vars == <<store, active, locks, local>>

Statements == {"idle", "requireActive", "lockAccount", "sumCredits",
               "sumDebits", "reversalKey", "lockOriginal", "existingKey",
               "insertRow", "insertEntries", "commit"}
Outcomes == {"none", "ok", "refused", "lost"}

(* Types of all variables. *)
TypeOK ==
    /\ ledger \in [Keys -> TxRecord \cup {Null}]
    /\ credited \in [Accounts -> Nat]
    /\ debited \in [Accounts -> Nat]
    /\ backing \in [Keys -> {"none", "completed", "reversed"}]
    /\ active \in [Wallets -> BOOLEAN]
    /\ accountLock \in [Wallets -> Workers \cup {Null}]
    /\ txLock \in [Keys -> Workers \cup {Null}]
    /\ pc \in [Workers -> Statements]
    /\ req \in [Workers -> Requests \cup {Null}]
    /\ creditSum \in [Workers -> Nat]
    /\ row \in [Workers -> TxRecord \cup {Null}]
    /\ outcome \in [Workers -> Outcomes]
    /\ \A p \in Workers : req[p] = Null <=> pc[p] = "idle"

Init ==
    /\ ledger = [k \in Keys |-> Null]
    /\ credited = [a \in Accounts |-> 0]
    /\ debited = [a \in Accounts |-> 0]
    /\ backing = [k \in Keys |-> "none"]
    /\ active = [w \in Wallets |-> TRUE]
    /\ accountLock = [w \in Wallets |-> Null]
    /\ txLock = [k \in Keys |-> Null]
    /\ pc = [p \in Workers |-> "idle"]
    /\ req = [p \in Workers |-> Null]
    /\ creditSum = [p \in Workers |-> 0]
    /\ row = [p \in Workers |-> Null]
    /\ outcome = [p \in Workers |-> "none"]

-----------------------------------------------------------------------------
(* What a request posts.                                                   *)

Original(r) == ledger[r.original]

(* The accounts a request debits and credits: the EntrySpec lists. *)
DebitAccount(r) ==
    CASE r.op = "earn" -> "rewards_pool"
      [] r.op = "redeem" -> r.wallet
      [] r.op = "adjustment" ->
            IF r.credit THEN "system_adjustment" ELSE r.wallet
      [] r.op = "reversal" -> Original(r).credit

CreditAccount(r) ==
    CASE r.op = "earn" -> r.wallet
      [] r.op = "redeem" -> "vendor_revenue"
      [] r.op = "adjustment" ->
            IF r.credit THEN r.wallet ELSE "system_adjustment"
      [] r.op = "reversal" -> Original(r).debit

Amount(r) == IF r.op = "reversal" THEN Original(r).amount ELSE r.amount

NewRow(r) ==
    [type |-> r.op, debit |-> DebitAccount(r), credit |-> CreditAccount(r),
     amount |-> Amount(r), status |-> "posted",
     reverses |-> IF r.op = "reversal" THEN r.original ELSE Null]

(* The wallet whose account the operation locks. *)
WalletOf(r) == IF r.op = "reversal" THEN Original(r).credit ELSE r.wallet

-----------------------------------------------------------------------------
(* Locks.                                                                  *)

(* Entries inserted and not committed hold their accounts FOR KEY SHARE.   *)
SharesAccount(p, a) ==
    pc[p] = "commit" /\ row[p] # Null /\ a \in {row[p].debit, row[p].credit}

HoldsKey(p, k) == row[p] # Null /\ req[p].key = k

(* The sessions the current statement of p waits for. *)
Blockers(p) ==
    { q \in Workers \ {p} :
        \/ /\ pc[p] = "lockAccount"
           /\ \/ accountLock[WalletOf(req[p])] = q
              \/ SharesAccount(q, WalletOf(req[p]))
        \/ pc[p] = "lockOriginal" /\ txLock[req[p].original] = q
        \/ pc[p] = "insertRow" /\ HoldsKey(q, req[p].key)
        \/ pc[p] = "insertEntries" /\ \E w \in Wallets :
              accountLock[w] = q /\ w \in {row[p].debit, row[p].credit} }

(* p waits for itself through others; waits[q] are those q waits for. *)
OnCycle(p, waits) ==
    \E S \in SUBSET {q \in Workers : waits[q] # {}} : \E next \in [S -> S] :
        /\ p \in S
        /\ \A q \in S : next[q] \in waits[q]
        /\ \A q, r \in S : next[q] = next[r] => q = r

-----------------------------------------------------------------------------
(* The end of a transaction.                                               *)

EndTransaction(p, answer) ==
    /\ accountLock' = [w \in Wallets |->
                        IF accountLock[w] = p THEN Null ELSE accountLock[w]]
    /\ txLock' = [k \in Keys |-> IF txLock[k] = p THEN Null ELSE txLock[k]]
    /\ pc' = [pc EXCEPT ![p] = "idle"]
    /\ req' = [req EXCEPT ![p] = Null]
    /\ creditSum' = [creditSum EXCEPT ![p] = 0]
    /\ row' = [row EXCEPT ![p] = Null]
    /\ outcome' = [outcome EXCEPT ![p] = answer]

(* Mutant: the session is not closed, its locks stay. *)
RollbackKeepsLocks(p, answer) ==
    /\ pc' = [pc EXCEPT ![p] = "idle"]
    /\ req' = [req EXCEPT ![p] = Null]
    /\ creditSum' = [creditSum EXCEPT ![p] = 0]
    /\ row' = [row EXCEPT ![p] = Null]
    /\ outcome' = [outcome EXCEPT ![p] = answer]
    /\ UNCHANGED <<store, active, locks>>

(* An exception leaves LedgerService; the caller rolls back (get_db closes *)
(* the session, the services' except clauses call rollback).               *)
Rollback(p, answer) ==
    /\ EndTransaction(p, answer)
    /\ UNCHANGED <<store, active>>

(* Control moves to the next statement. *)
Goto(p, s) == pc' = [pc EXCEPT ![p] = s]

-----------------------------------------------------------------------------
(* One action per statement.                                               *)

Begin(p) ==
    /\ pc[p] = "idle"
    /\ \E r \in Requests :
        /\ req' = [req EXCEPT ![p] = r]
        /\ Goto(p, IF r.op = "reversal" THEN "reversalKey"
                                        ELSE "requireActive")
    /\ outcome' = [outcome EXCEPT ![p] = "none"]
    /\ UNCHANGED <<store, active, locks, creditSum, row>>

(* Earn posts without touching the account lock; redeem and adjustment     *)
(* take it first.                                                          *)
RequireActive(p) ==
    /\ pc[p] = "requireActive"
    /\ \/ /\ ~active[req[p].wallet]
          /\ Rollback(p, "refused")
       \/ /\ active[req[p].wallet]
          /\ Goto(p, IF req[p].op = "earn" THEN "existingKey"
                                           ELSE "lockAccount")
          /\ UNCHANGED <<store, active, locks, req, creditSum, row, outcome>>

(* Mutant: a plain SELECT. *)
LockAccountPlain(p) ==
    /\ pc[p] = "lockAccount"
    /\ Goto(p, IF req[p].op = "adjustment" /\ req[p].credit
               THEN "existingKey" ELSE "sumCredits")
    /\ UNCHANGED <<store, active, locks, req, creditSum, row, outcome>>

(* SELECT ... FOR UPDATE on the student account.  A crediting adjustment   *)
(* does not look at the balance.                                           *)
LockAccount(p) ==
    /\ pc[p] = "lockAccount"
    /\ Blockers(p) = {}
    /\ accountLock' = [accountLock EXCEPT ![WalletOf(req[p])] = p]
    /\ Goto(p, IF req[p].op = "adjustment" /\ req[p].credit
               THEN "existingKey" ELSE "sumCredits")
    /\ UNCHANGED <<store, active, txLock, req, creditSum, row, outcome>>

(* account_balance runs two SUM statements, each with a snapshot of its    *)
(* own.                                                                    *)
SumCredits(p) ==
    /\ pc[p] = "sumCredits"
    /\ creditSum' = [creditSum EXCEPT ![p] = credited[WalletOf(req[p])]]
    /\ Goto(p, "sumDebits")
    /\ UNCHANGED <<store, active, locks, req, row, outcome>>

SumDebits(p) ==
    /\ pc[p] = "sumDebits"
    /\ \/ /\ creditSum[p] - debited[WalletOf(req[p])] < Amount(req[p])
          /\ Rollback(p, "refused")
       \/ /\ creditSum[p] - debited[WalletOf(req[p])] >= Amount(req[p])
          /\ Goto(p, "existingKey")
          /\ UNCHANGED <<store, active, locks, req, creditSum, row, outcome>>

(* reverse_transaction looks its key up before it locks anything. *)
ReversalKey(p) ==
    /\ pc[p] = "reversalKey"
    /\ LET existing == ledger[req[p].key] IN
       \/ /\ existing # Null /\ existing.type # "reversal"
          /\ Rollback(p, "refused")
       \/ /\ existing # Null => existing.type = "reversal"
          /\ Goto(p, IF existing = Null THEN "lockOriginal" ELSE "commit")
          /\ UNCHANGED <<store, active, locks, req, creditSum, row, outcome>>

(* Mutant: "already reversed" is not checked. *)
LockOriginalUnchecked(p) ==
    /\ pc[p] = "lockOriginal"
    /\ Original(req[p]) # Null
    /\ Blockers(p) = {}
    /\ txLock' = [txLock EXCEPT ![req[p].original] = p]
    /\ Goto(p, IF Original(req[p]).credit \in Wallets
               THEN "lockAccount" ELSE "existingKey")
    /\ UNCHANGED <<store, active, accountLock, req, creditSum, row, outcome>>

(* SELECT ... FOR UPDATE on the original, then the status checks.  A row   *)
(* that is not committed yet is not found.  Reversing a credit of a        *)
(* student wallet goes through the account lock and the balance check.     *)
LockOriginal(p) ==
    /\ pc[p] = "lockOriginal"
    /\ \/ /\ Original(req[p]) = Null
          /\ Rollback(p, "refused")
       \/ /\ Original(req[p]) # Null
          /\ Blockers(p) = {}
          /\ Original(req[p]).status = "reversed"
          /\ Rollback(p, "refused")
       \/ /\ Original(req[p]) # Null
          /\ Blockers(p) = {}
          /\ Original(req[p]).status = "posted"
          /\ txLock' = [txLock EXCEPT ![req[p].original] = p]
          /\ Goto(p, IF Original(req[p]).credit \in Wallets
                     THEN "lockAccount" ELSE "existingKey")
          /\ UNCHANGED <<store, active, accountLock, req, creditSum, row,
                         outcome>>

(* Mutant: any transaction under the key is returned. *)
ExistingKeyUntyped(p) ==
    /\ pc[p] = "existingKey"
    /\ Goto(p, IF ledger[req[p].key] = Null THEN "insertRow" ELSE "commit")
    /\ UNCHANGED <<store, active, locks, req, creditSum, row, outcome>>

(* post_transaction: replay of a known key, then the entry validations.    *)
ExistingKey(p) ==
    /\ pc[p] = "existingKey"
    /\ LET existing == ledger[req[p].key] IN
       \/ /\ existing # Null /\ existing.type # req[p].op
          /\ Rollback(p, "refused")
       \/ /\ existing = Null /\ Amount(req[p]) = 0
          /\ Rollback(p, "refused")
       \/ /\ existing # Null => existing.type = req[p].op
          /\ existing = Null => Amount(req[p]) # 0
          /\ Goto(p, IF existing = Null THEN "insertRow" ELSE "commit")
          /\ UNCHANGED <<store, active, locks, req, creditSum, row, outcome>>

(* Mutant: the key is not unique. *)
InsertRowNotUnique(p) ==
    /\ pc[p] = "insertRow"
    /\ row' = [row EXCEPT ![p] = NewRow(req[p])]
    /\ Goto(p, "insertEntries")
    /\ UNCHANGED <<store, active, locks, req, creditSum, outcome>>

(* The flush of the transaction row: IntegrityError if the key was         *)
(* committed since, a wait if another session holds it uncommitted.        *)
InsertRow(p) ==
    /\ pc[p] = "insertRow"
    /\ Blockers(p) = {}
    /\ \/ /\ ledger[req[p].key] # Null
          /\ Rollback(p, "refused")
       \/ /\ ledger[req[p].key] = Null
          /\ row' = [row EXCEPT ![p] = NewRow(req[p])]
          /\ Goto(p, "insertEntries")
          /\ UNCHANGED <<store, active, locks, req, creditSum, outcome>>

(* Mutant: entries do not wait for the account they refer to. *)
InsertEntriesNoKeyShare(p) ==
    /\ pc[p] = "insertEntries"
    /\ Goto(p, "commit")
    /\ UNCHANGED <<store, active, locks, req, creditSum, row, outcome>>

InsertEntries(p) ==
    /\ pc[p] = "insertEntries"
    /\ Blockers(p) = {}
    /\ Goto(p, "commit")
    /\ UNCHANGED <<store, active, locks, req, creditSum, row, outcome>>

(* The reversal got past its checks, so it will mark its original, whether *)
(* post_transaction inserted a row or returned an existing one.            *)
MarksOriginal(p) ==
    req[p].op = "reversal" /\ txLock[req[p].original] = p

(* The committed rows after p: the row it inserted, and the original it    *)
(* reversed with the event or redemption that carried it.                  *)
LedgerAfter(p) ==
    [k \in Keys |->
        IF row[p] # Null /\ k = req[p].key THEN row[p]
        ELSE IF MarksOriginal(p) /\ k = req[p].original
             THEN [ledger[k] EXCEPT !.status = "reversed"]
             ELSE ledger[k]]

(* Mutant: no cascade. *)
BackingWithoutCascade(p) ==
    [k \in Keys |->
        IF row[p] # Null /\ k = req[p].key /\ req[p].op \in {"earn", "redeem"}
        THEN "completed" ELSE backing[k]]

BackingAfter(p) ==
    [k \in Keys |->
        IF row[p] # Null /\ k = req[p].key
        THEN IF req[p].op \in {"earn", "redeem"} THEN "completed" ELSE "none"
        ELSE IF MarksOriginal(p) /\ k = req[p].original /\ backing[k] # "none"
             THEN "reversed" ELSE backing[k]]

(* The sums of the committed entries once p has committed. *)
CreditedAfter(p) ==
    IF row[p] = Null THEN credited
    ELSE [credited EXCEPT ![row[p].credit] = @ + row[p].amount]

DebitedAfter(p) ==
    IF row[p] = Null THEN debited
    ELSE [debited EXCEPT ![row[p].debit] = @ + row[p].amount]

Commit(p) ==
    /\ pc[p] = "commit"
    /\ ledger' = LedgerAfter(p)
    /\ backing' = BackingAfter(p)
    /\ credited' = CreditedAfter(p)
    /\ debited' = DebitedAfter(p)
    /\ EndTransaction(p, "ok")
    /\ UNCHANGED active

(* The worker or its connection dies, or its caller gives up. *)
Crash(p) ==
    /\ pc[p] # "idle"
    /\ Rollback(p, "lost")

(* PostgreSQL aborts a session it finds on a cycle. *)
DeadlockVictim(p) ==
    /\ OnCycle(p, [q \in Workers |-> Blockers(q)])
    /\ Rollback(p, "lost")

(* An administrator freezes or unfreezes a wallet. *)
SetWalletStatus(w) ==
    /\ active' = [active EXCEPT ![w] = ~@]
    /\ UNCHANGED <<store, locks, local>>

Step(p) ==
    \/ RequireActive(p) \/ LockAccount(p) \/ SumCredits(p) \/ SumDebits(p)
    \/ ReversalKey(p) \/ LockOriginal(p) \/ ExistingKey(p) \/ InsertRow(p)
    \/ InsertEntries(p) \/ Commit(p)

Next ==
    \/ \E p \in Workers : Begin(p) \/ Step(p) \/ Crash(p) \/ DeadlockVictim(p)
    \/ \E w \in Wallets : SetWalletStatus(w)

Spec == Init /\ [][Next]_vars

(* Python runs a handler to its end, PostgreSQL grants row locks in the    *)
(* order of arrival and its deadlock detector always runs; nobody has to   *)
(* send a request.                                                         *)
Fairness == \A p \in Workers : SF_vars(Step(p)) /\ WF_vars(DeadlockVictim(p))
FairSpec == Spec /\ Fairness
-----------------------------------------------------------------------------
(* Properties.                                                             *)

(* No interleaving of earns, redeems, adjustments and reversals drives a   *)
(* student wallet below zero: each of them checks the balance some         *)
(* statements before it commits.                                           *)
NonNegative == \A w \in Wallets : debited[w] <= credited[w]

(* The wallet w is locked by p and can pay n. *)
Covered(p, w, n) == accountLock[w] = p /\ n <= credited[w] - debited[w]

(* Why it holds: what a session has read under the lock of the account     *)
(* stays true until it commits, because nobody else's entries reach a      *)
(* locked account.                                                         *)
LockedReadStands(p) ==
    /\ pc[p] \in {"sumCredits", "sumDebits"} =>
          accountLock[WalletOf(req[p])] = p
    /\ pc[p] = "sumDebits" => creditSum[p] = credited[WalletOf(req[p])]
    /\ pc[p] \in {"existingKey", "insertRow"}
        /\ DebitAccount(req[p]) \in Wallets =>
          Covered(p, DebitAccount(req[p]), Amount(req[p]))
    /\ row[p] # Null /\ row[p].debit \in Wallets =>
          Covered(p, row[p].debit, row[p].amount)

(* Only reversals start at reversalKey, and one past lockOriginal has      *)
(* found its original.                                                     *)
OriginalFound(p) ==
    req[p] # Null =>
      /\ pc[p] \in {"reversalKey", "lockOriginal"} => req[p].op = "reversal"
      /\ pc[p] = "requireActive" => req[p].op # "reversal"
      /\ req[p].op = "reversal" =>
           /\ pc[p] \in {"lockAccount", "sumCredits", "sumDebits",
                         "existingKey", "insertRow"} => Original(req[p]) # Null
           /\ pc[p] \in {"lockAccount", "sumCredits", "sumDebits"} =>
                 Original(req[p]).credit \in Wallets

(* An uncommitted row exists between its insertion and the commit, under a *)
(* key nobody has committed.                                               *)
RowPending(p) ==
    /\ row[p] # Null => /\ pc[p] \in {"insertEntries", "commit"}
                        /\ ledger[req[p].key] = Null
    /\ pc[p] = "insertEntries" => row[p] # Null
    /\ pc[p] = "insertRow" => Amount(req[p]) # 0

LocksExclude ==
    /\ \A p \in Workers, w \in Wallets :
          SharesAccount(p, w) => accountLock[w] \in {p, Null}
    /\ \A p, q \in Workers, k \in Keys :
          HoldsKey(p, k) /\ HoldsKey(q, k) => p = q
    /\ \A k \in Keys : txLock[k] # Null => ledger[k] # Null

(* The inductive invariant behind NonNegative. *)
BalanceInvariant ==
    /\ TypeOK
    /\ NonNegative
    /\ \A p \in Workers :
          LockedReadStands(p) /\ OriginalFound(p) /\ RowPending(p)
    /\ LocksExclude

Reversals(k) == {r \in Keys : ledger[r] # Null /\ ledger[r].reverses = k}

(* A transaction is marked reversed exactly when one reversal exists that  *)
(* swaps its entries: no double refund, no mark without the money.         *)
ReversedOnce ==
    \A k \in Keys : ledger[k] # Null =>
        IF ledger[k].status = "posted" THEN Reversals(k) = {}
        ELSE \E r \in Keys :
                /\ Reversals(k) = {r}
                /\ ledger[r].debit = ledger[k].credit
                /\ ledger[r].credit = ledger[k].debit
                /\ ledger[r].amount = ledger[k].amount

TotalAmount(t, K) == MapThenSumSet(LAMBDA k : t[k].amount, K)

(* An earning event or a redemption that is not reversed, or an adjustment *)
(* in force.                                                               *)
Backed(k) ==
    /\ ledger[k] # Null
    /\ \/ backing[k] = "completed"
       \/ ledger[k].type = "adjustment" /\ ledger[k].status = "posted"

BackedCredits(w) == {k \in Keys : Backed(k) /\ ledger[k].credit = w}
BackedDebits(w) == {k \in Keys : Backed(k) /\ ledger[k].debit = w}

(* The earning events and redemptions that are not reversed, with the      *)
(* adjustments in force, add up to the balance of the wallet: reports and  *)
(* receipts show what the ledger holds.                                    *)
BackingExplainsBalance ==
    \A w \in Wallets :
        credited[w] - debited[w] = TotalAmount(ledger, BackedCredits(w))
                                   - TotalAmount(ledger, BackedDebits(w))

(* The transaction t is what the request r asked for. *)
Fulfils(r, t) ==
    /\ t # Null
    /\ t.type = r.op
    /\ IF r.op = "reversal" THEN t.reverses = r.original
       ELSE /\ t.amount = r.amount
            /\ t.debit = DebitAccount(r)
            /\ t.credit = CreditAccount(r)

(* Success is answered only when the committed transaction under the key,  *)
(* new or replayed, is the one this request asked for.                     *)
AnswerMatchesRequest ==
    [][\A p \in Workers : pc[p] = "commit" /\ outcome'[p] = "ok"
            => Fulfils(req[p], ledger'[req[p].key])]_vars

(* Every request is answered: whatever a worker waits for is released.     *)
EveryRequestAnswered == \A p \in Workers : pc[p] # "idle" ~> pc[p] = "idle"

(* The ledger with its sessions and locks does what the atomic one does.   *)
Atomic == INSTANCE AtomicLedger
ImplementsAtomicLedger == Atomic!Spec
=============================================================================
