------------------------- MODULE RedemptionService -------------------------
(***************************************************************************)
(* Redemptions: QR sessions, stock and receipts around the ledger          *)
(* (app/services/redemption_service.py), and the part of a reversal that   *)
(* returns stock.  The statements of LedgerService run unchanged inside    *)
(* the transaction of a redemption; this module adds the statements before *)
(* and after them, the row locks those take, and their own effects at the  *)
(* commit.                                                                 *)
(***************************************************************************)
EXTENDS LedgerService

CONSTANTS
    Items,        \* reward items
    Tracked,      \* those with an inventory_count
    Tokens,       \* QR session tokens
    Calls,        \* the redeem calls vendors may make
    StudentOf,    \* the wallet of the student a token was created for
    Price,        \* price_tokens of an item
    InitialStock  \* inventory_count at the start

(* A redeem call; its key is already scoped to the vendor. *)
CallType == [key: Keys, token: Tokens, item: Items]

(* What it leaves when it commits. *)
ReceiptType == [token: Tokens, item: Items, before: Int, after: Int]

(* The ledger call it makes. *)
LedgerCall(c) == [op |-> "redeem", key |-> c.key, wallet |-> StudentOf[c.token],
                  amount |-> Price[c.item], credit |-> FALSE, original |-> c.key]

ASSUME CallsAssumption ==
    /\ Calls \subseteq CallType
    /\ StudentOf \in [Tokens -> Wallets]
    /\ Tracked \subseteq Items
    /\ Price \in [Items -> Amounts]
    /\ InitialStock \in [Tracked -> Nat]
    /\ \A c \in Calls : LedgerCall(c) \in Requests
    /\ Null \notin CallType \cup ReceiptType

VARIABLES
    stock,        \* committed inventory_count
    itemLock,     \* the session with an uncommitted update of the item row
    session,      \* QR sessions
    sessionLock,  \* holder of the FOR UPDATE lock of a QR session
    receipt,      \* committed redemptions by key
    rpc,          \* the statement of redeem a worker is about to execute
    call,         \* the redeem call a worker is serving
    pending,      \* the worker has inserted its redemption row
    before,       \* balance_before, while it is being read and then
    after,        \* balance_after
    answer        \* what the vendor was answered; "refused" is any AppError

shop == <<stock, session, receipt>>
shopLocks == <<itemLock, sessionLock>>
callVars == <<rpc, call, pending, before, after, answer>>
rvars == <<shop, shopLocks, callVars>>

CallStatements == {"none", "findReceipt", "reserve", "lockSession",
                   "loadStudent", "readCredits", "readDebits", "insert",
                   "markUsed", "debit", "readAfter", "commit", "raced"}

(* Types, and which statements of redeem run inside the ledger. *)
RTypeOK ==
    /\ stock \in [Tracked -> Int]
    /\ itemLock \in [Tracked -> Workers \cup {Null}]
    /\ session \in [Tokens -> {"none", "valid", "expired", "used"}]
    /\ sessionLock \in [Tokens -> Workers \cup {Null}]
    /\ receipt \in [Keys -> ReceiptType \cup {Null}]
    /\ rpc \in [Workers -> CallStatements]
    /\ call \in [Workers -> Calls \cup {Null}]
    /\ pending \in [Workers -> BOOLEAN]
    /\ before \in [Workers -> Int]
    /\ after \in [Workers -> Int]
    /\ answer \in [Workers -> {"none", "receipt", "refused", "lost"}]
    /\ \A p \in Workers :
        /\ rpc[p] = "none" <=> call[p] = Null
        /\ rpc[p] = "none" /\ req[p] # Null => req[p].op # "redeem"
        /\ rpc[p] \in {"findReceipt", "reserve", "lockSession", "raced"} =>
              pc[p] = "idle"
        /\ rpc[p] \in {"readCredits", "readDebits", "insert", "markUsed"} =>
              pc[p] = "lockAccount"

RInit ==
    /\ Init
    /\ stock = InitialStock
    /\ itemLock = [i \in Tracked |-> Null]
    /\ session = [t \in Tokens |-> "none"]
    /\ sessionLock = [t \in Tokens |-> Null]
    /\ receipt = [k \in Keys |-> Null]
    /\ rpc = [p \in Workers |-> "none"]
    /\ call = [p \in Workers |-> Null]
    /\ pending = [p \in Workers |-> FALSE]
    /\ before = [p \in Workers |-> 0]
    /\ after = [p \in Workers |-> 0]
    /\ answer = [p \in Workers |-> "none"]

-----------------------------------------------------------------------------
(* Waits.                                                                  *)

(* The reversal under way returns this item to stock. *)
ItemReturned(p) == receipt[req[p].original].item
MustRestore(p) ==
    /\ rpc[p] = "none" /\ pc[p] = "commit"
    /\ MarksOriginal(p) /\ receipt[req[p].original] # Null
    /\ ItemReturned(p) \in Tracked

InStock(i) == i \in Tracked /\ stock[i] > 0

InLedger(p) == rpc[p] \in {"none", "debit"}

(* The sessions p waits for, in the ledger's statements or in these. *)
WaitsFor(p) ==
    { q \in Workers \ {p} :
        \/ InLedger(p) /\ q \in Blockers(p)
        \/ /\ rpc[p] = "reserve" /\ InStock(call[p].item)
           /\ itemLock[call[p].item] = q
        \/ rpc[p] \in {"lockSession", "markUsed"} /\ sessionLock[call[p].token] = q
        \/ rpc[p] = "insert" /\ pending[q] /\ call[q].key = call[p].key
        \/ MustRestore(p) /\ itemLock[ItemReturned(p)] = q }

(* Mutant: the QR session stays locked. *)
UnlockItems(p) ==
    /\ itemLock' = [i \in Tracked |-> IF itemLock[i] = p THEN Null ELSE itemLock[i]]
    /\ UNCHANGED sessionLock

(* Own locks go with the transaction. *)
Unlock(p) ==
    /\ itemLock' = [i \in Tracked |-> IF itemLock[i] = p THEN Null ELSE itemLock[i]]
    /\ sessionLock' = [t \in Tokens |->
                        IF sessionLock[t] = p THEN Null ELSE sessionLock[t]]

EndCall(p, a) ==
    /\ Unlock(p)
    /\ rpc' = [rpc EXCEPT ![p] = "none"]
    /\ call' = [call EXCEPT ![p] = Null]
    /\ pending' = [pending EXCEPT ![p] = FALSE]
    /\ before' = [before EXCEPT ![p] = 0]
    /\ after' = [after EXCEPT ![p] = 0]
    /\ answer' = [answer EXCEPT ![p] = a]

(* Mutant: the transaction stays open. *)
LedgerStaysOpen(p) == UNCHANGED vars

(* The ledger's share of a rollback, if the ledger was entered. *)
LedgerGivesUp(p) == IF pc[p] = "idle" THEN UNCHANGED vars ELSE Crash(p)

(* redeem raises: rollback, no receipt. *)
Fails(p, a) ==
    /\ LedgerGivesUp(p)
    /\ EndCall(p, a)
    /\ UNCHANGED shop

Continue(p, s) == rpc' = [rpc EXCEPT ![p] = s]

-----------------------------------------------------------------------------
(* The statements of redeem.                                               *)

StartCall(p) ==
    /\ pc[p] = "idle" /\ rpc[p] = "none"
    /\ \E c \in Calls : call' = [call EXCEPT ![p] = c]
    /\ Continue(p, "findReceipt")
    /\ answer' = [answer EXCEPT ![p] = "none"]
    /\ UNCHANGED <<vars, shop, shopLocks, pending, before, after>>

(* A known key answers with its receipt, a reversed one with the error     *)
(* "Redemption already in progress".                                       *)
AnswerFromReceipt(p) ==
    Fails(p, IF backing[call[p].key] = "completed" THEN "receipt"
             ELSE "refused")

FindReceipt(p) ==
    /\ rpc[p] = "findReceipt"
    /\ \/ /\ receipt[call[p].key] # Null
          /\ AnswerFromReceipt(p)
       \/ /\ receipt[call[p].key] = Null
          /\ Continue(p, "reserve")
          /\ UNCHANGED <<vars, shop, shopLocks, call, pending, before, after,
                         answer>>

(* Mutant: read the count, write it back later. *)
ReserveUnlocked(p) ==
    /\ rpc[p] = "reserve"
    /\ InStock(call[p].item)
    /\ Continue(p, "lockSession")
    /\ UNCHANGED <<vars, shop, shopLocks, call, pending, before, after, answer>>

(* UPDATE ... WHERE inventory_count > 0: the row stays locked.  An item    *)
(* without a count is always available.                                    *)
Reserve(p) ==
    /\ rpc[p] = "reserve"
    /\ \/ /\ call[p].item \notin Tracked
          /\ Continue(p, "lockSession")
          /\ UNCHANGED <<vars, shop, shopLocks, call, pending, before, after,
                         answer>>
       \/ /\ call[p].item \in Tracked /\ ~InStock(call[p].item)
          /\ Fails(p, "refused")
       \/ /\ InStock(call[p].item)
          /\ WaitsFor(p) = {}
          /\ itemLock' = [itemLock EXCEPT ![call[p].item] = p]
          /\ Continue(p, "lockSession")
          /\ UNCHANGED <<vars, shop, sessionLock, call, pending, before, after,
                         answer>>

(* SELECT ... FOR UPDATE of the QR session, then used_at and expires_at.   *)
LockSession(p) ==
    /\ rpc[p] = "lockSession"
    /\ WaitsFor(p) = {}
    /\ \/ /\ session[call[p].token] # "valid"
          /\ Fails(p, "refused")
       \/ /\ session[call[p].token] = "valid"
          /\ sessionLock' = [sessionLock EXCEPT ![call[p].token] = p]
          /\ Begin(p) /\ req'[p] = LedgerCall(call[p])
          /\ Continue(p, "loadStudent")
          /\ UNCHANGED <<shop, itemLock, call, pending, before, after, answer>>

(* Mutant: the wallet may be frozen. *)
LoadStudentUnchecked(p) ==
    /\ rpc[p] = "loadStudent"
    /\ Goto(p, "lockAccount")
    /\ Continue(p, "readCredits")
    /\ UNCHANGED <<store, active, locks, req, creditSum, row, outcome, shop,
                   shopLocks, call, pending, before, after, answer>>

(* The wallet is loaded once: the ledger's own check sees this copy.       *)
LoadStudent(p) ==
    /\ rpc[p] = "loadStudent"
    /\ RequireActive(p)
    /\ \/ /\ pc'[p] = "idle"
          /\ EndCall(p, "refused")
          /\ UNCHANGED shop
       \/ /\ pc'[p] # "idle"
          /\ Continue(p, "readCredits")
          /\ UNCHANGED <<shop, shopLocks, call, pending, before, after, answer>>

(* balance_before: two SUM statements, no lock on the account.             *)
ReadCredits(p) ==
    /\ rpc[p] = "readCredits"
    /\ before' = [before EXCEPT ![p] = credited[StudentOf[call[p].token]]]
    /\ Continue(p, "readDebits")
    /\ UNCHANGED <<vars, shop, shopLocks, call, pending, after, answer>>

ReadDebits(p) ==
    /\ rpc[p] = "readDebits"
    /\ before' = [before EXCEPT ![p] = @ - debited[StudentOf[call[p].token]]]
    /\ Continue(p, "insert")
    /\ UNCHANGED <<vars, shop, shopLocks, call, pending, after, answer>>

(* Mutant: the redemption row is committed when it is inserted. *)
InsertCommitted(p) ==
    /\ rpc[p] = "insert"
    /\ WaitsFor(p) = {}
    /\ receipt[call[p].key] = Null
    /\ receipt' = [receipt EXCEPT ![call[p].key] =
                     [token |-> call[p].token, item |-> call[p].item,
                      before |-> before[p], after |-> after[p]]]
    /\ Continue(p, "markUsed")
    /\ UNCHANGED <<vars, stock, session, shopLocks, call, pending, before, after,
                   answer>>

(* Mutant: the key of a redemption is not unique. *)
InsertNotUnique(p) ==
    /\ rpc[p] = "insert"
    /\ pending' = [pending EXCEPT ![p] = TRUE]
    /\ Continue(p, "markUsed")
    /\ UNCHANGED <<vars, shop, shopLocks, call, before, after, answer>>

(* The flush of the redemption row.  On IntegrityError the transaction is  *)
(* rolled back and the winner's receipt read in a new one.                 *)
Insert(p) ==
    /\ rpc[p] = "insert"
    /\ WaitsFor(p) = {}
    /\ \/ /\ receipt[call[p].key] # Null
          /\ LedgerGivesUp(p)
          /\ Unlock(p)
          /\ Continue(p, "raced")
          /\ UNCHANGED <<shop, call, pending, before, after, answer>>
       \/ /\ receipt[call[p].key] = Null
          /\ pending' = [pending EXCEPT ![p] = TRUE]
          /\ Continue(p, "markUsed")
          /\ UNCHANGED <<vars, shop, shopLocks, call, before, after, answer>>

Raced(p) ==
    /\ rpc[p] = "raced"
    /\ AnswerFromReceipt(p)

(* UPDATE ... WHERE used_at IS NULL; the session may have expired since it *)
(* was locked.                                                             *)
MarkUsed(p) ==
    /\ rpc[p] = "markUsed"
    /\ WaitsFor(p) = {}
    /\ \/ /\ session[call[p].token] \in {"none", "used"}
          /\ Fails(p, "refused")
       \/ /\ session[call[p].token] \in {"valid", "expired"}
          /\ sessionLock' = [sessionLock EXCEPT ![call[p].token] = p]
          /\ Continue(p, "debit")
          /\ UNCHANGED <<vars, shop, itemLock, call, pending, before, after,
                         answer>>

(* LedgerService.redeem from the account lock to the entries. *)
LedgerStatement(p) ==
    \/ LockAccount(p) \/ SumCredits(p) \/ SumDebits(p) \/ ExistingKey(p)
    \/ InsertRow(p) \/ InsertEntries(p)

Debit(p) ==
    /\ rpc[p] = "debit"
    /\ LedgerStatement(p)
    /\ \/ /\ pc'[p] = "idle"
          /\ EndCall(p, "refused")
          /\ UNCHANGED shop
       \/ /\ pc'[p] # "idle"
          /\ Continue(p, IF pc'[p] = "commit" THEN "readAfter" ELSE "debit")
          /\ UNCHANGED <<shop, shopLocks, call, pending, before, after, answer>>

(* Mutant: balance_before less the price. *)
ReadAfterComputed(p) ==
    /\ rpc[p] = "readAfter"
    /\ after' = [after EXCEPT ![p] = before[p] - Price[call[p].item]]
    /\ Continue(p, "commit")
    /\ UNCHANGED <<vars, shop, shopLocks, call, pending, before, answer>>

(* balance_after: the committed sums and the session's own entries. *)
ReadAfter(p) ==
    /\ rpc[p] = "readAfter"
    /\ LET w == StudentOf[call[p].token]
           own == IF row[p] = Null THEN 0 ELSE row[p].amount
       IN after' = [after EXCEPT ![p] = credited[w] - debited[w] - own]
    /\ Continue(p, "commit")
    /\ UNCHANGED <<vars, shop, shopLocks, call, pending, before, answer>>

(* The receipt, the unit of stock, the used session and the ledger rows    *)
(* become visible together.                                                *)
CommitCall(p) ==
    /\ rpc[p] = "commit"
    /\ Commit(p)
    /\ receipt' = [receipt EXCEPT ![call[p].key] =
                     [token |-> call[p].token, item |-> call[p].item,
                      before |-> before[p], after |-> after[p]]]
    /\ stock' = [i \in Tracked |->
                   IF i = call[p].item THEN stock[i] - 1 ELSE stock[i]]
    /\ session' = [session EXCEPT ![call[p].token] = "used"]
    /\ EndCall(p, "receipt")

-----------------------------------------------------------------------------
(* Everything else that runs.                                              *)

(* The ledger calls that are not redemptions. *)
StartLedgerCall(p) ==
    /\ rpc[p] = "none"
    /\ Begin(p) /\ req'[p].op # "redeem"
    /\ answer' = [answer EXCEPT ![p] = "none"]
    /\ UNCHANGED <<shop, shopLocks, rpc, call, pending, before, after>>

PlainLedger(p) ==
    /\ rpc[p] = "none"
    /\ \/ RequireActive(p) \/ ReversalKey(p) \/ LockOriginal(p)
       \/ LedgerStatement(p)
    /\ UNCHANGED rvars

(* restore_inventory, before the commit of the reversal of a redemption.   *)
RestoreInventory(p) ==
    /\ MustRestore(p)
    /\ itemLock[ItemReturned(p)] = Null
    /\ itemLock' = [itemLock EXCEPT ![ItemReturned(p)] = p]
    /\ UNCHANGED <<vars, shop, sessionLock, callVars>>

(* The commit of a reversal returns the unit its redemption took. *)
CommitLedger(p) ==
    /\ rpc[p] = "none"
    /\ MustRestore(p) => itemLock[ItemReturned(p)] = p
    /\ Commit(p)
    /\ stock' = IF MustRestore(p)
                THEN [stock EXCEPT ![ItemReturned(p)] = @ + 1] ELSE stock
    /\ Unlock(p)
    /\ UNCHANGED <<session, receipt, callVars>>

(* A worker dies, or PostgreSQL picks it to break a deadlock. *)
Dies(p) ==
    /\ pc[p] # "idle" \/ rpc[p] # "none"
    /\ Fails(p, "lost")

Victim(p) ==
    /\ OnCycle(p, [q \in Workers |-> WaitsFor(q)])
    /\ Fails(p, "lost")

(* create_qr_session: one insert, for an active wallet. *)
CreateSession(t) ==
    /\ session[t] = "none"
    /\ active[StudentOf[t]]
    /\ session' = [session EXCEPT ![t] = "valid"]
    /\ UNCHANGED <<vars, stock, receipt, shopLocks, callVars>>

(* The time to live runs out. *)
Expire(t) ==
    /\ session[t] = "valid"
    /\ session' = [session EXCEPT ![t] = "expired"]
    /\ UNCHANGED <<vars, stock, receipt, shopLocks, callVars>>

(* The worker task deletes expired unused sessions, waiting for row locks. *)
Purge(t) ==
    /\ session[t] = "expired"
    /\ sessionLock[t] = Null
    /\ session' = [session EXCEPT ![t] = "none"]
    /\ UNCHANGED <<vars, stock, receipt, shopLocks, callVars>>

FreezeWallet(w) ==
    /\ SetWalletStatus(w)
    /\ UNCHANGED rvars

CallStep(p) ==
    \/ FindReceipt(p) \/ Reserve(p) \/ LockSession(p) \/ LoadStudent(p)
    \/ ReadCredits(p) \/ ReadDebits(p) \/ Insert(p) \/ Raced(p) \/ MarkUsed(p)
    \/ Debit(p) \/ ReadAfter(p) \/ CommitCall(p)
    \/ PlainLedger(p) \/ RestoreInventory(p) \/ CommitLedger(p)

RNext ==
    \/ \E p \in Workers : StartCall(p) \/ StartLedgerCall(p) \/ CallStep(p)
                          \/ Dies(p) \/ Victim(p)
    \/ \E t \in Tokens : CreateSession(t) \/ Expire(t) \/ Purge(t)
    \/ \E w \in Wallets : FreezeWallet(w)

RSpec == RInit /\ [][RNext]_<<vars, rvars>>

RFairness == \A p \in Workers :
    SF_<<vars, rvars>>(CallStep(p)) /\ WF_<<vars, rvars>>(Victim(p))
RFairSpec == RSpec /\ RFairness

-----------------------------------------------------------------------------
(* Properties.                                                             *)

Redeemed(k) == receipt[k] # Null /\ backing[k] = "completed"

(* Every unit that left the stock is on a receipt in force, and no item is *)
(* oversold: redemptions that fail halfway, die or race for the last unit, *)
(* and reversals, account for all of it.                                   *)
StockConserved ==
    \A i \in Tracked :
        /\ stock[i] >= 0
        /\ stock[i] + Cardinality({k \in Keys : Redeemed(k)
                                               /\ receipt[k].item = i})
             = InitialStock[i]

(* A QR session is used up exactly by the one receipt it paid for, also    *)
(* when its token is presented twice at once, under one key or two,        *)
(* expires in between or is purged.                                        *)
SessionPaysOnce ==
    \A t \in Tokens :
        LET paid == {k \in Keys : receipt[k] # Null /\ receipt[k].token = t}
        IN Cardinality(paid) = IF session[t] = "used" THEN 1 ELSE 0

(* A receipt exists exactly when the ledger has debited its student by the *)
(* price of its item, whatever fails in between.                           *)
ReceiptBacked ==
    \A k \in Keys :
        /\ receipt[k] # Null <=> ledger[k] # Null /\ ledger[k].type = "redeem"
        /\ receipt[k] # Null =>
             /\ ledger[k].amount = Price[receipt[k].item]
             /\ ledger[k].debit = StudentOf[receipt[k].token]
             /\ Redeemed(k) <=> ledger[k].status = "posted"

(* The balance printed on a receipt is the balance its commit leaves,      *)
(* although it was read some statements earlier.                           *)
ReceiptShowsBalance ==
    [][\A p \in Workers : rpc[p] = "commit" /\ answer'[p] = "receipt"
            => LET w == StudentOf[call[p].token]
               IN receipt'[call[p].key].after = credited'[w] - debited'[w]]_
        <<vars, rvars>>

(* Every redeem call and every reversal is answered: the circular waits    *)
(* between item and account rows are broken.                               *)
EveryCallAnswered ==
    \A p \in Workers : (rpc[p] # "none" \/ pc[p] # "idle")
                            ~> (rpc[p] = "none" /\ pc[p] = "idle")

(* Around the ledger's statements, redemptions leave the ledger what it    *)
(* is: its invariants hold here too.                                       *)
ImplementsLedger == Spec
=============================================================================
