---------------------------- MODULE EarningProofs ----------------------------
(***************************************************************************)
(* Events are posted and decided once, retries are answered with their     *)
(* event, and limits hold within a day, for any number of workers, wallets,*)
(* keys, rules and limits.                                                 *)
(***************************************************************************)
EXTENDS EarningService, ReversalProofs, FiniteSetTheorems

(* issue_reward from the statement on by which the account is locked.      *)
Checking == {"checkDaily", "checkWeekly", "insertEvent"}
Issuing == Checking \cup {"findEvent", "lockWallet", "findAgain", "raced"}
Posting == {"post", "commit"}

(* The call a session serves at each of its statements, and the request it *)
(* makes of the ledger for it.                                             *)
CallSound(p) ==
    /\ call[p] # Null => call[p] \in Calls
    /\ epc[p] \in Issuing => call[p].kind = "issue"
    /\ epc[p] = "lockEvent" => call[p].kind # "issue"
    /\ epc[p] = "post" =>
         /\ call[p].kind # "reject"
         /\ pc[p] \in {"idle", "existingKey", "insertRow", "insertEntries"}
    /\ epc[p] = "commit" =>
         /\ pc[p] \in {"idle", "commit"}
         /\ call[p].kind = "approve" => pc[p] = "commit"
         /\ call[p].kind = "reject" => pc[p] = "idle"
    /\ epc[p] \in Posting /\ pc[p] # "idle" => req[p] = EarnCall(call[p])

(* An issue keeps the account of its student locked to the end.            *)
HoldsWallet(p) ==
    epc[p] \in Checking \cup Posting \cup {"findAgain"} /\ call[p].kind = "issue"
        => accountLock[call[p].wallet] = p

(* What an issue has not found stays absent, and what a decision has found *)
(* pending stays pending, until they commit.                               *)
EventFree(p) ==
    /\ epc[p] \in Posting =>
         IF call[p].kind = "issue" THEN event[call[p].key] = Null
         ELSE /\ eventLock[call[p].key] = p
              /\ event[call[p].key] # Null
              /\ event[call[p].key].status = "pending"
    /\ epc[p] \in Checking /\ event[call[p].key] # Null
         => event[call[p].key].wallet # call[p].wallet

(* Every event was asked for, and has a transaction unless nothing moved.  *)
EventAsked(k) ==
    /\ \E c \in Calls : /\ c.kind = "issue" /\ c.key = k
                        /\ c.wallet = event[k].wallet /\ c.rule = event[k].rule
    /\ event[k].tx = Null <=> event[k].status \in {"pending", "rejected"}

EventsSound ==
    /\ \A k \in Keys : event[k] # Null => EventAsked(k)
    /\ \A p, q \in Workers, k \in Keys :
          HoldsEventKey(p, k) /\ HoldsEventKey(q, k) => p = q

EarnInvariant ==
    /\ BalanceInvariant
    /\ ReversalInvariant
    /\ ETypeOK
    /\ \A p \in Workers : CallSound(p) /\ HoldsWallet(p) /\ EventFree(p)
    /\ EventsSound

-----------------------------------------------------------------------------
(* Helpers.                                                                *)

Replies == {"none", "event", "refused", "lost"}

LEMMA CallTyped ==
    ASSUME EarnInvariant, NEW p \in Workers, call[p] # Null
    PROVE  /\ call[p] \in Calls /\ call[p] \in CallType
           /\ call[p].kind \in {"issue", "approve", "reject"}
           /\ call[p].key \in Keys /\ call[p].wallet \in Wallets
           /\ call[p].rule \in Rules
<1>1. call[p] \in Calls /\ call[p] \in CallType
  BY DEF EarnInvariant, ETypeOK, CallSound
<1> QED BY <1>1 DEF CallType

LEMMA EventTyped ==
    ASSUME EarnInvariant, NEW k \in Keys, event[k] # Null
    PROVE  /\ event[k] \in EventType
           /\ event[k].wallet \in Wallets /\ event[k].rule \in Rules
           /\ event[k].day \in Days /\ event[k].tx \in Keys \cup {Null}
           /\ event[k].status \in {"pending", "posted", "rejected", "reversed"}
<1>1. event[k] \in EventType
  BY DEF EarnInvariant, ETypeOK
<1> QED BY <1>1 DEF EventType

(* A call that is posted has an event to post, and its earn is one of the  *)
(* requests the ledger knows.                                              *)
LEMMA EarnRequested ==
    ASSUME EarnInvariant, NEW p \in Workers, epc[p] \in Posting
    PROVE  /\ call[p] # Null
           /\ EarnCall(call[p]) \in Requests
           /\ EarnCall(call[p]).op = "earn"
           /\ EarnCall(call[p]).key =
                IF call[p].kind = "issue" THEN call[p].key ELSE ApprovalKey[call[p].key]
           /\ EarnCall(call[p]).wallet = EventOf(call[p]).wallet
           /\ EarnCall(call[p]).amount = TokenAmount[EventOf(call[p]).rule]
           /\ EventOf(call[p]).wallet \in Wallets
           /\ EventOf(call[p]).rule \in Rules
<1>1. call[p] # Null
  BY DEF EarnInvariant, ETypeOK, Posting
<1> DEFINE c == call[p]
<1>2. /\ c \in Calls /\ c.key \in Keys /\ c.wallet \in Wallets /\ c.rule \in Rules
      /\ c.kind \in {"issue", "approve", "reject"}
  BY <1>1, CallTyped
<1>3. PICK d \in Calls : /\ d.kind = "issue" /\ d.key = c.key
                         /\ d.wallet = EventOf(c).wallet /\ d.rule = EventOf(c).rule
  <2>1. CASE c.kind = "issue"
    BY <1>2, <2>1 DEF EventOf
  <2>2. CASE c.kind # "issue"
    <3>1. event[c.key] # Null
      BY <2>2 DEF EarnInvariant, EventFree
    <3> QED BY <1>2, <2>2, <3>1 DEF EarnInvariant, EventsSound, EventAsked, EventOf
  <2> QED BY <2>1, <2>2
<1>4. \A k \in {d.key, ApprovalKey[d.key]} : EarnOf(k, d.wallet, d.rule) \in Requests
  BY <1>3, EarningAssumption
<1>5. d.wallet \in Wallets /\ d.rule \in Rules
  BY EarningAssumption DEF CallType
<1>6. EarnCall(c) = EarnOf(IF c.kind = "issue" THEN c.key ELSE ApprovalKey[c.key],
                           d.wallet, d.rule)
  BY <1>3 DEF EarnCall
<1> HIDE DEF c
<1>7. EarnCall(c) \in Requests
  BY <1>3, <1>4, <1>6
<1> QED BY <1>1, <1>3, <1>5, <1>6, <1>7 DEF EarnOf, c

(* What the events may do while p moves: they keep their student and rule, *)
(* those others are deciding stay pending, none appears that others are    *)
(* about to insert, and none for a student others have locked.             *)
EventsMove(p) ==
    /\ event' \in [Keys -> EventType \cup {Null}]
    /\ \A k \in Keys :
          /\ event[k] # Null => /\ event'[k] # Null
                                /\ event'[k].wallet = event[k].wallet
                                /\ event'[k].rule = event[k].rule
          /\ event'[k] # Null => EventAsked(k)'
    /\ \A k \in Keys, q \in Workers \ {p} :
          /\ eventLock[k] = q /\ event[k] # Null /\ event[k].status = "pending"
               => event'[k].status = "pending"
          /\ HoldsEventKey(q, k) => event'[k] = Null
          /\ event[k] = Null /\ event'[k] # Null
               => accountLock[event'[k].wallet] # q

LEMMA EventsStay ==
    ASSUME EarnInvariant, NEW p \in Workers, event' = event
    PROVE  EventsMove(p)
<1>1. \A k \in Keys : event[k] # Null => EventAsked(k)'
  BY DEF EarnInvariant, EventsSound, EventAsked
<1>2. \A k \in Keys, q \in Workers : HoldsEventKey(q, k) => event[k] = Null
  BY DEF HoldsEventKey, EarnInvariant, EventFree, Posting
<1> QED BY <1>1, <1>2 DEF EventsMove, EarnInvariant, ETypeOK

(* The others go on as they were.                                          *)
OthersGoOn(p) ==
    \A q \in Workers \ {p} :
       /\ pc'[q] = pc[q] /\ req'[q] = req[q]
       /\ epc'[q] = epc[q] /\ call'[q] = call[q]
       /\ \A k \in Keys : eventLock[k] = q => eventLock'[k] = q
       /\ \A w \in Wallets : accountLock[w] = q => accountLock'[w] = q

LEMMA OtherSound ==
    ASSUME EarnInvariant, NEW p \in Workers, EventsMove(p), OthersGoOn(p),
           NEW q \in Workers \ {p}
    PROVE  (CallSound(q) /\ HoldsWallet(q) /\ EventFree(q))'
<1>1. /\ pc'[q] = pc[q] /\ req'[q] = req[q]
      /\ epc'[q] = epc[q] /\ call'[q] = call[q]
  BY DEF OthersGoOn
<1>2. CASE call[q] = Null
  <2>1. epc[q] = "none"
    BY <1>2 DEF EarnInvariant, ETypeOK
  <2> QED BY <1>1, <1>2, <2>1 DEF CallSound, HoldsWallet, EventFree, Issuing,
          Checking, Posting
<1>3. CASE call[q] # Null
  <2>1. /\ call[q].key \in Keys /\ call[q].wallet \in Wallets
        /\ CallSound(q) /\ HoldsWallet(q) /\ EventFree(q)
    BY <1>3, CallTyped DEF EarnInvariant
  <2>2. HoldsWallet(q)'
    BY <1>1, <2>1 DEF HoldsWallet, OthersGoOn
  <2>3. EventFree(q)'
    <3>1. CASE epc[q] \in Posting /\ call[q].kind = "issue"
      <4>1. HoldsEventKey(q, call[q].key)
        BY <3>1 DEF HoldsEventKey, Posting
      <4>2. event'[call[q].key] = Null
        BY <2>1, <4>1 DEF EventsMove
      <4> QED BY <1>1, <3>1, <4>2 DEF EventFree, Posting, Checking
    <3>2. CASE epc[q] \in Posting /\ call[q].kind # "issue"
      <4>1. /\ eventLock[call[q].key] = q /\ event[call[q].key] # Null
            /\ event[call[q].key].status = "pending"
        BY <2>1, <3>2 DEF EventFree
      <4>2. /\ eventLock'[call[q].key] = q /\ event'[call[q].key] # Null
            /\ event'[call[q].key].status = "pending"
        BY <2>1, <4>1 DEF EventsMove, OthersGoOn
      <4> QED BY <1>1, <3>2, <4>2 DEF EventFree, Posting, Checking
    <3>3. CASE epc[q] \in Checking
      <4>1. call[q].kind = "issue"
        BY <2>1, <3>3 DEF CallSound, Issuing
      <4>2. accountLock[call[q].wallet] = q
        BY <2>1, <3>3, <4>1 DEF HoldsWallet
      <4>3. event'[call[q].key] # Null => event'[call[q].key].wallet # call[q].wallet
        BY <2>1, <3>3, <4>2 DEF EventFree, EventsMove
      <4> QED BY <1>1, <3>3, <4>3 DEF EventFree, Posting, Checking
    <3>4. CASE epc[q] \notin Posting \cup Checking
      BY <1>1, <3>4 DEF EventFree
    <3> QED BY <3>1, <3>2, <3>3, <3>4
  <2>4. epc[q] \in Posting => EarnCall(call[q])' = EarnCall(call[q])
    <3> SUFFICES ASSUME epc[q] \in Posting
                 PROVE  EventOf(call[q])' = EventOf(call[q])
      BY <1>1 DEF EarnCall
    <3>1. call[q].kind # "issue" => event[call[q].key] # Null
      BY <2>1 DEF EventFree
    <3> QED BY <1>1, <2>1, <3>1 DEF EventOf, EventsMove
  <2>5. CallSound(q)'
    BY <1>1, <2>1, <2>4 DEF CallSound
  <2> QED BY <2>2, <2>3, <2>5
<1> QED BY <1>2, <1>3

(* p moves, and everything else holds its place.                           *)
LEMMA EarnStep ==
    ASSUME EarnInvariant, BalanceInvariant', ReversalInvariant',
           NEW p \in Workers, EventsMove(p), OthersGoOn(p),
           epc' \in [Workers -> EventStatements],
           call' \in [Workers -> CallType \cup {Null}],
           eventLock' \in [Keys -> Workers \cup {Null}],
           startDay' \in [Workers -> Days], sawActive' \in [Workers -> BOOLEAN],
           reply' \in [Workers -> Replies], today' \in Days,
           epc'[p] = "none" <=> call'[p] = Null,
           epc'[p] \notin {"none", "post", "commit"} => pc'[p] = "idle",
           epc'[p] = "none" /\ req'[p] # Null => req'[p].op # "earn",
           (CallSound(p) /\ HoldsWallet(p) /\ EventFree(p))',
           \A k \in Keys : HoldsEventKey(p, k)' =>
              HoldsEventKey(p, k) \/ \A q \in Workers \ {p} : ~HoldsEventKey(q, k)
    PROVE  EarnInvariant'
<1>1. \A q \in Workers : (CallSound(q) /\ HoldsWallet(q) /\ EventFree(q))'
  BY OtherSound
<1>2. \A q \in Workers :
        /\ epc'[q] = "none" <=> call'[q] = Null
        /\ epc'[q] \notin {"none", "post", "commit"} => pc'[q] = "idle"
        /\ epc'[q] = "none" /\ req'[q] # Null => req'[q].op # "earn"
  <2> SUFFICES ASSUME NEW q \in Workers \ {p}
               PROVE  /\ epc'[q] = "none" <=> call'[q] = Null
                      /\ epc'[q] \notin {"none", "post", "commit"} => pc'[q] = "idle"
                      /\ epc'[q] = "none" /\ req'[q] # Null => req'[q].op # "earn"
    OBVIOUS
  <2> QED BY DEF OthersGoOn, EarnInvariant, ETypeOK
<1>3. ETypeOK'
  BY <1>2 DEF ETypeOK, EventsMove, Replies
<1>4. \A q \in Workers \ {p}, k \in Keys : HoldsEventKey(q, k)' <=> HoldsEventKey(q, k)
  BY DEF OthersGoOn, HoldsEventKey
<1>5. EventsSound'
  <2>1. ASSUME NEW q \in Workers, NEW r \in Workers, NEW k \in Keys,
               HoldsEventKey(q, k)', HoldsEventKey(r, k)'
        PROVE  q = r
    <3>1. CASE q = p \/ r = p
      BY <1>4, <2>1, <3>1 DEF EarnInvariant, EventsSound
    <3>2. CASE q # p /\ r # p
      BY <1>4, <2>1, <3>2 DEF EarnInvariant, EventsSound
    <3> QED BY <3>1, <3>2
  <2> QED BY <2>1 DEF EventsSound, EventsMove
<1> QED BY <1>1, <1>3, <1>5 DEF EarnInvariant

-----------------------------------------------------------------------------
(* What the statements do to the ledger.                                   *)

(* A step of the ledger, or none.                                          *)
LEMMA LedgerGoesOn ==
    ASSUME EarnInvariant, [Next]_vars
    PROVE  BalanceInvariant' /\ ReversalInvariant'
BY InvariantStep, ReversalStep DEF EarnInvariant

LEMMA LedgerRolledBack ==
    ASSUME EarnInvariant, NEW p \in Workers, NEW answer \in Outcomes,
           Rollback(p, answer)
    PROVE  BalanceInvariant' /\ ReversalInvariant'
BY RollbackStep, RollbackKeepsReversals DEF EarnInvariant

(* The lock of an account taken ahead of the ledger.                       *)
LEMMA WalletLocked ==
    ASSUME EarnInvariant, NEW p \in Workers, LockWallet(p)
    PROVE  BalanceInvariant' /\ ReversalInvariant'
<1> DEFINE w == call[p].wallet
<1>1. /\ BalanceInvariant /\ ReversalInvariant /\ TypeOK
      /\ accountLock' = [accountLock EXCEPT ![w] = p]
      /\ UNCHANGED <<store, active, txLock, local>>
      /\ epc[p] = "lockWallet" /\ EWaitsFor(p) = {}
      /\ pc[p] = "idle" /\ row[p] = Null /\ req[p] = Null
  BY DEF LockWallet, EarnInvariant, BalanceInvariant, ETypeOK, TypeOK, RowPending
<1>2. w \in Wallets
  BY <1>1, CallTyped DEF EarnInvariant, ETypeOK
<1>3. \A q \in Workers \ {p} : accountLock[w] # q /\ ~SharesAccount(q, w)
  BY <1>1 DEF EWaitsFor
<1> HIDE DEF w
<1>4. /\ pc' = pc /\ req' = req /\ row' = row /\ creditSum' = creditSum
      /\ txLock' = txLock /\ ledger' = ledger /\ UNCHANGED store
  BY <1>1 DEF local, store
<1>5. TypeOK'
  BY <1>1, <1>2 DEF TypeOK, store, local
<1>6. (LockedReadStands(p) /\ OriginalFound(p) /\ RowPending(p))'
  BY <1>1, <1>4 DEF LockedReadStands, OriginalFound, RowPending
<1>7. \A v \in Wallets :
         \/ accountLock'[v] = accountLock[v]
         \/ /\ accountLock'[v] = p
            /\ \A q \in Workers \ {p} :
                  accountLock[v] # q /\ ~SharesAccount(q, v)
  BY <1>1, <1>2, <1>3 DEF TypeOK
<1>8. /\ \A v \in Wallets : ~SharesAccount(p, v)'
      /\ \A k \in Keys : ~HoldsKey(p, k)'
  BY <1>1, <1>4 DEF SharesAccount, HoldsKey
<1>9. BalanceInvariant'
  BY <1>1, <1>4, <1>5, <1>6, <1>7, <1>8, StatementStep
<1>10. (RowAsAsked(p) /\ OriginalHeld(p) /\ Replays(p))'
  BY <1>1, <1>4 DEF RowAsAsked, OriginalHeld, Replays
<1>11. \A k \in Keys : txLock'[k] # p
  BY <1>1, <1>4 DEF ReversalInvariant, HeldToReverse, Reversing
<1>12. \A q \in Workers : req[q] # Null => req[q].original \in Keys
  BY <1>1, RequestTyped
<1>13. ReversalInvariant'
  BY <1>1, <1>4, <1>10, <1>11, <1>12, QuietStep
<1> QED BY <1>9, <1>13

(* The call of LedgerService.earn, past its check of the status.           *)
LEMMA EarnBegun ==
    ASSUME EarnInvariant, NEW p \in Workers, NEW r \in Requests, r.op = "earn",
           pc[p] = "idle", req' = [req EXCEPT ![p] = r], Goto(p, "existingKey"),
           outcome' = [outcome EXCEPT ![p] = "none"],
           UNCHANGED <<store, active, locks, creditSum, row>>
    PROVE  BalanceInvariant' /\ ReversalInvariant'
<1>1. /\ BalanceInvariant /\ ReversalInvariant /\ TypeOK
      /\ row[p] = Null /\ req[p] = Null
  BY DEF EarnInvariant, BalanceInvariant, TypeOK, RowPending
<1>2. /\ pc' = [pc EXCEPT ![p] = "existingKey"]
      /\ row' = row /\ creditSum' = creditSum /\ accountLock' = accountLock
      /\ txLock' = txLock /\ ledger' = ledger /\ UNCHANGED store
  BY DEF locks, store, Goto
<1>3. pc'[p] = "existingKey" /\ req'[p] = r /\ row'[p] = Null
  BY <1>1, <1>2 DEF TypeOK
<1>4. r # Null
  BY RequestsAssumption, NullAssumption
<1>5. \A q \in Workers \ {p} : pc'[q] = pc[q] /\ req'[q] = req[q] /\ row'[q] = row[q]
  BY <1>1, <1>2 DEF TypeOK
<1>6. TypeOK'
  BY <1>1, <1>2, <1>4 DEF TypeOK, store, Statements, Outcomes
<1>7. LockedReadStands(p)'
  BY <1>3, AccountsAssumption DEF LockedReadStands, DebitAccount, SystemAccounts
<1>8. OriginalFound(p)' /\ RowPending(p)'
  BY <1>3 DEF OriginalFound, RowPending
<1>9. /\ \A v \in Wallets : ~SharesAccount(p, v)'
      /\ \A k \in Keys : ~HoldsKey(p, k)'
  BY <1>3 DEF SharesAccount, HoldsKey
<1>10. BalanceInvariant'
  BY <1>1, <1>2, <1>5, <1>6, <1>7, <1>8, <1>9, StatementStep
<1>11. (RowAsAsked(p) /\ OriginalHeld(p) /\ Replays(p))'
  BY <1>3 DEF RowAsAsked, OriginalHeld, Replays
<1>12. \A k \in Keys : txLock'[k] # p
  BY <1>1, <1>2 DEF ReversalInvariant, HeldToReverse, Reversing
<1>13. \A q \in Workers : req[q] # Null => req[q].original \in Keys
  BY <1>1, RequestTyped
<1>14. ReversalInvariant'
  BY <1>1, <1>2, <1>5, <1>11, <1>12, <1>13, QuietStep
<1> QED BY <1>10, <1>14

-----------------------------------------------------------------------------
(* Sessions that end, and statements that go on.                           *)

(* p ends its call and rolls back. *)
LEMMA CallEnds ==
    ASSUME EarnInvariant, NEW p \in Workers, NEW o \in Outcomes,
           NEW a \in Replies, Rollback(p, o), Answer(p, a),
           UNCHANGED <<event, today>>
    PROVE  EarnInvariant'
<1>1. BalanceInvariant' /\ ReversalInvariant'
  BY LedgerRolledBack
<1>2. ETypeOK /\ TypeOK
  BY DEF EarnInvariant, BalanceInvariant
<1>3. /\ epc'[p] = "none" /\ call'[p] = Null
      /\ pc'[p] = "idle" /\ req'[p] = Null
  BY <1>2 DEF Answer, Continue, ETypeOK, Rollback, EndTransaction, TypeOK
<1>4. OthersGoOn(p)
  BY <1>2 DEF OthersGoOn, Answer, Continue, ETypeOK, Rollback, EndTransaction,
     TypeOK
<1>5. EventsMove(p)
  BY EventsStay
<1>6. (CallSound(p) /\ HoldsWallet(p) /\ EventFree(p))'
  BY <1>3 DEF CallSound, HoldsWallet, EventFree, Issuing, Checking, Posting
<1>7. /\ epc' \in [Workers -> EventStatements]
      /\ call' \in [Workers -> CallType \cup {Null}]
      /\ eventLock' \in [Keys -> Workers \cup {Null}]
      /\ reply' \in [Workers -> Replies]
      /\ today' \in Days
  BY <1>2 DEF Answer, Continue, ETypeOK, EventStatements, Replies
<1>8. startDay' \in [Workers -> Days] /\ sawActive' \in [Workers -> BOOLEAN]
  BY <1>2, EarningAssumption DEF Answer, ETypeOK, Days
<1>9. \A k \in Keys : ~HoldsEventKey(p, k)'
  BY <1>3 DEF HoldsEventKey
<1> QED BY <1>1, <1>3, <1>4, <1>5, <1>6, <1>7, <1>8, <1>9, EarnStep

LEMMA SessionEnds ==
    ASSUME EarnInvariant, NEW p \in Workers, NEW a \in Replies, EndSession(p, a)
    PROVE  EarnInvariant'
BY CallEnds DEF EndSession, Outcomes

(* A statement after which p goes on with its call, at the statement s.    *)
LEMMA GoesOn ==
    ASSUME EarnInvariant, BalanceInvariant', ReversalInvariant',
           NEW p \in Workers, NEW s \in EventStatements,
           epc[p] # "none", s # "none", epc' = [epc EXCEPT ![p] = s],
           UNCHANGED <<event, today, call, startDay, reply>>,
           sawActive' \in [Workers -> BOOLEAN],
           eventLock' \in [Keys -> Workers \cup {Null}], OthersGoOn(p),
           s \notin Posting => pc'[p] = "idle",
           (CallSound(p) /\ HoldsWallet(p) /\ EventFree(p))',
           \A k \in Keys : HoldsEventKey(p, k)' =>
              HoldsEventKey(p, k) \/ \A q \in Workers \ {p} : ~HoldsEventKey(q, k)
    PROVE  EarnInvariant'
<1>1. ETypeOK /\ EventsMove(p)
  BY EventsStay DEF EarnInvariant
<1>2. epc'[p] = s /\ call'[p] # Null
  BY <1>1 DEF ETypeOK
<1>3. /\ epc' \in [Workers -> EventStatements]
      /\ call' \in [Workers -> CallType \cup {Null}]
      /\ startDay' \in [Workers -> Days] /\ reply' \in [Workers -> Replies]
      /\ today' \in Days
  BY <1>1 DEF ETypeOK, Replies
<1> QED BY <1>1, <1>2, <1>3, EarnStep DEF Posting

(* Such a statement that reads, and changes nothing else. *)
LEMMA ReadsOn ==
    ASSUME EarnInvariant, NEW p \in Workers, NEW s \in EventStatements,
           epc[p] \in Issuing, s \in Issuing \cup Posting, pc[p] = "idle",
           epc' = [epc EXCEPT ![p] = s],
           UNCHANGED <<vars, event, eventLock, today, call, startDay, reply>>,
           sawActive' \in [Workers -> BOOLEAN],
           s = "post" \/ s = "commit" =>
              /\ event[call[p].key] = Null
              /\ \A q \in Workers \ {p} : ~HoldsEventKey(q, call[p].key),
           s \in Checking \cup Posting \cup {"findAgain"} =>
              epc[p] \in Checking \cup {"findAgain"},
           s \in Checking /\ event[call[p].key] # Null =>
              event[call[p].key].wallet # call[p].wallet
    PROVE  EarnInvariant'
<1>1. /\ BalanceInvariant' /\ ReversalInvariant' /\ ETypeOK
      /\ CallSound(p) /\ HoldsWallet(p) /\ call[p].kind = "issue"
  BY LedgerGoesOn DEF EarnInvariant, CallSound
<1>2. /\ epc'[p] = s /\ call' = call /\ pc' = pc /\ req' = req
      /\ accountLock' = accountLock /\ event' = event /\ eventLock' = eventLock
  BY <1>1 DEF ETypeOK, vars, local, locks
<1>3. OthersGoOn(p)
  BY <1>1, <1>2 DEF OthersGoOn, ETypeOK
<1>4. CallSound(p)'
  BY <1>1, <1>2 DEF CallSound, Issuing, Checking, Posting
<1>5. HoldsWallet(p)'
  BY <1>1, <1>2 DEF HoldsWallet
<1>6. EventFree(p)'
  BY <1>1, <1>2 DEF EventFree, Posting, Checking
<1>7. \A k \in Keys : HoldsEventKey(p, k)' =>
         \A q \in Workers \ {p} : ~HoldsEventKey(q, k)
  BY <1>2 DEF HoldsEventKey
<1>8. epc[p] # "none" /\ s # "none" /\ eventLock' \in [Keys -> Workers \cup {Null}]
  BY <1>1, <1>2 DEF Issuing, Checking, Posting, ETypeOK
<1> QED BY <1>1, <1>2, <1>3, <1>4, <1>5, <1>6, <1>7, <1>8, GoesOn

-----------------------------------------------------------------------------
(* One lemma per statement of a call.                                      *)

LEMMA StartCallStep ==
    ASSUME EarnInvariant, NEW p \in Workers, StartCall(p)
    PROVE  EarnInvariant'
<1>1. PICK c \in Calls :
        /\ call' = [call EXCEPT ![p] = c]
        /\ epc' = [epc EXCEPT ![p] = IF c.kind = "issue" THEN "findEvent"
                                     ELSE "lockEvent"]
  BY DEF StartCall, Continue
<1>2. /\ BalanceInvariant' /\ ReversalInvariant' /\ ETypeOK /\ EventsMove(p)
      /\ pc[p] = "idle" /\ TypeOK
  BY LedgerGoesOn, EventsStay DEF StartCall, EarnInvariant, BalanceInvariant
<1>3. /\ pc' = pc /\ req' = req /\ accountLock' = accountLock
      /\ eventLock' = eventLock /\ sawActive' = sawActive /\ today' = today
      /\ startDay' = [startDay EXCEPT ![p] = today]
      /\ reply' = [reply EXCEPT ![p] = "none"]
  BY DEF StartCall, vars, local, locks
<1>4. c \in CallType /\ c # Null
  BY EarningAssumption
<1>5. /\ call'[p] = c /\ pc'[p] = "idle"
      /\ epc'[p] = IF c.kind = "issue" THEN "findEvent" ELSE "lockEvent"
  BY <1>1, <1>2, <1>3 DEF ETypeOK
<1>6. OthersGoOn(p)
  BY <1>1, <1>2, <1>3 DEF OthersGoOn, ETypeOK
<1>7. (CallSound(p) /\ HoldsWallet(p) /\ EventFree(p))'
  BY <1>4, <1>5 DEF CallSound, HoldsWallet, EventFree, Issuing, Checking, Posting
<1>8. \A k \in Keys : ~HoldsEventKey(p, k)'
  BY <1>5 DEF HoldsEventKey
<1>9. /\ epc' \in [Workers -> EventStatements]
      /\ call' \in [Workers -> CallType \cup {Null}]
      /\ eventLock' \in [Keys -> Workers \cup {Null}]
      /\ startDay' \in [Workers -> Days] /\ reply' \in [Workers -> Replies]
      /\ sawActive' \in [Workers -> BOOLEAN] /\ today' \in Days
  BY <1>1, <1>2, <1>3, <1>4 DEF ETypeOK, Replies, EventStatements
<1> QED BY <1>2, <1>4, <1>5, <1>6, <1>7, <1>8, <1>9, EarnStep

(* What a statement of a call finds.                                       *)
LEMMA CallAt ==
    ASSUME EarnInvariant, NEW p \in Workers, epc[p] # "none"
    PROVE  /\ ETypeOK /\ TypeOK /\ CallSound(p) /\ HoldsWallet(p) /\ EventFree(p)
           /\ call[p] # Null /\ call[p].key \in Keys /\ call[p].wallet \in Wallets
           /\ call[p].rule \in Rules
           /\ call[p].kind \in {"issue", "approve", "reject"}
           /\ epc[p] \notin Posting =>
                pc[p] = "idle" /\ req[p] = Null /\ row[p] = Null
<1>1. ETypeOK /\ TypeOK /\ call[p] # Null
  BY DEF EarnInvariant, BalanceInvariant, ETypeOK
<1>2. epc[p] \notin Posting => pc[p] = "idle"
  BY <1>1 DEF ETypeOK, Posting
<1>3. pc[p] = "idle" => req[p] = Null /\ row[p] = Null
  BY DEF EarnInvariant, BalanceInvariant, TypeOK, RowPending
<1> QED BY <1>1, <1>2, <1>3, CallTyped DEF EarnInvariant

LEMMA FindEventStep ==
    ASSUME EarnInvariant, NEW p \in Workers, FindEvent(p)
    PROVE  EarnInvariant'
<1>1. CASE EndSession(p, "event")
  BY <1>1, SessionEnds DEF Replies
<1>2. CASE ~EndSession(p, "event")
  <2>1. /\ epc[p] = "findEvent"
        /\ sawActive' = [sawActive EXCEPT ![p] = active[call[p].wallet]]
        /\ epc' = [epc EXCEPT ![p] = "lockWallet"]
        /\ UNCHANGED <<vars, event, eventLock, today, call, startDay, reply>>
    BY <1>2 DEF FindEvent, Continue
  <2>2. ETypeOK /\ TypeOK /\ call[p].wallet \in Wallets /\ pc[p] = "idle"
    BY <2>1, CallAt DEF Posting
  <2>3. sawActive' \in [Workers -> BOOLEAN]
    BY <2>1, <2>2 DEF ETypeOK, TypeOK
  <2> QED BY <2>1, <2>2, <2>3, ReadsOn DEF Issuing, Checking, Posting,
          EventStatements
<1> QED BY <1>1, <1>2

LEMMA LockWalletStep ==
    ASSUME EarnInvariant, NEW p \in Workers, LockWallet(p)
    PROVE  EarnInvariant'
<1>1. /\ epc[p] = "lockWallet" /\ EWaitsFor(p) = {}
      /\ accountLock' = [accountLock EXCEPT ![call[p].wallet] = p]
      /\ epc' = [epc EXCEPT ![p] = "findAgain"]
      /\ pc' = pc /\ req' = req
      /\ UNCHANGED <<event, eventLock, today, call, startDay, sawActive, reply>>
  BY DEF LockWallet, Continue, local
<1>2. BalanceInvariant' /\ ReversalInvariant'
  BY WalletLocked
<1>3. /\ ETypeOK /\ TypeOK /\ call[p].wallet \in Wallets /\ call[p].kind = "issue"
      /\ call[p] \in Calls /\ pc[p] = "idle"
  BY <1>1, CallAt DEF Posting, CallSound, Issuing
<1>4. epc'[p] = "findAgain" /\ accountLock'[call[p].wallet] = p
  BY <1>1, <1>3 DEF ETypeOK, TypeOK
<1>5. \A q \in Workers \ {p} : accountLock[call[p].wallet] # q
  BY <1>1 DEF EWaitsFor
<1>6. OthersGoOn(p)
  BY <1>1, <1>3, <1>5 DEF OthersGoOn, ETypeOK, TypeOK
<1>7. (CallSound(p) /\ HoldsWallet(p) /\ EventFree(p))'
  BY <1>1, <1>3, <1>4 DEF CallSound, HoldsWallet, EventFree, Issuing, Checking,
     Posting
<1>8. \A k \in Keys : ~HoldsEventKey(p, k)'
  BY <1>4 DEF HoldsEventKey
<1>9. sawActive' \in [Workers -> BOOLEAN] /\ eventLock' \in [Keys -> Workers \cup {Null}]
  BY <1>1, <1>3 DEF ETypeOK
<1> QED BY <1>1, <1>2, <1>3, <1>6, <1>7, <1>8, <1>9, GoesOn DEF EventStatements

LEMMA FindAgainStep ==
    ASSUME EarnInvariant, NEW p \in Workers, FindAgain(p)
    PROVE  EarnInvariant'
<1>1. CASE EndSession(p, "event")
  BY <1>1, SessionEnds DEF Replies
<1>2. CASE ~EndSession(p, "event")
  <2>1. /\ epc[p] = "findAgain" /\ event[call[p].key] = Null
        /\ epc' = [epc EXCEPT ![p] = "checkDaily"]
        /\ UNCHANGED <<vars, event, eventLock, today, call, startDay, sawActive,
                       reply>>
    BY <1>2 DEF FindAgain, Continue
  <2>2. ETypeOK /\ pc[p] = "idle"
    BY <2>1, CallAt DEF Posting
  <2>3. sawActive' \in [Workers -> BOOLEAN]
    BY <2>1, <2>2 DEF ETypeOK
  <2> QED BY <2>1, <2>2, <2>3, ReadsOn DEF Issuing, Checking, Posting,
          EventStatements
<1> QED BY <1>1, <1>2

LEMMA CheckStep ==
    ASSUME EarnInvariant, NEW p \in Workers, CheckDaily(p) \/ CheckWeekly(p)
    PROVE  EarnInvariant'
<1>1. CASE EndSession(p, "refused")
  BY <1>1, SessionEnds DEF Replies
<1>2. CASE ~EndSession(p, "refused")
  <2>1. PICK s \in {"checkWeekly", "insertEvent"} :
        /\ epc[p] \in {"checkDaily", "checkWeekly"}
        /\ epc' = [epc EXCEPT ![p] = s]
        /\ UNCHANGED <<vars, event, eventLock, today, call, startDay, sawActive,
                       reply>>
    BY <1>2 DEF CheckDaily, CheckWeekly, CheckLimit, Continue
  <2>2. ETypeOK /\ pc[p] = "idle" /\ EventFree(p)
    BY <2>1, CallAt DEF Posting
  <2>3. sawActive' \in [Workers -> BOOLEAN]
    BY <2>1, <2>2 DEF ETypeOK
  <2>4. event[call[p].key] # Null => event[call[p].key].wallet # call[p].wallet
    BY <2>1, <2>2 DEF EventFree, Checking
  <2> QED BY <2>1, <2>2, <2>3, <2>4, ReadsOn DEF Issuing, Checking, Posting,
          EventStatements
<1> QED BY <1>1, <1>2

LEMMA InsertEventStep ==
    ASSUME EarnInvariant, NEW p \in Workers, InsertEvent(p)
    PROVE  EarnInvariant'
<1>1. /\ epc[p] = "insertEvent" /\ EWaitsFor(p) = {}
      /\ UNCHANGED <<event, eventLock, today, call, startDay, sawActive, reply>>
  BY DEF InsertEvent
<1>2. /\ ETypeOK /\ TypeOK /\ call[p] \in Calls /\ call[p].kind = "issue"
      /\ pc[p] = "idle"
  BY <1>1, CallAt DEF Posting, CallSound, Issuing, Checking
<1>3. sawActive' \in [Workers -> BOOLEAN] /\ eventLock' \in [Keys -> Workers \cup {Null}]
  BY <1>1, <1>2 DEF ETypeOK
<1>4. CASE event[call[p].key] # Null
  <2>1. Rollback(p, "none") /\ epc' = [epc EXCEPT ![p] = "raced"]
    BY <1>4 DEF InsertEvent, Continue
  <2>2. BalanceInvariant' /\ ReversalInvariant'
    BY <2>1, LedgerRolledBack DEF Outcomes
  <2>3. epc'[p] = "raced" /\ pc'[p] = "idle" /\ call' = call
    BY <1>1, <1>2, <2>1 DEF ETypeOK, TypeOK, Rollback, EndTransaction
  <2>4. OthersGoOn(p)
    BY <1>1, <1>2, <2>1 DEF OthersGoOn, ETypeOK, TypeOK, Rollback, EndTransaction
  <2>5. (CallSound(p) /\ HoldsWallet(p) /\ EventFree(p))'
    BY <1>2, <2>3 DEF CallSound, HoldsWallet, EventFree, Issuing, Checking, Posting
  <2>6. \A k \in Keys : ~HoldsEventKey(p, k)'
    BY <2>3 DEF HoldsEventKey
  <2> QED BY <1>1, <1>3, <2>1, <2>2, <2>3, <2>4, <2>5, <2>6, GoesOn
          DEF EventStatements
<1>5. CASE event[call[p].key] = Null
  <2>1. PICK s \in {"commit", "post"} :
           epc' = [epc EXCEPT ![p] = s] /\ UNCHANGED vars
    BY <1>5 DEF InsertEvent, Continue
  <2>2. \A q \in Workers \ {p} : ~HoldsEventKey(q, call[p].key)
    BY <1>1 DEF EWaitsFor
  <2> QED BY <1>1, <1>2, <1>3, <1>5, <2>1, <2>2, ReadsOn DEF Issuing, Checking,
          Posting, EventStatements
<1> QED BY <1>4, <1>5

LEMMA LockEventStep ==
    ASSUME EarnInvariant, NEW p \in Workers, LockEvent(p)
    PROVE  EarnInvariant'
<1>1. CASE EndSession(p, "refused")
  BY <1>1, SessionEnds DEF Replies
<1>2. CASE ~EndSession(p, "refused")
  <2> DEFINE k == call[p].key
             s == IF call[p].kind = "approve" THEN "post" ELSE "commit"
  <2>1. /\ epc[p] = "lockEvent" /\ EWaitsFor(p) = {}
        /\ event[k] # Null /\ event[k].status = "pending"
        /\ eventLock' = [eventLock EXCEPT ![k] = p]
        /\ sawActive' = [sawActive EXCEPT ![p] = active[event[k].wallet]]
        /\ epc' = [epc EXCEPT ![p] = s]
        /\ UNCHANGED <<vars, event, today, call, startDay, reply>>
    BY <1>2 DEF LockEvent, Continue
  <2>2. /\ ETypeOK /\ TypeOK /\ k \in Keys /\ call[p] \in Calls
        /\ call[p].kind \in {"approve", "reject"} /\ pc[p] = "idle"
    BY <2>1, CallAt DEF Posting, CallSound
  <2>3. event[k].wallet \in Wallets
    BY <2>1, <2>2, EventTyped
  <2>4. /\ epc'[p] = s /\ call' = call /\ pc' = pc /\ req' = req
        /\ accountLock' = accountLock /\ event' = event /\ eventLock'[k] = p
    BY <2>1, <2>2 DEF ETypeOK, vars, local, locks
  <2>5. \A q \in Workers \ {p} : eventLock[k] # q
    BY <2>1 DEF EWaitsFor
  <2>6. OthersGoOn(p)
    <3> HIDE DEF k, s
    <3> QED BY <2>1, <2>2, <2>4, <2>5 DEF OthersGoOn, ETypeOK
  <2>7. CallSound(p)'
    BY <2>2, <2>4 DEF CallSound, Issuing, Checking, Posting
  <2>8. HoldsWallet(p)' /\ EventFree(p)'
    BY <2>1, <2>2, <2>4 DEF HoldsWallet, EventFree, Checking, Posting
  <2>9. \A j \in Keys : ~HoldsEventKey(p, j)'
    BY <2>2, <2>4 DEF HoldsEventKey
  <2>10. /\ sawActive' \in [Workers -> BOOLEAN]
         /\ eventLock' \in [Keys -> Workers \cup {Null}]
    BY <2>1, <2>2, <2>3 DEF ETypeOK, TypeOK
  <2>11. BalanceInvariant' /\ ReversalInvariant'
    BY <2>1, LedgerGoesOn
  <2>12. s \in EventStatements /\ s # "none" /\ s \in Posting
    BY DEF EventStatements, Posting
  <2> HIDE DEF k, s
  <2> QED BY <2>1, <2>6, <2>7, <2>8, <2>9, <2>10, <2>11, <2>12, GoesOn
<1> QED BY <1>1, <1>2

-----------------------------------------------------------------------------
(* The ledger's statements, for a call of this service or of another.      *)

LEMMA LedgerOthers ==
    ASSUME EarnInvariant, NEW p \in Workers,
           \/ RequireActive(p) \/ LockAccount(p) \/ SumCredits(p) \/ SumDebits(p)
           \/ ReversalKey(p) \/ LockOriginal(p) \/ ExistingKey(p) \/ InsertRow(p)
           \/ InsertEntries(p) \/ Commit(p)
    PROVE  /\ BalanceInvariant' /\ ReversalInvariant'
           /\ req'[p] = req[p] \/ req'[p] = Null
           /\ \A q \in Workers \ {p} :
                /\ pc'[q] = pc[q] /\ req'[q] = req[q]
                /\ \A w \in Wallets : accountLock[w] = q => accountLock'[w] = q
<1>1. Step(p) /\ TypeOK
  BY DEF Step, EarnInvariant, BalanceInvariant
<1>2. BalanceInvariant' /\ ReversalInvariant'
  BY <1>1, LedgerGoesOn DEF Next
<1>3. CASE LockAccount(p)
  BY <1>1, <1>2, <1>3 DEF LockAccount, Goto, Blockers, TypeOK
<1>4. CASE \E a \in Outcomes : EndTransaction(p, a)
  BY <1>1, <1>2, <1>4 DEF EndTransaction, TypeOK
<1>5. CASE ~LockAccount(p) /\ \A a \in Outcomes : ~EndTransaction(p, a)
  <2>1. "ok" \in Outcomes /\ "refused" \in Outcomes
    BY DEF Outcomes
  <2>2. /\ \E s : pc' = [pc EXCEPT ![p] = s]
        /\ req' = req /\ accountLock' = accountLock
    BY <1>5, <2>1 DEF RequireActive, SumCredits, SumDebits, ReversalKey,
       LockOriginal, ExistingKey, InsertRow, InsertEntries, Commit, Goto,
       Rollback, locks
  <2> QED BY <1>1, <1>2, <2>2 DEF TypeOK
<1> QED BY <1>3, <1>4, <1>5

LEMMA CallEarnStep ==
    ASSUME EarnInvariant, NEW p \in Workers, CallEarn(p)
    PROVE  EarnInvariant'
<1>1. CASE EndSession(p, "refused")
  BY <1>1, SessionEnds DEF Replies
<1>2. CASE ~EndSession(p, "refused")
  <2> DEFINE r == EarnCall(call[p])
  <2>1. /\ epc[p] = "post" /\ pc[p] = "idle" /\ req' = [req EXCEPT ![p] = r]
        /\ Goto(p, "existingKey") /\ outcome' = [outcome EXCEPT ![p] = "none"]
        /\ UNCHANGED <<store, active, locks, creditSum, row, evars>>
    BY <1>2 DEF CallEarn
  <2>2. r \in Requests /\ r.op = "earn"
    BY <2>1, EarnRequested DEF Posting
  <2>3. /\ ETypeOK /\ TypeOK /\ CallSound(p) /\ HoldsWallet(p) /\ EventFree(p)
        /\ call[p] \in Calls
    BY <2>1, CallAt DEF CallSound
  <2>4. BalanceInvariant' /\ ReversalInvariant'
    <3> HIDE DEF r
    <3> QED BY <2>1, <2>2, EarnBegun
  <2>5. /\ pc'[p] = "existingKey" /\ req'[p] = r /\ epc' = epc /\ call' = call
        /\ event' = event /\ eventLock' = eventLock /\ accountLock' = accountLock
        /\ \A q \in Workers \ {p} : pc'[q] = pc[q] /\ req'[q] = req[q]
    BY <2>1, <2>3 DEF TypeOK, Goto, evars, locks
  <2>6. EarnCall(call[p])' = r
    BY <2>5 DEF EarnCall, EventOf
  <2> HIDE DEF r
  <2>7. CallSound(p)'
    BY <2>1, <2>3, <2>5, <2>6 DEF CallSound, Issuing, Checking
  <2>8. HoldsWallet(p)' /\ EventFree(p)'
    BY <2>3, <2>5 DEF HoldsWallet, EventFree
  <2>9. OthersGoOn(p)
    BY <2>5 DEF OthersGoOn
  <2>10. \A k \in Keys : HoldsEventKey(p, k)' => HoldsEventKey(p, k)
    BY <2>5 DEF HoldsEventKey
  <2>11. epc' = [epc EXCEPT ![p] = "post"]
    BY <2>1, <2>3, <2>5 DEF ETypeOK
  <2>12. /\ UNCHANGED <<event, today, call, startDay, reply>>
         /\ sawActive' \in [Workers -> BOOLEAN]
         /\ eventLock' \in [Keys -> Workers \cup {Null}]
    BY <2>1, <2>3 DEF evars, ETypeOK
  <2> QED BY <2>1, <2>4, <2>7, <2>8, <2>9, <2>10, <2>11, <2>12, GoesOn
          DEF EventStatements, Posting
<1> QED BY <1>1, <1>2

LEMMA PostStep ==
    ASSUME EarnInvariant, NEW p \in Workers, Post(p)
    PROVE  EarnInvariant'
<1>1. /\ epc[p] = "post" /\ ETypeOK /\ TypeOK /\ CallSound(p) /\ HoldsWallet(p)
      /\ EventFree(p) /\ call[p] \in Calls
      /\ pc[p] \in {"existingKey", "insertRow", "insertEntries"}
      /\ call[p].kind \in {"issue", "approve"}
  BY CallAt DEF Post, CallSound, ExistingKey, InsertRow, InsertEntries
<1>2. /\ BalanceInvariant' /\ ReversalInvariant'
      /\ \A q \in Workers \ {p} :
           /\ pc'[q] = pc[q] /\ req'[q] = req[q]
           /\ \A w \in Wallets : accountLock[w] = q => accountLock'[w] = q
  BY LedgerOthers DEF Post
<1>3. CASE Rollback(p, "refused")
  <2>1. pc'[p] = "idle"
    BY <1>1, <1>3 DEF Rollback, EndTransaction, TypeOK
  <2> QED BY <1>3, <2>1, CallEnds DEF Post, Outcomes, Replies
<1>4. CASE ~Rollback(p, "refused")
  <2>1. /\ pc'[p] \in {"insertRow", "insertEntries", "commit"}
        /\ req' = req /\ accountLock' = accountLock
    BY <1>1, <1>4 DEF Post, ExistingKey, InsertRow, InsertEntries, Goto, TypeOK,
       locks
  <2> DEFINE s == IF pc'[p] = "commit" THEN "commit" ELSE "post"
  <2>2. /\ epc' = [epc EXCEPT ![p] = s]
        /\ UNCHANGED <<event, eventLock, today, call, startDay, sawActive, reply>>
    BY <2>1 DEF Post, Continue
  <2>3. epc'[p] = s /\ s \in Posting /\ s \in EventStatements /\ s # "none"
    BY <1>1, <2>2 DEF ETypeOK, Posting, EventStatements
  <2>4. EarnCall(call[p])' = EarnCall(call[p])
    BY <2>2 DEF EarnCall, EventOf
  <2>5. req'[p] = EarnCall(call[p])
    BY <1>1, <2>1 DEF CallSound, Posting
  <2>6. CallSound(p)'
    BY <1>1, <2>1, <2>2, <2>3, <2>4, <2>5 DEF CallSound, Issuing, Checking
  <2> HIDE DEF s
  <2>7. HoldsWallet(p)' /\ EventFree(p)'
    BY <1>1, <2>1, <2>2, <2>3 DEF HoldsWallet, EventFree, Posting, Checking
  <2>8. OthersGoOn(p)
    BY <1>1, <1>2, <2>1, <2>2 DEF OthersGoOn, ETypeOK
  <2>9. \A k \in Keys : HoldsEventKey(p, k)' => HoldsEventKey(p, k)
    BY <1>1, <2>2 DEF HoldsEventKey
  <2>10. /\ sawActive' \in [Workers -> BOOLEAN]
         /\ eventLock' \in [Keys -> Workers \cup {Null}]
    BY <1>1, <2>2 DEF ETypeOK
  <2> QED BY <1>1, <1>2, <2>2, <2>3, <2>6, <2>7, <2>8, <2>9, <2>10, GoesOn
<1> QED BY <1>3, <1>4

(* The commit writes one event: a new one, or a decision of its own.       *)
LEMMA EventWritten ==
    ASSUME EarnInvariant, NEW p \in Workers, CommitEvent(p)
    PROVE  /\ EventsMove(p)
           /\ \A k \in Keys \ {call[p].key} : event'[k] = event[k]
           /\ event'[call[p].key] \in EventType
           /\ pc[p] = "commit" => /\ event'[call[p].key].tx = req[p].key
                                  /\ event'[call[p].key].status = "posted"
           /\ pc[p] # "commit" =>
                 event'[call[p].key].status \in {"pending", "rejected"}
           /\ event'[call[p].key].wallet = EventOf(call[p]).wallet
           /\ event'[call[p].key].rule = EventOf(call[p]).rule
           /\ event'[call[p].key].day =
                IF call[p].kind = "issue" THEN startDay[p]
                ELSE event[call[p].key].day
<1>k. PICK k \in Keys : k = call[p].key
  BY CallAt DEF CommitEvent
<1> DEFINE e == event'[k]
<1>1. /\ epc[p] = "commit" /\ ETypeOK /\ TypeOK /\ CallSound(p) /\ HoldsWallet(p)
      /\ EventFree(p) /\ call[p] \in Calls
      /\ call[p].wallet \in Wallets /\ call[p].rule \in Rules
      /\ call[p].kind \in {"issue", "approve", "reject"}
  BY CallAt DEF CommitEvent, CallSound
<1>2. pc[p] = "commit" => req[p].key \in Keys
  BY <1>1, RequestTyped DEF TypeOK
<1>3. /\ \A j \in Keys \ {k} : event'[j] = event[j]
      /\ e = IF call[p].kind = "issue" THEN EventIssued(p) ELSE EventDecided(p)
  BY <1>k, <1>1 DEF CommitEvent, ETypeOK
<1>4. Null \notin Keys
  BY NullAssumption
<1>5. e \in EventType /\ EventAsked(k)'
        /\ (pc[p] = "commit" => e.tx = req[p].key /\ e.status = "posted")
        /\ (pc[p] # "commit" => e.status \in {"pending", "rejected"})
        /\ e.wallet = EventOf(call[p]).wallet /\ e.rule = EventOf(call[p]).rule
        /\ e.day = (IF call[p].kind = "issue" THEN startDay[p] ELSE event[k].day)
  <2>1. CASE call[p].kind = "issue"
    <3>1. /\ e = EventIssued(p) /\ startDay[p] \in Days
          /\ EventOf(call[p]).wallet = call[p].wallet
          /\ EventOf(call[p]).rule = call[p].rule
      BY <1>1, <1>3, <2>1 DEF ETypeOK, EventOf
    <3>2. /\ e.wallet = call[p].wallet /\ e.rule = call[p].rule
          /\ e.day = startDay[p]
          /\ e.tx = IF pc[p] = "commit" THEN req[p].key ELSE Null
          /\ e.status = IF pc[p] = "commit" THEN "posted" ELSE "pending"
      BY <3>1 DEF EventIssued
    <3>3. e \in EventType
      BY <1>1, <1>2, <3>1 DEF EventType, EventIssued
    <3>4. EventAsked(k)'
      BY <1>k, <1>1, <1>2, <1>4, <2>1, <3>2 DEF EventAsked
    <3> QED BY <2>1, <3>1, <3>2, <3>3, <3>4
  <2>2. CASE call[p].kind # "issue"
    <3>1. event[k] # Null /\ event[k].status = "pending"
      BY <1>k, <1>1, <2>2 DEF EventFree, Posting
    <3>2. event[k] \in EventType /\ EventAsked(k)
      BY <1>1, <3>1, EventTyped DEF EarnInvariant, EventsSound
    <3>3. /\ e = EventDecided(p)
          /\ call[p].kind = "approve" => pc[p] = "commit"
          /\ call[p].kind = "reject" => pc[p] # "commit"
          /\ EventOf(call[p]).wallet = event[k].wallet
          /\ EventOf(call[p]).rule = event[k].rule
      BY <1>k, <1>1, <1>3, <2>2 DEF EventOf, CallSound
    <3>4. /\ e \in EventType /\ e.wallet = event[k].wallet /\ e.rule = event[k].rule
          /\ e.day = event[k].day
          /\ pc[p] = "commit" => e.tx = req[p].key /\ e.status = "posted"
          /\ pc[p] # "commit" => e.tx = event[k].tx /\ e.status = "rejected"
      BY <1>k, <1>1, <1>2, <2>2, <3>2, <3>3 DEF EventType, EventDecided
    <3>5. EventAsked(k)'
      BY <1>2, <1>4, <3>1, <3>2, <3>4 DEF EventAsked
    <3> QED BY <2>2, <3>3, <3>4, <3>5
  <2> QED BY <2>1, <2>2
<1>6. e # Null
  BY <1>5, EarningAssumption
<1>7. event' \in [Keys -> EventType \cup {Null}]
  <2>1. /\ DOMAIN event' = Keys /\ event' = [j \in Keys |-> event'[j]]
    BY <1>1 DEF CommitEvent, ETypeOK
  <2> HIDE DEF e
  <2>2. \A j \in Keys : event'[j] \in EventType \cup {Null}
    BY <1>1, <1>3, <1>5 DEF ETypeOK, e
  <2> QED BY <2>1, <2>2
<1>8. \A j \in Keys :
          /\ event[j] # Null => /\ event'[j] # Null
                                /\ event'[j].wallet = event[j].wallet
                                /\ event'[j].rule = event[j].rule
          /\ event'[j] # Null => EventAsked(j)'
  <2> SUFFICES ASSUME NEW j \in Keys
               PROVE  /\ event[j] # Null => /\ event'[j] # Null
                                            /\ event'[j].wallet = event[j].wallet
                                            /\ event'[j].rule = event[j].rule
                      /\ event'[j] # Null => EventAsked(j)'
    OBVIOUS
  <2>1. CASE j = k
    <3>1. event[k] # Null => /\ call[p].kind # "issue"
                             /\ EventOf(call[p]).wallet = event[k].wallet
                             /\ EventOf(call[p]).rule = event[k].rule
      BY <1>k, <1>1 DEF EventFree, Posting, EventOf
    <3> QED BY <1>5, <1>6, <2>1, <3>1
  <2>2. CASE j # k
    <3>1. event'[j] = event[j]
      BY <1>3, <2>2
    <3> QED BY <3>1 DEF EarnInvariant, EventsSound, EventAsked
  <2> QED BY <2>1, <2>2
<1>9. \A j \in Keys, q \in Workers \ {p} :
          /\ eventLock[j] = q /\ event[j] # Null /\ event[j].status = "pending"
               => event'[j].status = "pending"
          /\ HoldsEventKey(q, j) => event'[j] = Null
          /\ event[j] = Null /\ event'[j] # Null
               => accountLock[event'[j].wallet] # q
  <2> SUFFICES ASSUME NEW j \in Keys, NEW q \in Workers \ {p}
               PROVE  /\ eventLock[j] = q /\ event[j] # Null
                            /\ event[j].status = "pending"
                           => event'[j].status = "pending"
                      /\ HoldsEventKey(q, j) => event'[j] = Null
                      /\ event[j] = Null /\ event'[j] # Null
                           => accountLock[event'[j].wallet] # q
    OBVIOUS
  <2>1. HoldsEventKey(q, j) => event[j] = Null
    BY DEF HoldsEventKey, EarnInvariant, EventFree, Posting
  <2>2. CASE j # k
    BY <1>3, <2>1, <2>2
  <2>3. CASE j = k /\ call[p].kind = "issue"
    <3>1. event[j] = Null /\ HoldsEventKey(p, j) /\ accountLock[call[p].wallet] = p
      BY <1>k, <1>1, <2>3 DEF EventFree, HoldsEventKey, HoldsWallet, Posting
    <3>2. ~HoldsEventKey(q, j)
      BY <3>1 DEF EarnInvariant, EventsSound
    <3>3. event'[j].wallet = call[p].wallet
      BY <1>5, <2>3 DEF EventOf
    <3> QED BY <3>1, <3>2, <3>3
  <2>4. CASE j = k /\ call[p].kind # "issue"
    <3>1. event[j] # Null /\ eventLock[j] = p
      BY <1>k, <1>1, <2>4 DEF EventFree, Posting
    <3> QED BY <2>1, <3>1
  <2> QED BY <2>2, <2>3, <2>4
<1>10. EventsMove(p)
  BY <1>7, <1>8, <1>9 DEF EventsMove
<1> HIDE DEF e
<1> QED BY <1>k, <1>3, <1>5, <1>10 DEF e

LEMMA CommitEventStep ==
    ASSUME EarnInvariant, NEW p \in Workers, CommitEvent(p)
    PROVE  EarnInvariant'
<1>1. /\ ETypeOK /\ TypeOK /\ EventsMove(p) /\ Answer(p, "event") /\ today' = today
      /\ Commit(p) \/ Rollback(p, "none")
  BY EventWritten DEF CommitEvent, EarnInvariant, BalanceInvariant
<1>2. BalanceInvariant' /\ ReversalInvariant'
  BY <1>1, LedgerOthers, LedgerRolledBack DEF Outcomes
<1>3. \E a : EndTransaction(p, a)
  BY <1>1 DEF Commit, Rollback
<1>4. /\ epc'[p] = "none" /\ call'[p] = Null
      /\ pc'[p] = "idle" /\ req'[p] = Null
  BY <1>1, <1>3 DEF Answer, Continue, ETypeOK, EndTransaction, TypeOK
<1>5. OthersGoOn(p)
  BY <1>1, <1>3 DEF OthersGoOn, Answer, Continue, ETypeOK, EndTransaction, TypeOK
<1>6. (CallSound(p) /\ HoldsWallet(p) /\ EventFree(p))'
  BY <1>4 DEF CallSound, HoldsWallet, EventFree, Issuing, Checking, Posting
<1>7. /\ epc' \in [Workers -> EventStatements]
      /\ call' \in [Workers -> CallType \cup {Null}]
      /\ eventLock' \in [Keys -> Workers \cup {Null}]
      /\ reply' \in [Workers -> Replies]
      /\ today' \in Days
  BY <1>1 DEF Answer, Continue, ETypeOK, EventStatements, Replies
<1>8. startDay' \in [Workers -> Days] /\ sawActive' \in [Workers -> BOOLEAN]
  BY <1>1, EarningAssumption DEF Answer, ETypeOK, Days
<1>9. \A k \in Keys : ~HoldsEventKey(p, k)'
  BY <1>4 DEF HoldsEventKey
<1> QED BY <1>1, <1>2, <1>4, <1>5, <1>6, <1>7, <1>8, <1>9, EarnStep

(* A worker that serves no call of this service.                           *)
LEMMA Elsewhere ==
    ASSUME EarnInvariant, BalanceInvariant', ReversalInvariant',
           NEW p \in Workers, epc[p] = "none", EventsMove(p),
           UNCHANGED <<eventLock, today, epc, call, startDay, sawActive>>,
           reply' \in [Workers -> Replies],
           req'[p] # Null => req'[p].op # "earn",
           \A q \in Workers \ {p} :
              /\ pc'[q] = pc[q] /\ req'[q] = req[q]
              /\ \A w \in Wallets : accountLock[w] = q => accountLock'[w] = q
    PROVE  EarnInvariant'
<1>1. ETypeOK /\ call[p] = Null
  BY DEF EarnInvariant, ETypeOK
<1>2. epc'[p] = "none" /\ call'[p] = Null
  BY <1>1
<1>3. OthersGoOn(p)
  BY DEF OthersGoOn
<1>4. (CallSound(p) /\ HoldsWallet(p) /\ EventFree(p))'
  BY <1>2 DEF CallSound, HoldsWallet, EventFree, Issuing, Checking, Posting
<1>5. \A k \in Keys : ~HoldsEventKey(p, k)'
  BY <1>2 DEF HoldsEventKey
<1>6. /\ epc' \in [Workers -> EventStatements]
      /\ call' \in [Workers -> CallType \cup {Null}]
      /\ eventLock' \in [Keys -> Workers \cup {Null}]
      /\ startDay' \in [Workers -> Days] /\ sawActive' \in [Workers -> BOOLEAN]
      /\ today' \in Days
  BY <1>1 DEF ETypeOK
<1> QED BY <1>2, <1>3, <1>4, <1>5, <1>6, EarnStep

LEMMA StartLedgerCallStep ==
    ASSUME EarnInvariant, NEW p \in Workers, StartLedgerCall(p)
    PROVE  EarnInvariant'
<1>1. /\ Begin(p) /\ epc[p] = "none" /\ req'[p].op # "earn"
      /\ reply' = [reply EXCEPT ![p] = "none"]
      /\ UNCHANGED <<event, eventLock, today, epc, call, startDay, sawActive>>
  BY DEF StartLedgerCall
<1>2. ETypeOK /\ TypeOK /\ EventsMove(p)
  BY <1>1, EventsStay DEF EarnInvariant, BalanceInvariant
<1>3. BalanceInvariant' /\ ReversalInvariant'
  BY <1>1, LedgerGoesOn DEF Next
<1>4. \A q \in Workers \ {p} :
        /\ pc'[q] = pc[q] /\ req'[q] = req[q]
        /\ \A w \in Wallets : accountLock[w] = q => accountLock'[w] = q
  BY <1>1, <1>2 DEF Begin, Goto, TypeOK, locks
<1>5. reply' \in [Workers -> Replies]
  BY <1>1, <1>2 DEF ETypeOK, Replies
<1> QED BY <1>1, <1>2, <1>3, <1>4, <1>5, Elsewhere

LEMMA PlainLedgerStep ==
    ASSUME EarnInvariant, NEW p \in Workers, PlainLedger(p)
    PROVE  EarnInvariant'
<1>1. epc[p] = "none" /\ UNCHANGED evars
  BY DEF PlainLedger
<1>2. ETypeOK /\ EventsMove(p)
  BY <1>1, EventsStay DEF EarnInvariant, evars
<1>3. /\ BalanceInvariant' /\ ReversalInvariant'
      /\ req'[p] = req[p] \/ req'[p] = Null
      /\ \A q \in Workers \ {p} :
           /\ pc'[q] = pc[q] /\ req'[q] = req[q]
           /\ \A w \in Wallets : accountLock[w] = q => accountLock'[w] = q
  BY LedgerOthers DEF PlainLedger
<1>4. req'[p] # Null => req'[p].op # "earn"
  BY <1>1, <1>2, <1>3 DEF ETypeOK
<1>5. reply' \in [Workers -> Replies]
  BY <1>1, <1>2 DEF ETypeOK, Replies, evars
<1> QED BY <1>1, <1>2, <1>3, <1>4, <1>5, Elsewhere DEF evars

(* A reversal marks the event whose transaction it reverses.               *)
LEMMA EventsMarked ==
    ASSUME EarnInvariant, NEW p \in Workers, CommitLedger(p)
    PROVE  /\ EventsMove(p)
           /\ \A k \in Keys : event[k] # Null =>
                /\ event'[k] \in EventType
                /\ event'[k].tx = event[k].tx /\ event'[k].day = event[k].day
                /\ event'[k].status =
                     IF MarksOriginal(p) /\ event[k].tx = req[p].original
                     THEN "reversed" ELSE event[k].status
           /\ \A k \in Keys : event[k] = Null => event'[k] = Null
<1>1. /\ ETypeOK /\ TypeOK
      /\ event' = [k \in Keys |->
          IF event[k] # Null /\ MarksOriginal(p) /\ event[k].tx = req[p].original
          THEN [event[k] EXCEPT !.status = "reversed"] ELSE event[k]]
  BY DEF CommitLedger, EarnInvariant, BalanceInvariant
<1>2. req[p].original \in Keys
  <2>1. req[p] # Null
    BY <1>1 DEF CommitLedger, Commit, TypeOK
  <2> QED BY <1>1, <2>1, RequestTyped
<1>3. Null \notin Keys /\ Null \notin EventType
  BY NullAssumption, EarningAssumption
<1>4. ASSUME NEW k \in Keys, event[k] # Null
      PROVE  /\ event'[k] \in EventType /\ event'[k] # Null
             /\ event'[k].wallet = event[k].wallet /\ event'[k].rule = event[k].rule
             /\ event'[k].tx = event[k].tx /\ event'[k].day = event[k].day
             /\ event'[k].status =
                  IF MarksOriginal(p) /\ event[k].tx = req[p].original
                  THEN "reversed" ELSE event[k].status
             /\ event[k].status = "pending" => event'[k].status = "pending"
             /\ EventAsked(k)'
  <2>1. event[k] \in EventType /\ EventAsked(k)
    BY <1>4, EventTyped DEF EarnInvariant, EventsSound
  <2>2. CASE MarksOriginal(p) /\ event[k].tx = req[p].original
    <3>1. event'[k] = [event[k] EXCEPT !.status = "reversed"]
      BY <1>1, <1>4, <2>2
    <3>2. /\ event'[k] \in EventType /\ event'[k].wallet = event[k].wallet
          /\ event'[k].rule = event[k].rule /\ event'[k].tx = event[k].tx
          /\ event'[k].day = event[k].day /\ event'[k].status = "reversed"
      BY <2>1, <3>1 DEF EventType
    <3>3. event[k].status # "pending" /\ event[k].tx # Null
      BY <1>2, <1>3, <2>1, <2>2 DEF EventAsked
    <3>4. EventAsked(k)'
      BY <2>1, <3>2, <3>3 DEF EventAsked
    <3> QED BY <1>3, <2>2, <3>2, <3>3, <3>4
  <2>3. CASE ~(MarksOriginal(p) /\ event[k].tx = req[p].original)
    <3>1. event'[k] = event[k]
      BY <1>1, <2>3
    <3>2. EventAsked(k)'
      BY <2>1, <3>1 DEF EventAsked
    <3> QED BY <1>4, <2>1, <2>3, <3>1, <3>2
  <2> QED BY <2>2, <2>3
<1>5. ASSUME NEW k \in Keys, event[k] = Null
      PROVE  event'[k] = Null
  BY <1>1, <1>5
<1>6. event' \in [Keys -> EventType \cup {Null}]
  <2>1. \A k \in Keys : event'[k] \in EventType \cup {Null}
    BY <1>4, <1>5
  <2>2. event' = [k \in Keys |-> event'[k]]
    BY <1>1
  <2> QED BY <2>1, <2>2
<1>7. \A k \in Keys, q \in Workers : HoldsEventKey(q, k) => event[k] = Null
  BY DEF HoldsEventKey, EarnInvariant, EventFree, Posting
<1>8. EventsMove(p)
  BY <1>4, <1>5, <1>6, <1>7 DEF EventsMove
<1> QED BY <1>4, <1>5, <1>8

LEMMA CommitLedgerStep ==
    ASSUME EarnInvariant, NEW p \in Workers, CommitLedger(p)
    PROVE  EarnInvariant'
<1>1. /\ epc[p] = "none" /\ Commit(p)
      /\ UNCHANGED <<eventLock, today, epc, call, startDay, sawActive, reply>>
  BY DEF CommitLedger
<1>2. ETypeOK /\ EventsMove(p)
  BY EventsMarked DEF EarnInvariant
<1>3. /\ BalanceInvariant' /\ ReversalInvariant'
      /\ req'[p] = req[p] \/ req'[p] = Null
      /\ \A q \in Workers \ {p} :
           /\ pc'[q] = pc[q] /\ req'[q] = req[q]
           /\ \A w \in Wallets : accountLock[w] = q => accountLock'[w] = q
  BY <1>1, LedgerOthers
<1>4. req'[p] # Null => req'[p].op # "earn"
  BY <1>1, <1>2, <1>3 DEF ETypeOK
<1>5. reply' \in [Workers -> Replies]
  BY <1>1, <1>2 DEF ETypeOK, Replies
<1> QED BY <1>1, <1>2, <1>3, <1>4, <1>5, Elsewhere

(* A day passes, a wallet is frozen, or nothing happens: no session moves. *)
LEMMA NobodyMoves ==
    ASSUME EarnInvariant, BalanceInvariant', ReversalInvariant',
           UNCHANGED <<event, eventLock, epc, call, startDay, sawActive, reply>>,
           UNCHANGED <<pc, req, accountLock>>, today' \in Days
    PROVE  EarnInvariant'
<1>1. ETypeOK'
  BY DEF EarnInvariant, ETypeOK
<1>2. \A p \in Workers : (CallSound(p) /\ HoldsWallet(p) /\ EventFree(p))'
  BY DEF EarnInvariant, CallSound, HoldsWallet, EventFree, EarnCall, EventOf
<1>3. EventsSound'
  BY DEF EarnInvariant, EventsSound, EventAsked, HoldsEventKey
<1> QED BY <1>1, <1>2, <1>3 DEF EarnInvariant

LEMMA EarnInit == EInit => EarnInvariant
<1> SUFFICES ASSUME EInit PROVE EarnInvariant
  OBVIOUS
<1>1. BalanceInvariant /\ ReversalInvariant
  BY InvariantInit, ReversalInit DEF EInit
<1>2. ETypeOK
  BY EarningAssumption DEF EInit, Init, ETypeOK, EventStatements, Days
<1>3. \A p \in Workers : CallSound(p) /\ HoldsWallet(p) /\ EventFree(p)
  BY DEF EInit, CallSound, HoldsWallet, EventFree, Issuing, Checking, Posting
<1>4. EventsSound
  BY DEF EInit, EventsSound, HoldsEventKey
<1> QED BY <1>1, <1>2, <1>3, <1>4 DEF EarnInvariant

LEMMA EarnNext ==
    ASSUME EarnInvariant, [ENext]_<<vars, evars>>
    PROVE  EarnInvariant'
<1>1. ASSUME NEW p \in Workers, StartCall(p) \/ StartLedgerCall(p) \/ Dies(p)
      PROVE  EarnInvariant'
  BY <1>1, StartCallStep, StartLedgerCallStep, CallEnds DEF Dies, Outcomes, Replies
<1>2. ASSUME NEW p \in Workers, CallStep(p)
      PROVE  EarnInvariant'
  BY <1>2, FindEventStep, LockWalletStep, FindAgainStep, CheckStep,
     InsertEventStep, SessionEnds, LockEventStep, CallEarnStep, PostStep,
     CommitEventStep, PlainLedgerStep, CommitLedgerStep
  DEF CallStep, Raced, Replies
<1>3. ASSUME NextDay
      PROVE  EarnInvariant'
  <2>1. /\ UNCHANGED vars
        /\ UNCHANGED <<event, eventLock, epc, call, startDay, sawActive, reply>>
        /\ today' \in Days
    BY <1>3, EarningAssumption DEF NextDay, Days, EarnInvariant, ETypeOK
  <2> QED BY <2>1, LedgerGoesOn, NobodyMoves DEF vars, local, locks
<1>4. ASSUME NEW w \in Wallets, FreezeWallet(w)
      PROVE  EarnInvariant'
  <2>1. SetWalletStatus(w) /\ UNCHANGED evars
    BY <1>4 DEF FreezeWallet
  <2>2. BalanceInvariant' /\ ReversalInvariant'
    BY <2>1, LedgerGoesOn DEF Next
  <2>3. today' \in Days /\ UNCHANGED <<pc, req, accountLock>>
    BY <2>1 DEF evars, EarnInvariant, ETypeOK, SetWalletStatus, local, locks
  <2> QED BY <2>1, <2>2, <2>3, NobodyMoves DEF evars
<1>5. ASSUME UNCHANGED <<vars, evars>>
      PROVE  EarnInvariant'
  <2>1. BalanceInvariant' /\ ReversalInvariant'
    BY <1>5, LedgerGoesOn
  <2> QED BY <1>5, <2>1, NobodyMoves DEF vars, evars, local, locks, EarnInvariant,
          ETypeOK
<1> QED BY <1>1, <1>2, <1>3, <1>4, <1>5 DEF ENext

(* The invariant of every history of issues, decisions, reversals, crashes *)
(* and midnights: an issue keeps its student's account from its second     *)
(* look on (earning_service.py, lines 41-52), a decision keeps its event.  *)
THEOREM EarnInvariance == ESpec => []EarnInvariant
<1> QED BY EarnInit, EarnNext, PTL DEF ESpec

(* An issue locks the account before the ledger is entered, and an earn    *)
(* does not wait for it again: still no wallet is overdrawn                *)
(* (earning_service.py, lines 58-61).                                      *)
THEOREM EarnSolvent == ESpec => []NonNegative
<1>1. EarnInvariant => NonNegative
  BY DEF EarnInvariant, BalanceInvariant
<1> QED BY <1>1, EarnInvariance, PTL

(* Steps of a session leave the statements and rows of the others alone,   *)
(* and two commits alone write events or rows of the ledger.               *)
LEMMA SessionMoves ==
    ASSUME EarnInvariant, NEW p \in Workers,
           StartCall(p) \/ StartLedgerCall(p) \/ CallStep(p) \/ Dies(p)
    PROVE  /\ \A q \in Workers \ {p} :
                /\ epc'[q] = epc[q] /\ pc'[q] = pc[q] /\ row'[q] = row[q]
                /\ call'[q] = call[q] /\ startDay'[q] = startDay[q]
           /\ ~CommitEvent(p) /\ ~CommitLedger(p) => event' = event /\ ledger' = ledger
           /\ today' = today
<1> DEFINE Others == \A q \in Workers \ {p} :
             /\ epc'[q] = epc[q] /\ pc'[q] = pc[q] /\ row'[q] = row[q]
             /\ call'[q] = call[q] /\ startDay'[q] = startDay[q]
           Silent == event' = event /\ ledger' = ledger
<1>1. ETypeOK /\ TypeOK
  BY DEF EarnInvariant, BalanceInvariant
<1>2. ASSUME NEW a, NEW o, EndTransaction(p, o), Answer(p, a)
      PROVE  Others
  BY <1>1, <1>2 DEF EndTransaction, Answer, Continue, ETypeOK, TypeOK
<1>3. ASSUME NEW a, NEW o, Rollback(p, o), Answer(p, a), UNCHANGED <<event, today>>
      PROVE  Others /\ Silent /\ today' = today
  BY <1>2, <1>3 DEF Rollback, store
<1>4. CASE StartCall(p)
  BY <1>1, <1>4 DEF StartCall, Continue, ETypeOK, vars, local, store
<1>5. CASE StartLedgerCall(p)
  BY <1>1, <1>5 DEF StartLedgerCall, Begin, Goto, TypeOK, store
<1>6. CASE Dies(p)
  BY <1>3, <1>6 DEF Dies
<1>7. CASE \E a : EndSession(p, a)
  BY <1>3, <1>7 DEF EndSession
<1>8. CASE /\ ~\E a : EndSession(p, a)
           /\ FindEvent(p) \/ LockWallet(p) \/ FindAgain(p) \/ CheckDaily(p)
              \/ CheckWeekly(p) \/ LockEvent(p) \/ Raced(p)
  <2>1. /\ \E s : epc' = [epc EXCEPT ![p] = s]
        /\ UNCHANGED <<pc, row, ledger, event, today, call, startDay>>
    BY <1>8 DEF FindEvent, LockWallet, FindAgain, CheckDaily, CheckWeekly,
       CheckLimit, LockEvent, Raced, Continue, vars, local, store
  <2> QED BY <1>1, <2>1 DEF ETypeOK
<1>9. CASE InsertEvent(p)
  <2>1. /\ \E s : epc' = [epc EXCEPT ![p] = s]
        /\ UNCHANGED <<ledger, event, today, call, startDay>>
        /\ UNCHANGED <<pc, row>> \/ EndTransaction(p, "none")
    BY <1>9 DEF InsertEvent, Continue, Rollback, vars, local, store
  <2> QED BY <1>1, <2>1 DEF ETypeOK, TypeOK, EndTransaction
<1>10. CASE CallEarn(p) /\ ~\E a : EndSession(p, a)
  <2>1. /\ pc' = [pc EXCEPT ![p] = "existingKey"]
        /\ UNCHANGED <<epc, row, ledger, event, today, call, startDay>>
    BY <1>10 DEF CallEarn, Goto, evars, store
  <2> QED BY <1>1, <2>1 DEF TypeOK
<1>11. ASSUME \/ RequireActive(p) \/ LockAccount(p) \/ SumCredits(p) \/ SumDebits(p)
              \/ ReversalKey(p) \/ LockOriginal(p) \/ ExistingKey(p) \/ InsertRow(p)
              \/ InsertEntries(p)
       PROVE  /\ ledger' = ledger
              /\ \A q \in Workers \ {p} : pc'[q] = pc[q] /\ row'[q] = row[q]
  <2>1. CASE \E a : Rollback(p, a)
    BY <1>1, <2>1 DEF Rollback, EndTransaction, TypeOK, store
  <2>2. CASE ~\E a : Rollback(p, a)
    <3>1. /\ \E s : pc' = [pc EXCEPT ![p] = s]
          /\ row' = row \/ \E t : row' = [row EXCEPT ![p] = t]
          /\ ledger' = ledger
      BY <1>11, <2>2 DEF RequireActive, LockAccount, SumCredits, SumDebits,
         ReversalKey, LockOriginal, ExistingKey, InsertRow, InsertEntries, Goto, store
    <3> QED BY <1>1, <3>1 DEF TypeOK
  <2> QED BY <2>1, <2>2
<1>12. CASE Post(p)
  <2>1. \/ Answer(p, "refused") /\ UNCHANGED <<event, today>>
        \/ /\ \E s : epc' = [epc EXCEPT ![p] = s]
           /\ UNCHANGED <<event, today, call, startDay>>
    BY <1>12 DEF Post, Continue
  <2>2. /\ ledger' = ledger
        /\ \A q \in Workers \ {p} : pc'[q] = pc[q] /\ row'[q] = row[q]
    BY <1>11, <1>12 DEF Post
  <2> QED BY <1>1, <2>1, <2>2 DEF ETypeOK, Answer, Continue
<1>13. CASE PlainLedger(p)
  <2>1. UNCHANGED evars
    BY <1>13 DEF PlainLedger
  <2> QED BY <1>11, <1>13, <2>1 DEF PlainLedger, evars
<1>14. CASE CommitEvent(p)
  BY <1>2, <1>14 DEF CommitEvent, Commit, Rollback
<1>15. CASE CommitLedger(p)
  BY <1>1, <1>15 DEF CommitLedger, Commit, EndTransaction, TypeOK
<1> QED BY <1>4, <1>5, <1>6, <1>7, <1>8, <1>9, <1>10, <1>12, <1>13, <1>14, <1>15
        DEF CallStep

-----------------------------------------------------------------------------
(* Decisions stand, and retries are answered.                              *)

(* Only the commits of a decision and of a reversal change an event: the   *)
(* decision has held it, pending, since it read it under FOR UPDATE        *)
(* (earning_service.py, approve_event and reject_event), the reversal      *)
(* finds it by the transaction it was posted with.                         *)
THEOREM DecisionsStand == ESpec => DecidedOnce
<1> DEFINE Stands ==
      \A k \in Keys : event[k] # Null /\ event'[k] # event[k] =>
        <<event[k].status, event'[k].status>> \in
            {<<"pending", "posted">>, <<"pending", "rejected">>,
             <<"posted", "reversed">>}
<1>1. ASSUME EarnInvariant, [ENext]_<<vars, evars>>
      PROVE  Stands
  <2> SUFFICES ASSUME NEW k \in Keys, event[k] # Null, event'[k] # event[k]
               PROVE  <<event[k].status, event'[k].status>> \in
                        {<<"pending", "posted">>, <<"pending", "rejected">>,
                         <<"posted", "reversed">>}
    OBVIOUS
  <2>1. PICK p \in Workers : CommitEvent(p) \/ CommitLedger(p)
    <3>1. event' # event
      OBVIOUS
    <3> QED BY <1>1, <3>1, SessionMoves DEF ENext, NextDay, FreezeWallet, evars
  <2>2. CASE CommitEvent(p)
    <3>1. k = call[p].key
      BY <1>1, <2>2, EventWritten
    <3>2. event[k].status = "pending"
      BY <1>1, <2>2, <3>1, CallAt DEF CommitEvent, EventFree, Posting
    <3>3. event'[k].status \in {"posted", "rejected"}
      <4>1. call[p].kind # "issue"
        BY <1>1, <2>2, <3>1, CallAt DEF CommitEvent, EventFree, Posting
      <4>2. event'[k] = EventDecided(p)
        BY <1>1, <2>2, <3>1, <4>1, CallAt DEF CommitEvent, ETypeOK
      <4>3. event[k] \in EventType
        BY <1>1, EventTyped
      <4> QED BY <3>1, <4>2, <4>3 DEF EventDecided, EventType
    <3> QED BY <3>2, <3>3
  <2>3. CASE CommitLedger(p)
    <3>1. event'[k].status = "reversed" /\ event[k].tx = req[p].original
      BY <1>1, <2>3, EventsMarked DEF CommitLedger
    <3>2. event[k].tx # Null
      <4>1. TypeOK /\ req[p] # Null
        BY <1>1, <2>3 DEF CommitLedger, Commit, EarnInvariant, BalanceInvariant, TypeOK
      <4> QED BY <3>1, <4>1, RequestTyped, NullAssumption
    <3>3. event[k].status \in {"posted", "reversed"}
      BY <1>1, <3>2, EventTyped DEF EarnInvariant, EventsSound, EventAsked
    <3>4. event[k].status # "reversed"
      <4> SUFFICES ASSUME event[k].status = "reversed" PROVE FALSE
        OBVIOUS
      <4>1. event'[k] = [event[k] EXCEPT !.status = "reversed"]
        BY <2>3 DEF CommitLedger
      <4> QED BY <1>1, <4>1, EventTyped DEF EventType
    <3> QED BY <3>1, <3>3, <3>4
  <2> QED BY <2>1, <2>2, <2>3
<1> QED BY <1>1, EarnInvariance, PTL DEF ESpec, DecidedOnce

(* No statement refuses an issue whose event is known and names its        *)
(* student: it was absent at the second look under the lock of the account,*)
(* and from there on nobody else can issue it for this student.            *)
LEMMA RefusalHasReason ==
    ASSUME EarnInvariant, NEW p \in Workers,
           StartCall(p) \/ StartLedgerCall(p) \/ CallStep(p) \/ Dies(p),
           epc[p] # "none", epc'[p] = "none",
           call[p].kind = "issue", event[call[p].key] # Null,
           event[call[p].key].wallet = call[p].wallet
    PROVE  reply'[p] \in {"event", "lost"}
<1>1. /\ ETypeOK /\ CallSound(p) /\ epc[p] \notin Checking \cup Posting
      /\ epc[p] # "lockEvent"
  BY CallAt DEF EventFree, CallSound
<1>2. ASSUME NEW a, Answer(p, a)
      PROVE  reply'[p] = a
  BY <1>1, <1>2 DEF Answer, ETypeOK
<1>3. \/ Answer(p, "event") \/ Answer(p, "lost")
      \/ \E s \in EventStatements \ {"none"} : epc' = [epc EXCEPT ![p] = s]
  BY <1>1 DEF StartCall, StartLedgerCall, CallStep, Dies, FindEvent, LockWallet,
     FindAgain, CheckDaily, CheckWeekly, InsertEvent, Raced, LockEvent, CallEarn,
     Post, CommitEvent, PlainLedger, CommitLedger, Continue, EndSession, Checking,
     Posting, EventStatements
<1>4. ~\E s \in EventStatements \ {"none"} : epc' = [epc EXCEPT ![p] = s]
  BY <1>1 DEF ETypeOK
<1> QED BY <1>2, <1>3, <1>4

(* A retry beside its first attempt is answered with the event: the limit  *)
(* is only read behind the second look (earning_service.py, lines 41-52).  *)
THEOREM RetriesAnswered == ESpec => RetryReturnsEvent
<1> DEFINE Answered ==
      \A p \in Workers :
            /\ epc[p] # "none" /\ epc'[p] = "none"
            /\ call[p].kind = "issue"
            /\ event[call[p].key] # Null
            /\ event[call[p].key].wallet = call[p].wallet
            => reply'[p] \in {"event", "lost"}
<1>1. ASSUME EarnInvariant, [ENext]_<<vars, evars>>
      PROVE  Answered
  <2> SUFFICES ASSUME NEW p \in Workers, epc[p] # "none", epc'[p] = "none",
                      call[p].kind = "issue", event[call[p].key] # Null,
                      event[call[p].key].wallet = call[p].wallet
               PROVE  reply'[p] \in {"event", "lost"}
    OBVIOUS
  <2>1. StartCall(p) \/ StartLedgerCall(p) \/ CallStep(p) \/ Dies(p)
    BY <1>1, SessionMoves DEF ENext, NextDay, FreezeWallet, evars
  <2> QED BY <1>1, <2>1, RefusalHasReason
<1> QED BY <1>1, EarnInvariance, PTL DEF ESpec, RetryReturnsEvent

-----------------------------------------------------------------------------
(* The ledger holds one earn of every posted event.                        *)

IssueKeys == {c.key : c \in {d \in Calls : d.kind = "issue"}}

(* A key earning-approval-{id} carries the id of one event and is no scoped*)
(* key issue:{staff}:{key}.                                                *)
KeysApart ==
    \A j, k \in IssueKeys :
        /\ ApprovalKey[j] = k => j = k
        /\ ApprovalKey[j] = ApprovalKey[k] => j = k

(* So the earn of an event is never found under its key: it is posted anew.*)
EarnsNew == \A p \in Workers : epc[p] = "commit" /\ pc[p] = "commit" => row[p] # Null

LEMMA EventIssueKey ==
    ASSUME EarnInvariant, NEW k \in Keys, event[k] # Null
    PROVE  k \in IssueKeys
BY DEF EarnInvariant, EventsSound, EventAsked, IssueKeys

(* An earn under one of the two keys of an event is that event's.          *)
LEMMA EarnHasEvent ==
    ASSUME KeysApart, EarnInvariant, PostedOnce, NEW k \in IssueKeys, k \in Keys,
           NEW j \in EarnsOf(k)
    PROVE  event[k] # Null /\ event[k].tx = j
<1>1. j \in {k, ApprovalKey[k]} /\ j \in Keys
  BY EarningAssumption DEF EarnsOf
<1>2. PICK i \in Keys : event[i] # Null /\ event[i].tx = j
  BY <1>1 DEF PostedOnce, EarnsOf
<1>3. j \in EarnsOf(i) /\ i \in IssueKeys
  BY <1>1, <1>2, EventIssueKey, NullAssumption DEF PostedOnce
<1>4. j \in {i, ApprovalKey[i]}
  BY <1>3 DEF EarnsOf
<1>5. i = k
  BY <1>1, <1>3, <1>4 DEF KeysApart
<1> QED BY <1>2, <1>5

(* The key under which a call posts is one of its event's, and no earn is  *)
(* there.                                                                  *)
LEMMA NoEarnYet ==
    ASSUME KeysApart, EarnInvariant, PostedOnce,
           NEW p \in Workers, epc[p] \in Posting
    PROVE  /\ call[p].key \in IssueKeys /\ call[p].key \in Keys
           /\ EarnCall(call[p]).key \in {call[p].key, ApprovalKey[call[p].key]}
           /\ EarnsOf(call[p].key) = {}
           /\ event[call[p].key] # Null => event[call[p].key].tx = Null
<1>1. /\ call[p] \in Calls /\ call[p].key \in Keys /\ EventFree(p)
  BY CallAt DEF Posting, CallSound
<1>2. EarnCall(call[p]).key \in {call[p].key, ApprovalKey[call[p].key]}
  BY EarnRequested
<1>3. call[p].key \in IssueKeys
  <2>1. CASE call[p].kind = "issue"
    BY <1>1, <2>1 DEF IssueKeys
  <2>2. CASE call[p].kind # "issue"
    BY <1>1, <2>2, EventIssueKey DEF EventFree
  <2> QED BY <2>1, <2>2
<1>4. event[call[p].key] # Null => event[call[p].key].tx = Null
  BY <1>1 DEF EventFree, EarnInvariant, EventsSound, EventAsked
<1>5. EarnsOf(call[p].key) = {}
  <2> SUFFICES ASSUME NEW j \in EarnsOf(call[p].key) PROVE FALSE
    OBVIOUS
  <2>1. event[call[p].key] # Null /\ event[call[p].key].tx = j
    BY <1>1, <1>3, EarnHasEvent
  <2>2. j \in Keys
    BY <1>1, EarningAssumption DEF EarnsOf
  <2> QED BY <1>4, <2>1, <2>2, NullAssumption
<1> QED BY <1>1, <1>2, <1>3, <1>4, <1>5

(* Nothing but a commit of an event brings a session there with a row.     *)
LEMMA RowBehindCommit ==
    ASSUME KeysApart, EarnInvariant, PostedOnce, EarnsNew, NEW p \in Workers,
           StartCall(p) \/ StartLedgerCall(p) \/ CallStep(p) \/ Dies(p)
    PROVE  EarnsNew'
<1>1. ETypeOK /\ TypeOK /\ ReversalInvariant /\ BalanceInvariant
  BY DEF EarnInvariant, BalanceInvariant
<1> SUFFICES ASSUME epc'[p] = "commit", pc'[p] = "commit" PROVE row'[p] # Null
  BY SessionMoves DEF EarnsNew
<1>2. ASSUME NEW a, Answer(p, a)
      PROVE  FALSE
  BY <1>1, <1>2 DEF Answer, Continue, ETypeOK
<1>3. ASSUME NEW o, EndTransaction(p, o)
      PROVE  FALSE
  BY <1>1, <1>3 DEF EndTransaction, TypeOK
<1>4. ASSUME epc[p] = "none", epc' = epc
      PROVE  FALSE
  BY <1>4
<1>5. ASSUME epc[p] \notin {"none", "post", "commit"}, pc' = pc
      PROVE  FALSE
  BY <1>1, <1>5 DEF ETypeOK
<1>6. Post(p) /\ ~Answer(p, "refused")
  <2>1. ~StartCall(p) /\ ~FindEvent(p) /\ ~LockWallet(p) /\ ~FindAgain(p)
    BY <1>1, <1>2, <1>5 DEF StartCall, FindEvent, LockWallet, FindAgain, EndSession,
       vars, local, ETypeOK
  <2>2. ~CheckDaily(p) /\ ~CheckWeekly(p) /\ ~Raced(p) /\ ~LockEvent(p)
    BY <1>1, <1>2, <1>5 DEF CheckDaily, CheckWeekly, CheckLimit, Raced, LockEvent,
       EndSession, vars, local
  <2>3. ~InsertEvent(p)
    BY <1>3, <1>5 DEF InsertEvent, Rollback, vars, local
  <2>4. ~CallEarn(p)
    BY <1>1, <1>2 DEF CallEarn, EndSession, evars, ETypeOK
  <2>5. ~CommitEvent(p) /\ ~Dies(p)
    BY <1>2 DEF CommitEvent, Dies
  <2>6. ~PlainLedger(p) /\ ~CommitLedger(p) /\ ~StartLedgerCall(p)
    BY <1>4 DEF PlainLedger, CommitLedger, StartLedgerCall, evars
  <2> QED BY <1>2, <2>1, <2>2, <2>3, <2>4, <2>5, <2>6 DEF CallStep
<1>7. /\ epc[p] = "post" /\ CallSound(p) /\ pc[p] # "idle"
      /\ ~\E o : Rollback(p, o)
  BY <1>3, <1>6, CallAt DEF Post, ExistingKey, InsertRow, InsertEntries, Rollback
<1>8. req[p] = EarnCall(call[p]) /\ req[p].op = "earn"
  BY <1>7, EarnRequested DEF CallSound, Posting
<1>9. CASE ExistingKey(p)
  <2>1. ledger[req[p].key] # Null /\ ledger[req[p].key].type = "earn"
    BY <1>1, <1>7, <1>8, <1>9 DEF ExistingKey, Goto, TypeOK
  <2>2. req[p].key \in EarnsOf(call[p].key)
    BY <1>7, <1>8, <2>1, NoEarnYet DEF EarnsOf, Posting
  <2> QED BY <1>7, <2>2, NoEarnYet DEF Posting
<1>10. CASE InsertRow(p)
  BY <1>1, <1>7, <1>10 DEF InsertRow, Goto, TypeOK
<1>11. CASE InsertEntries(p)
  BY <1>1, <1>11 DEF InsertEntries, BalanceInvariant, RowPending
<1> QED BY <1>6, <1>9, <1>10, <1>11 DEF Post

(* What PostedOnce asks of an event, and of an earn.                       *)
EventPosted(k) ==
    /\ event[k].tx = Null <=> event[k].status \in {"pending", "rejected"}
    /\ EarnsOf(k) = {event[k].tx} \ {Null}
    /\ event[k].tx # Null =>
         /\ ledger[event[k].tx].credit = event[k].wallet
         /\ ledger[event[k].tx].amount = TokenAmount[event[k].rule]
         /\ ledger[event[k].tx].status = event[k].status

EarnRecorded(j) ==
    ledger[j] # Null /\ ledger[j].type = "earn" =>
        \E k \in Keys : event[k] # Null /\ event[k].tx = j

LEMMA PostedParts ==
    /\ PostedOnce <=> /\ \A k \in Keys : event[k] # Null => EventPosted(k)
                      /\ \A j \in Keys : EarnRecorded(j)
    /\ PostedOnce' <=> /\ \A k \in Keys : event'[k] # Null => EventPosted(k)'
                       /\ \A j \in Keys : EarnRecorded(j)'
BY DEF PostedOnce, EventPosted, EarnRecorded

(* The earn of an event commits with the event.                            *)
LEMMA EarnPosted ==
    ASSUME KeysApart, EarnInvariant, PostedOnce, EarnsNew, NEW p \in Workers,
           CommitEvent(p), pc[p] = "commit"
    PROVE  PostedOnce'
<1> DEFINE key == req[p].key
<1>1. PICK k \in Keys : k = call[p].key
  BY CallAt DEF CommitEvent
<1>2. /\ epc[p] = "commit" /\ Commit(p) /\ row[p] # Null
      /\ BalanceInvariant /\ ReversalInvariant /\ CallSound(p)
      /\ req[p] = EarnCall(call[p])
  BY CallAt DEF CommitEvent, EarnsNew, EarnInvariant, CallSound, Posting
<1>3. /\ req[p].op = "earn" /\ key \in Keys
      /\ req[p].wallet = EventOf(call[p]).wallet
      /\ req[p].amount = TokenAmount[EventOf(call[p]).rule]
  BY <1>2, EarnRequested, RowNamesOriginal DEF Posting
<1>4. /\ k \in IssueKeys /\ key \in {k, ApprovalKey[k]} /\ EarnsOf(k) = {}
      /\ event[k] # Null => event[k].tx = Null
  BY <1>1, <1>2, NoEarnYet DEF Posting
<1>5. /\ row[p].type = "earn" /\ row[p].status = "posted"
      /\ row[p].credit = EventOf(call[p]).wallet
      /\ row[p].amount = TokenAmount[EventOf(call[p]).rule]
  BY <1>2, <1>3, RowNamesOriginal DEF CreditAccount, Amount
<1>6. /\ ledger[key] = Null /\ ledger'[key] = row[p]
      /\ \A j \in Keys \ {key} :
           /\ ledger[j] = Null => ledger'[j] = Null
           /\ ledger[j] # Null =>
                /\ ledger'[j] # Null /\ ledger'[j].type = ledger[j].type
                /\ ledger'[j].credit = ledger[j].credit
                /\ ledger'[j].amount = ledger[j].amount
                /\ ledger'[j].status = ledger[j].status
  <2>1. HoldsKey(p, key) /\ ~MarksOriginal(p)
        /\ \A j \in Keys \ {key} : ~HoldsKey(p, j)
    BY <1>2, <1>3 DEF HoldsKey, MarksOriginal
  <2> QED BY <1>2, <1>3, <2>1, RowsKept
<1>7. /\ event'[k] \in EventType /\ event'[k].tx = key
      /\ event'[k].status = "posted"
      /\ event'[k].wallet = EventOf(call[p]).wallet
      /\ event'[k].rule = EventOf(call[p]).rule
      /\ \A j \in Keys \ {k} : event'[j] = event[j]
  BY <1>1, EventWritten
<1> DEFINE Of(i) == {j \in {i, ApprovalKey[i]} :
                       ledger[j] # Null /\ ledger[j].type = "earn"}
<1>8. \A i \in Keys : Of(i) = EarnsOf(i) /\ ApprovalKey[i] \in Keys
  BY EarningAssumption DEF EarnsOf
<1>9. Null \notin Keys /\ Null \notin EventType
  BY NullAssumption, EarningAssumption
<1> HIDE DEF key
<1>10. EventPosted(k)'
  <2>1. \A j \in {k, ApprovalKey[k]} : j # key =>
           ~(ledger'[j] # Null /\ ledger'[j].type = "earn")
    BY <1>4, <1>6, <1>8
  <2>2. ledger'[key] # Null /\ ledger'[key].type = "earn"
    <3>1. Null \notin TxRecord /\ row[p] # Null
      BY <1>2, NullAssumption
    <3> QED BY <1>5, <1>6, <3>1
  <2>3. EarnsOf(k)' = {key}
    BY <1>4, <2>1, <2>2 DEF EarnsOf
  <2> QED BY <1>3, <1>5, <1>6, <1>7, <1>9, <2>3 DEF EventPosted
<1>11. ASSUME NEW i \in Keys \ {k}, event'[i] # Null
       PROVE  EventPosted(i)'
  <2>1. event'[i] = event[i] /\ event[i] # Null /\ EventPosted(i) /\ i \in IssueKeys
    BY <1>7, <1>11, PostedParts, EventIssueKey
  <2>2. key \notin {i, ApprovalKey[i]}
    BY <1>4, <2>1 DEF KeysApart
  <2>3. EarnsOf(i)' = EarnsOf(i)
    <3>1. \A j \in {i, ApprovalKey[i]} :
            (ledger'[j] # Null /\ ledger'[j].type = "earn")
               <=> (ledger[j] # Null /\ ledger[j].type = "earn")
      BY <1>6, <1>8, <2>2
    <3> QED BY <3>1 DEF EarnsOf
  <2>4. event[i].tx # Null => event[i].tx \in Keys \ {key} /\ ledger[event[i].tx] # Null
    <3> SUFFICES ASSUME event[i].tx # Null
                 PROVE  event[i].tx \in Keys \ {key} /\ ledger[event[i].tx] # Null
      OBVIOUS
    <3>1. event[i].tx \in EarnsOf(i)
      BY <2>1 DEF EventPosted
    <3> QED BY <1>8, <2>2, <3>1 DEF EarnsOf
  <2> QED BY <1>6, <2>1, <2>3, <2>4 DEF EventPosted
<1>12. ASSUME NEW j \in Keys
       PROVE  EarnRecorded(j)'
  <2>1. CASE j = key
    BY <1>7, <1>9, <2>1 DEF EarnRecorded
  <2>2. CASE j # key
    <3> SUFFICES ASSUME ledger'[j] # Null, ledger'[j].type = "earn"
                 PROVE  \E i \in Keys : event'[i] # Null /\ event'[i].tx = j
      BY DEF EarnRecorded
    <3>1. ledger[j] # Null /\ ledger[j].type = "earn"
      BY <1>6, <2>2
    <3>2. PICK i \in Keys : event[i] # Null /\ event[i].tx = j
      BY <3>1, PostedParts DEF EarnRecorded
    <3>3. i # k
      BY <1>4, <1>9, <3>2
    <3> QED BY <1>7, <3>2, <3>3
  <2> QED BY <2>1, <2>2
<1> QED BY <1>10, <1>11, <1>12, PostedParts

(* An event that commits without an earn moves nothing.                    *)
LEMMA NothingPosted ==
    ASSUME KeysApart, EarnInvariant, PostedOnce, NEW p \in Workers,
           CommitEvent(p), pc[p] # "commit"
    PROVE  PostedOnce'
<1>1. PICK k \in Keys : k = call[p].key
  BY CallAt DEF CommitEvent
<1>2. /\ epc[p] = "commit" /\ ledger' = ledger
  BY DEF CommitEvent, Rollback, store
<1>3. EarnsOf(k) = {} /\ (event[k] # Null => event[k].tx = Null)
  BY <1>1, <1>2, NoEarnYet DEF Posting
<1>4. /\ event'[k] \in EventType /\ event'[k].status \in {"pending", "rejected"}
      /\ EventsMove(p)
      /\ \A j \in Keys \ {k} : event'[j] = event[j]
  BY <1>1, EventWritten
<1>5. event'[k] # Null /\ event'[k].tx = Null
  BY <1>4, EarningAssumption DEF EventsMove, EventAsked
<1>6. EventPosted(k)'
  BY <1>2, <1>3, <1>4, <1>5 DEF EventPosted, EarnsOf
<1>7. ASSUME NEW i \in Keys \ {k}, event'[i] # Null
      PROVE  EventPosted(i)'
  BY <1>2, <1>4, <1>7, PostedParts DEF EventPosted, EarnsOf
<1>8. ASSUME NEW j \in Keys
      PROVE  EarnRecorded(j)'
  <2> SUFFICES ASSUME ledger[j] # Null, ledger[j].type = "earn"
               PROVE  \E i \in Keys : event'[i] # Null /\ event'[i].tx = j
    BY <1>2 DEF EarnRecorded
  <2>1. PICK i \in Keys : event[i] # Null /\ event[i].tx = j
    BY PostedParts DEF EarnRecorded
  <2>2. i # k
    BY <1>3, <2>1, NullAssumption
  <2> QED BY <1>4, <2>1, <2>2
<1> QED BY <1>6, <1>7, <1>8, PostedParts

(* A reversal marks the earn and its event in one commit; no other request *)
(* posts an earn.                                                          *)
LEMMA EarnReversed ==
    ASSUME EarnInvariant, PostedOnce, NEW p \in Workers, CommitLedger(p)
    PROVE  PostedOnce'
<1>1. /\ epc[p] = "none" /\ Commit(p) /\ ETypeOK /\ TypeOK
      /\ BalanceInvariant /\ ReversalInvariant /\ req[p] # Null
      /\ req[p].op # "earn"
  BY DEF CommitLedger, EarnInvariant, BalanceInvariant, ETypeOK, Commit, TypeOK
<1>2. /\ \A k \in Keys : event[k] # Null =>
           /\ event'[k] \in EventType
           /\ event'[k].tx = event[k].tx
           /\ event'[k].wallet = event[k].wallet /\ event'[k].rule = event[k].rule
           /\ event'[k].status =
                IF MarksOriginal(p) /\ event[k].tx = req[p].original
                THEN "reversed" ELSE event[k].status
      /\ \A k \in Keys : event[k] = Null => event'[k] = Null
      /\ \A k \in Keys : event'[k] # Null => EventAsked(k)'
  BY EventsMarked DEF EventsMove
<1>3. \A j \in Keys :
        /\ (ledger'[j] # Null /\ ledger'[j].type = "earn")
             <=> (ledger[j] # Null /\ ledger[j].type = "earn")
        /\ ledger[j] # Null =>
             /\ ledger'[j].credit = ledger[j].credit
             /\ ledger'[j].amount = ledger[j].amount
             /\ ledger'[j].status =
                  IF MarksOriginal(p) /\ j = req[p].original THEN "reversed"
                  ELSE ledger[j].status
  <2> TAKE j \in Keys
  <2>1. CASE HoldsKey(p, j)
    <3>1. row[p] # Null /\ row[p].type # "earn"
      BY <1>1, <2>1, RowNamesOriginal DEF HoldsKey
    <3> QED BY <1>1, <2>1, <3>1, RowsKept
  <2>2. CASE ~HoldsKey(p, j)
    BY <1>1, <2>2, RowsKept
  <2> QED BY <2>1, <2>2
<1>4. \A k \in Keys : ApprovalKey[k] \in Keys
  BY EarningAssumption
<1>5. \A k \in Keys : EarnsOf(k)' = EarnsOf(k)
  <2> TAKE k \in Keys
  <2>1. \A j \in {k, ApprovalKey[k]} :
          (ledger'[j] # Null /\ ledger'[j].type = "earn")
             <=> (ledger[j] # Null /\ ledger[j].type = "earn")
    BY <1>3, <1>4
  <2> QED BY <2>1 DEF EarnsOf
<1>6. ASSUME NEW k \in Keys, event'[k] # Null
      PROVE  EventPosted(k)'
  <2>1. event[k] # Null /\ EventPosted(k) /\ EventAsked(k)'
    BY <1>2, <1>6, PostedParts
  <2>2. event[k].tx # Null => event[k].tx \in Keys /\ ledger[event[k].tx] # Null
    BY <1>4, <2>1 DEF EventPosted, EarnsOf
  <2>3. event'[k].tx = Null <=> event'[k].status \in {"pending", "rejected"}
    BY <2>1 DEF EventAsked
  <2> QED BY <1>2, <1>3, <1>5, <2>1, <2>2, <2>3 DEF EventPosted
<1>7. ASSUME NEW j \in Keys
      PROVE  EarnRecorded(j)'
  <2> SUFFICES ASSUME ledger'[j] # Null, ledger'[j].type = "earn"
               PROVE  \E k \in Keys : event'[k] # Null /\ event'[k].tx = j
    BY DEF EarnRecorded
  <2>1. PICK k \in Keys : event[k] # Null /\ event[k].tx = j
    BY <1>3, PostedParts DEF EarnRecorded
  <2> QED BY <1>2, <2>1, EarningAssumption
<1> QED BY <1>6, <1>7, PostedParts

(* approve, issue and reverse move the event and the ledger together: the  *)
(* commit of earning_service.py carries both rows, and reverse_transaction *)
(* marks the event behind the transaction it marks.                        *)
THEOREM EventsPostedOnce == ASSUME KeysApart PROVE ESpec => []PostedOnce
<1>1. EInit => PostedOnce /\ EarnsNew
  BY DEF EInit, Init, PostedOnce, EarnsNew
<1>2. ASSUME EarnInvariant, PostedOnce, EarnsNew, [ENext]_<<vars, evars>>
      PROVE  PostedOnce' /\ EarnsNew'
  <2>1. ASSUME NEW p \in Workers,
               StartCall(p) \/ StartLedgerCall(p) \/ CallStep(p) \/ Dies(p)
        PROVE  PostedOnce' /\ EarnsNew'
    <3>1. EarnsNew'
      BY <1>2, <2>1, RowBehindCommit
    <3>2. CASE CommitEvent(p)
      BY <1>2, <3>1, <3>2, EarnPosted, NothingPosted
    <3>3. CASE CommitLedger(p)
      BY <1>2, <3>1, <3>3, EarnReversed
    <3>4. CASE ~CommitEvent(p) /\ ~CommitLedger(p)
      <4>1. event' = event /\ ledger' = ledger
        BY <1>2, <2>1, <3>4, SessionMoves
      <4> QED BY <1>2, <3>1, <4>1 DEF PostedOnce, EarnsOf
    <3> QED BY <3>2, <3>3, <3>4
  <2>2. CASE UNCHANGED <<event, ledger, epc, pc, row>>
    BY <1>2, <2>2 DEF PostedOnce, EarnsOf, EarnsNew
  <2> QED BY <1>2, <2>1, <2>2 DEF ENext, NextDay, FreezeWallet, SetWalletStatus,
          vars, evars, store, local
<1> QED BY <1>1, <1>2, EarnInvariance, PTL DEF ESpec

-----------------------------------------------------------------------------
(* Limits hold as long as no issue is under way when the day or the week   *)
(* they are counted over ends.                                             *)

(* issue_reward dates its event with the start of its transaction and      *)
(* counts from the start of the day it counts on; the run earn_midnight    *)
(* shows what happens between the two.                                     *)
NoIssueAcrossBoundary ==
    [][today' # today => \A p \in Workers :
          call[p] # Null /\ call[p].kind = "issue" =>
             /\ DailyLimit[call[p].rule] = Null
             /\ WeeklyLimit[call[p].rule] # Null =>
                   WeekStart(today') = WeekStart(today)]_<<vars, evars>>

OnDay(w, r, d) == {k \in Counting(w, r) : event[k].day = d}
InWeek(w, r, d) == {k \in Counting(w, r) : WeekStart(event[k].day) = WeekStart(d)}

(* An issue past a limit still has room under it: nobody else issues to    *)
(* its student.                                                            *)
PastWeekly == {"insertEvent", "post", "commit"}
PastDaily == PastWeekly \cup {"checkWeekly"}

InForce(p) ==
    call[p] # Null /\ call[p].kind = "issue" =>
        /\ DailyLimit[call[p].rule] # Null =>
             /\ startDay[p] = today
             /\ epc[p] \in PastDaily =>
                  Cardinality(OnDay(call[p].wallet, call[p].rule, today))
                      < DailyLimit[call[p].rule]
        /\ WeeklyLimit[call[p].rule] # Null =>
             /\ WeekStart(startDay[p]) = WeekStart(today)
             /\ epc[p] \in PastWeekly =>
                  Cardinality(InWeek(call[p].wallet, call[p].rule, today))
                      < WeeklyLimit[call[p].rule]

EventsFinite == IsFiniteSet({k \in Keys : event[k] # Null})

LimitInvariant ==
    /\ EventsFinite
    /\ LimitsKept
    /\ \A p \in Workers : InForce(p)

LEMMA LimitsRead ==
    LimitsKept <=>
      \A w \in Wallets, r \in Rules, d \in Days :
        /\ DailyLimit[r] # Null => Cardinality(OnDay(w, r, d)) <= DailyLimit[r]
        /\ WeeklyLimit[r] # Null => Cardinality(InWeek(w, r, d)) <= WeeklyLimit[r]
BY DEF LimitsKept, OnDay, InWeek

LEMMA LimitsReadNext ==
    LimitsKept' <=>
      \A w \in Wallets, r \in Rules, d \in Days :
        /\ DailyLimit[r] # Null => Cardinality(OnDay(w, r, d)') <= DailyLimit[r]
        /\ WeeklyLimit[r] # Null => Cardinality(InWeek(w, r, d)') <= WeeklyLimit[r]
BY DEF LimitsKept, OnDay, InWeek

(* A week starts no later than its days. *)
LEMMA WeekStartsFirst ==
    ASSUME NEW d \in Days
    PROVE  WeekStart(d) \in Int /\ WeekStart(d) <= d
BY EarningAssumption DEF WeekStart, Days

LEMMA CountsFinite ==
    ASSUME EventsFinite, NEW S, S \subseteq {k \in Keys : event[k] # Null}
    PROVE  /\ IsFiniteSet(S) /\ Cardinality(S) \in Nat
           /\ \A T \in SUBSET S : IsFiniteSet(T) /\ Cardinality(T) \in Nat
                                  /\ Cardinality(T) <= Cardinality(S)
BY FS_Subset, FS_CardinalityType DEF EventsFinite

(* Nothing new counts. *)
NothingNewCounts ==
    \A k \in Keys :
       event'[k] # Null /\ event'[k].status \in {"pending", "posted"} =>
         /\ event[k] # Null /\ event[k].status \in {"pending", "posted"}
         /\ event'[k].wallet = event[k].wallet /\ event'[k].rule = event[k].rule
         /\ event'[k].day = event[k].day

LEMMA CountsShrink ==
    ASSUME EventsFinite, NothingNewCounts, NEW w, NEW r, NEW d
    PROVE  /\ Cardinality(OnDay(w, r, d)') \in Nat
           /\ Cardinality(InWeek(w, r, d)') \in Nat
           /\ Cardinality(OnDay(w, r, d)) \in Nat
           /\ Cardinality(InWeek(w, r, d)) \in Nat
           /\ Cardinality(OnDay(w, r, d)') <= Cardinality(OnDay(w, r, d))
           /\ Cardinality(InWeek(w, r, d)') <= Cardinality(InWeek(w, r, d))
<1>1. /\ OnDay(w, r, d)' \subseteq OnDay(w, r, d)
      /\ InWeek(w, r, d)' \subseteq InWeek(w, r, d)
  BY DEF OnDay, InWeek, Counting, NothingNewCounts, WeekStart
<1>2. /\ OnDay(w, r, d) \subseteq {k \in Keys : event[k] # Null}
      /\ InWeek(w, r, d) \subseteq {k \in Keys : event[k] # Null}
  BY DEF OnDay, InWeek, Counting
<1> QED BY <1>1, <1>2, CountsFinite

(* The counts of a call with its own date. *)
LEMMA WorkerInForce ==
    ASSUME EventsFinite, EarnInvariant, NothingNewCounts, NEW p \in Workers, InForce(p),
           call'[p] = call[p], startDay'[p] = startDay[p], today' = today,
           epc'[p] \in PastDaily => epc[p] \in PastDaily,
           epc'[p] \in PastWeekly => epc[p] \in PastWeekly
    PROVE  InForce(p)'
<1> SUFFICES ASSUME call[p] # Null, call[p].kind = "issue"
             PROVE  InForce(p)'
  BY DEF InForce
<1>1. PICK w \in Wallets, r \in Rules, d \in Days :
        w = call[p].wallet /\ r = call[p].rule /\ d = today
  BY CallTyped DEF EarnInvariant, ETypeOK
<1>2. /\ DailyLimit[r] \in Nat \cup {Null} /\ WeeklyLimit[r] \in Nat \cup {Null}
  BY EarningAssumption
<1>3. /\ Cardinality(OnDay(w, r, d)') \in Nat
      /\ Cardinality(InWeek(w, r, d)') \in Nat
      /\ Cardinality(OnDay(w, r, d)) \in Nat
      /\ Cardinality(InWeek(w, r, d)) \in Nat
      /\ Cardinality(OnDay(w, r, d)') <= Cardinality(OnDay(w, r, d))
      /\ Cardinality(InWeek(w, r, d)') <= Cardinality(InWeek(w, r, d))
  BY CountsShrink
<1>4. /\ DailyLimit[r] # Null =>
           /\ startDay[p] = d
           /\ epc[p] \in PastDaily =>
                Cardinality(OnDay(w, r, d)) < DailyLimit[r]
      /\ WeeklyLimit[r] # Null =>
           /\ WeekStart(startDay[p]) = WeekStart(d)
           /\ epc[p] \in PastWeekly =>
                Cardinality(InWeek(w, r, d)) < WeeklyLimit[r]
  BY <1>1 DEF InForce
<1>5. /\ DailyLimit[r] # Null =>
           /\ startDay'[p] = d
           /\ epc'[p] \in PastDaily =>
                Cardinality(OnDay(w, r, d)') < DailyLimit[r]
      /\ WeeklyLimit[r] # Null =>
           /\ WeekStart(startDay'[p]) = WeekStart(d)
           /\ epc'[p] \in PastWeekly =>
                Cardinality(InWeek(w, r, d)') < WeeklyLimit[r]
  BY <1>2, <1>3, <1>4
<1>6. call'[p].wallet = w /\ call'[p].rule = r /\ today' = d
  BY <1>1
<1> QED BY <1>5, <1>6 DEF InForce, WeekStart

(* Between its start, its checks and its commit a call only goes on or     *)
(* ends.                                                                   *)
LEMMA SessionGoesOn ==
    ASSUME EarnInvariant, NEW p \in Workers,
           StartLedgerCall(p) \/ CallStep(p) \/ Dies(p),
           ~CommitEvent(p), ~CheckDaily(p), ~CheckWeekly(p)
    PROVE  \/ call'[p] = Null
           \/ /\ call'[p] = call[p] /\ startDay'[p] = startDay[p]
              /\ epc'[p] \in PastDaily => epc[p] \in PastDaily
                                          \/ call[p].kind # "issue"
              /\ epc'[p] \in PastWeekly => epc[p] \in PastWeekly
                                           \/ call[p].kind # "issue"
<1>1. ETypeOK
  BY DEF EarnInvariant
<1>2. ASSUME NEW a, Answer(p, a)
      PROVE  call'[p] = Null
  BY <1>1, <1>2 DEF Answer, ETypeOK
<1>3. CASE \E a : Answer(p, a)
  BY <1>2, <1>3
<1>4. CASE ~\E a : Answer(p, a)
  <2>1. \/ UNCHANGED <<epc, call, startDay>>
        \/ /\ UNCHANGED <<call, startDay>>
           /\ \/ epc' = [epc EXCEPT ![p] = "lockWallet"]
              \/ epc' = [epc EXCEPT ![p] = "findAgain"]
              \/ epc' = [epc EXCEPT ![p] = "checkDaily"]
              \/ epc' = [epc EXCEPT ![p] = "raced"]
              \/ epc[p] = "lockEvent"
              \/ epc[p] \in {"insertEvent", "post"}
    BY <1>4 DEF StartLedgerCall, CallStep, Dies, FindEvent, LockWallet, FindAgain,
       InsertEvent, Raced, LockEvent, CallEarn, Post, PlainLedger, CommitLedger,
       EndSession, Continue, evars
  <2>2. epc[p] = "lockEvent" => call[p].kind # "issue"
    BY CallAt DEF CallSound
  <2> QED BY <1>1, <2>1, <2>2 DEF ETypeOK, PastDaily, PastWeekly
<1> QED BY <1>3, <1>4

(* An issue that a check lets pass has room under that limit. *)
LEMMA CheckPassed ==
    ASSUME EarnInvariant, EventsFinite, NEW p \in Workers, InForce(p),
           CheckDaily(p) \/ CheckWeekly(p)
    PROVE  InForce(p)'
<1>1. CASE \E a : EndSession(p, a)
  <2>1. call'[p] = Null
    BY <1>1 DEF EndSession, Answer, EarnInvariant, ETypeOK
  <2> QED BY <2>1 DEF InForce
<1>2. CASE ~\E a : EndSession(p, a)
  <2>1. PICK w \in Wallets, r \in Rules, d \in Days :
          w = call[p].wallet /\ r = call[p].rule /\ d = today
    BY CallAt DEF EarnInvariant, ETypeOK, CheckDaily, CheckWeekly
  <2>2. /\ ETypeOK /\ UNCHANGED <<vars, event, today, call, startDay>>
        /\ call[p] # Null /\ call[p].kind = "issue"
    BY <1>2, CallAt DEF CheckDaily, CheckWeekly, CheckLimit, CallSound, Issuing,
       Checking
  <2>3. /\ DailyLimit[r] \in Nat \cup {Null} /\ WeeklyLimit[r] \in Nat \cup {Null}
    BY EarningAssumption
  <2>4. /\ OnDay(w, r, d)' = OnDay(w, r, d) /\ InWeek(w, r, d)' = InWeek(w, r, d)
        /\ WeekStart(startDay'[p]) = WeekStart(startDay[p])
    BY <2>2 DEF OnDay, InWeek, Counting, WeekStart
  <2> DEFINE Since(s) == {k \in Keys : /\ event[k] # Null
                                       /\ event[k].wallet = w /\ event[k].rule = r
                                       /\ event[k].day >= s
                                       /\ event[k].status \in {"pending", "posted"}}
  <2>5. OnDay(w, r, d) \subseteq Since(d)
    <3>1. \A k \in Keys : event[k] # Null => event[k].day \in Days
      BY EventTyped
    <3> QED BY <3>1, EarningAssumption DEF OnDay, Counting, Days
  <2>6. InWeek(w, r, d) \subseteq Since(WeekStart(d))
    <3>1. \A k \in Keys : event[k] # Null =>
             event[k].day \in Days /\ WeekStart(event[k].day) <= event[k].day
      BY EventTyped, WeekStartsFirst
    <3>2. \A k \in Keys : event[k] # Null /\ WeekStart(event[k].day) = WeekStart(d)
             => event[k].day >= WeekStart(d)
      BY <3>1, WeekStartsFirst DEF Days
    <3> QED BY <3>2 DEF InWeek, Counting
  <2>7. \A s : /\ Since(s) \subseteq {k \in Keys : event[k] # Null}
               /\ Uses(w, r, s) = Cardinality(Since(s))
    BY DEF Uses
  <2> HIDE DEF Since
  <2>8. /\ Cardinality(OnDay(w, r, d)) \in Nat /\ Cardinality(InWeek(w, r, d)) \in Nat
        /\ Uses(w, r, d) \in Nat /\ Uses(w, r, WeekStart(d)) \in Nat
        /\ Cardinality(OnDay(w, r, d)) <= Uses(w, r, d)
        /\ Cardinality(InWeek(w, r, d)) <= Uses(w, r, WeekStart(d))
    BY <2>5, <2>6, <2>7, CountsFinite
  <2>9. /\ DailyLimit[r] # Null =>
             /\ startDay[p] = d
             /\ epc[p] \in PastDaily => Cardinality(OnDay(w, r, d)) < DailyLimit[r]
        /\ WeeklyLimit[r] # Null =>
             /\ WeekStart(startDay[p]) = WeekStart(d)
             /\ epc[p] \in PastWeekly => Cardinality(InWeek(w, r, d)) < WeeklyLimit[r]
    BY <2>1, <2>2 DEF InForce
  <2>10. CASE CheckDaily(p)
    <3>1. /\ epc'[p] = "checkWeekly"
          /\ DailyLimit[r] # Null => Uses(w, r, d) < DailyLimit[r]
      BY <1>2, <2>1, <2>2, <2>10 DEF CheckDaily, CheckLimit, Continue, ETypeOK
    <3>2. DailyLimit[r] # Null => Cardinality(OnDay(w, r, d)) < DailyLimit[r]
      BY <2>3, <2>8, <3>1
    <3> QED BY <2>1, <2>2, <2>4, <2>9, <3>1, <3>2 DEF InForce, PastDaily, PastWeekly,
            WeekStart
  <2>11. CASE CheckWeekly(p)
    <3>1. /\ epc[p] = "checkWeekly" /\ epc'[p] = "insertEvent"
          /\ WeeklyLimit[r] # Null => Uses(w, r, WeekStart(d)) < WeeklyLimit[r]
      BY <1>2, <2>1, <2>2, <2>11 DEF CheckWeekly, CheckLimit, Continue, ETypeOK
    <3>2. WeeklyLimit[r] # Null => Cardinality(InWeek(w, r, d)) < WeeklyLimit[r]
      BY <2>3, <2>8, <3>1
    <3> QED BY <2>1, <2>2, <2>4, <2>9, <3>1, <3>2 DEF InForce, PastDaily, PastWeekly,
            WeekStart
  <2> QED BY <2>10, <2>11
<1> QED BY <1>1, <1>2

(* The commit of an issue takes the room its checks have found.            *)
LEMMA IssueCounts ==
    ASSUME EarnInvariant, LimitInvariant, NEW p \in Workers, CommitEvent(p),
           call[p].kind = "issue"
    PROVE  LimitInvariant'
<1>1. PICK k \in Keys, v \in Wallets, s \in Rules :
        k = call[p].key /\ v = call[p].wallet /\ s = call[p].rule
  BY CallAt DEF CommitEvent
<1>2. /\ ETypeOK /\ epc[p] = "commit" /\ call[p] # Null /\ event[k] = Null
      /\ accountLock[v] = p /\ startDay[p] \in Days
  BY <1>1, CallAt DEF CommitEvent, EventFree, HoldsWallet, Posting, ETypeOK
<1>3. /\ event'[k].wallet = v /\ event'[k].rule = s /\ event'[k].day = startDay[p]
      /\ \A j \in Keys \ {k} : event'[j] = event[j]
  BY <1>1, EventWritten DEF EventOf
<1>4. EventsFinite'
  <2>1. {j \in Keys : event'[j] # Null} \subseteq {j \in Keys : event[j] # Null} \cup {k}
    BY <1>3
  <2>2. IsFiniteSet({j \in Keys : event[j] # Null} \cup {k})
    BY FS_AddElement DEF LimitInvariant, EventsFinite
  <2> QED BY <2>1, <2>2, FS_Subset DEF EventsFinite
<1>5. ASSUME NEW w \in Wallets, NEW r \in Rules, NEW d \in Days
      PROVE  /\ Cardinality(OnDay(w, r, d)) \in Nat
             /\ Cardinality(InWeek(w, r, d)) \in Nat
             /\ Cardinality(OnDay(w, r, d)') \in Nat
             /\ Cardinality(InWeek(w, r, d)') \in Nat
             /\ Cardinality(OnDay(w, r, d)') <= Cardinality(OnDay(w, r, d)) + 1
             /\ Cardinality(InWeek(w, r, d)') <= Cardinality(InWeek(w, r, d)) + 1
             /\ w # v \/ r # s \/ d # startDay[p]
                  => OnDay(w, r, d)' = OnDay(w, r, d)
             /\ w # v \/ r # s \/ WeekStart(d) # WeekStart(startDay[p])
                  => InWeek(w, r, d)' = InWeek(w, r, d)
  <2>1. /\ OnDay(w, r, d)' \subseteq OnDay(w, r, d) \cup {k}
        /\ InWeek(w, r, d)' \subseteq InWeek(w, r, d) \cup {k}
    BY <1>3 DEF OnDay, InWeek, Counting, WeekStart
  <2>2. /\ w # v \/ r # s \/ d # startDay[p]
             => OnDay(w, r, d)' = OnDay(w, r, d)
        /\ w # v \/ r # s \/ WeekStart(d) # WeekStart(startDay[p])
             => InWeek(w, r, d)' = InWeek(w, r, d)
    BY <1>2, <1>3 DEF OnDay, InWeek, Counting, WeekStart
  <2>3. /\ IsFiniteSet(OnDay(w, r, d)) /\ IsFiniteSet(InWeek(w, r, d))
        /\ Cardinality(OnDay(w, r, d)) \in Nat /\ Cardinality(InWeek(w, r, d)) \in Nat
    BY CountsFinite DEF OnDay, InWeek, Counting, LimitInvariant
  <2>4. ASSUME NEW S, NEW T, IsFiniteSet(S), Cardinality(S) \in Nat,
               T \subseteq S \cup {k}
        PROVE  Cardinality(T) \in Nat /\ Cardinality(T) <= Cardinality(S) + 1
    <3>1. /\ IsFiniteSet(S \cup {k}) /\ Cardinality(S \cup {k}) \in Nat
          /\ Cardinality(S \cup {k}) <= Cardinality(S) + 1
      <4>1. /\ IsFiniteSet(S \cup {k})
            /\ \/ Cardinality(S \cup {k}) = Cardinality(S)
               \/ Cardinality(S \cup {k}) = Cardinality(S) + 1
        BY <2>4, FS_AddElement
      <4> QED BY <2>4, <4>1
    <3> QED BY <2>4, <3>1, FS_Subset, FS_CardinalityType
  <2> QED BY <2>1, <2>2, <2>3, <2>4
<1>6. \A r \in Rules : /\ DailyLimit[r] \in Nat \cup {Null}
                       /\ WeeklyLimit[r] \in Nat \cup {Null}
  BY EarningAssumption
<1>7. /\ DailyLimit[s] # Null =>
           Cardinality(OnDay(v, s, startDay[p])) < DailyLimit[s]
      /\ WeeklyLimit[s] # Null =>
           \A d \in Days : WeekStart(d) = WeekStart(startDay[p]) =>
              Cardinality(InWeek(v, s, d)) < WeeklyLimit[s]
  BY <1>1, <1>2 DEF LimitInvariant, InForce, PastDaily, PastWeekly, InWeek
<1>8. LimitsKept'
  <2> SUFFICES ASSUME NEW w \in Wallets, NEW r \in Rules, NEW d \in Days
               PROVE  /\ DailyLimit[r] # Null =>
                            Cardinality(OnDay(w, r, d)') <= DailyLimit[r]
                      /\ WeeklyLimit[r] # Null =>
                            Cardinality(InWeek(w, r, d)') <= WeeklyLimit[r]
    BY LimitsReadNext
  <2>1. /\ DailyLimit[r] # Null => Cardinality(OnDay(w, r, d)) <= DailyLimit[r]
        /\ WeeklyLimit[r] # Null => Cardinality(InWeek(w, r, d)) <= WeeklyLimit[r]
    BY LimitsRead DEF LimitInvariant
  <2>2. DailyLimit[r] # Null => Cardinality(OnDay(w, r, d)') <= DailyLimit[r]
    <3>1. CASE w = v /\ r = s /\ d = startDay[p]
      BY <1>2, <1>5, <1>6, <1>7, <3>1
    <3>2. CASE ~(w = v /\ r = s /\ d = startDay[p])
      BY <1>5, <2>1, <3>2
    <3> QED BY <3>1, <3>2
  <2>3. WeeklyLimit[r] # Null => Cardinality(InWeek(w, r, d)') <= WeeklyLimit[r]
    <3>1. CASE w = v /\ r = s /\ WeekStart(d) = WeekStart(startDay[p])
      BY <1>2, <1>5, <1>6, <1>7, <3>1
    <3>2. CASE ~(w = v /\ r = s /\ WeekStart(d) = WeekStart(startDay[p]))
      BY <1>5, <2>1, <3>2
    <3> QED BY <3>1, <3>2
  <2> QED BY <2>2, <2>3
<1>9. ASSUME NEW q \in Workers
      PROVE  InForce(q)'
  <2>1. CASE q = p
    <3>1. call'[p] = Null
      BY <1>2 DEF CommitEvent, Answer, ETypeOK
    <3> QED BY <2>1, <3>1 DEF InForce
  <2>2. CASE q # p
    <3>1. /\ epc'[q] = epc[q] /\ call'[q] = call[q] /\ startDay'[q] = startDay[q]
          /\ today' = today
      BY <2>2, SessionMoves DEF CallStep
    <3> SUFFICES ASSUME call[q] # Null, call[q].kind = "issue"
                 PROVE  InForce(q)'
      BY <3>1 DEF InForce
    <3>2. PICK w \in Wallets, r \in Rules, d \in Days :
            w = call[q].wallet /\ r = call[q].rule /\ d = today
      BY <1>2, CallTyped DEF ETypeOK
    <3>3. epc[q] \in PastDaily => w # v
      BY <1>2, <2>2, <3>2 DEF EarnInvariant, HoldsWallet, PastDaily, PastWeekly,
         Checking, Posting
    <3>4. epc[q] \in PastDaily =>
            OnDay(w, r, d)' = OnDay(w, r, d) /\ InWeek(w, r, d)' = InWeek(w, r, d)
      BY <1>5, <3>3
    <3>5. /\ DailyLimit[r] # Null =>
               /\ startDay[q] = d
               /\ epc[q] \in PastDaily => Cardinality(OnDay(w, r, d)) < DailyLimit[r]
          /\ WeeklyLimit[r] # Null =>
               /\ WeekStart(startDay[q]) = WeekStart(d)
               /\ epc[q] \in PastWeekly => Cardinality(InWeek(w, r, d)) < WeeklyLimit[r]
      BY <3>2 DEF LimitInvariant, InForce
    <3>6. /\ DailyLimit[r] # Null =>
               /\ startDay'[q] = d
               /\ epc'[q] \in PastDaily => Cardinality(OnDay(w, r, d)') < DailyLimit[r]
          /\ WeeklyLimit[r] # Null =>
               /\ WeekStart(startDay'[q]) = WeekStart(d)
               /\ epc'[q] \in PastWeekly => Cardinality(InWeek(w, r, d)') < WeeklyLimit[r]
      BY <3>1, <3>4, <3>5 DEF PastDaily
    <3>7. call'[q].wallet = w /\ call'[q].rule = r /\ today' = d
      BY <3>1, <3>2
    <3> QED BY <3>6, <3>7 DEF InForce, WeekStart
  <2> QED BY <2>1, <2>2
<1> QED BY <1>4, <1>8, <1>9 DEF LimitInvariant

(* Decisions and reversals take nothing.                                   *)
LEMMA OtherCommits ==
    ASSUME EarnInvariant, NEW p \in Workers,
           (CommitEvent(p) /\ call[p].kind # "issue") \/ CommitLedger(p)
    PROVE  NothingNewCounts /\ \A k \in Keys : event[k] = Null => event'[k] = Null
<1>1. CASE CommitEvent(p) /\ call[p].kind # "issue"
  <2>1. PICK k \in Keys : k = call[p].key
    BY <1>1, CallAt DEF CommitEvent
  <2>2. event[k] # Null /\ event[k].status = "pending"
    BY <1>1, <2>1, CallAt DEF CommitEvent, EventFree, Posting
  <2>3. /\ event'[k].wallet = event[k].wallet /\ event'[k].rule = event[k].rule
        /\ event'[k].day = event[k].day
        /\ \A j \in Keys \ {k} : event'[j] = event[j]
    BY <1>1, <2>1, EventWritten DEF EventOf
  <2> QED BY <2>2, <2>3 DEF NothingNewCounts
<1>2. CASE CommitLedger(p)
  <2>1. /\ EventsMove(p)
        /\ \A k \in Keys : event[k] # Null =>
             /\ event'[k].day = event[k].day
             /\ event'[k].status = "reversed" \/ event'[k].status = event[k].status
        /\ \A k \in Keys : event[k] = Null => event'[k] = Null
    BY <1>2, EventsMarked
  <2> QED BY <2>1 DEF NothingNewCounts, EventsMove
<1> QED BY <1>1, <1>2

LEMMA LimitsGoOn ==
    ASSUME EarnInvariant, LimitInvariant, NEW p \in Workers,
           StartCall(p) \/ StartLedgerCall(p) \/ CallStep(p) \/ Dies(p)
    PROVE  LimitInvariant'
<1>1. CASE CommitEvent(p) /\ call[p].kind = "issue"
  BY <1>1, IssueCounts
<1>2. CASE ~(CommitEvent(p) /\ call[p].kind = "issue")
  <2>1. NothingNewCounts /\ \A k \in Keys : event[k] = Null => event'[k] = Null
    <3>1. CASE CommitEvent(p) \/ CommitLedger(p)
      BY <1>2, <3>1, OtherCommits
    <3>2. CASE ~CommitEvent(p) /\ ~CommitLedger(p)
      BY <3>2, SessionMoves DEF NothingNewCounts
    <3> QED BY <3>1, <3>2
  <2>2. EventsFinite'
    <3>1. {k \in Keys : event'[k] # Null} \subseteq {k \in Keys : event[k] # Null}
      BY <2>1
    <3> QED BY <3>1, FS_Subset DEF LimitInvariant, EventsFinite
  <2>3. LimitsKept'
    <3> SUFFICES ASSUME NEW w \in Wallets, NEW r \in Rules, NEW d \in Days
                 PROVE  /\ DailyLimit[r] # Null =>
                              Cardinality(OnDay(w, r, d)') <= DailyLimit[r]
                        /\ WeeklyLimit[r] # Null =>
                              Cardinality(InWeek(w, r, d)') <= WeeklyLimit[r]
      BY LimitsReadNext
    <3>1. /\ DailyLimit[r] # Null => Cardinality(OnDay(w, r, d)) <= DailyLimit[r]
          /\ WeeklyLimit[r] # Null => Cardinality(InWeek(w, r, d)) <= WeeklyLimit[r]
      BY LimitsRead DEF LimitInvariant
    <3>2. /\ DailyLimit[r] \in Nat \cup {Null} /\ WeeklyLimit[r] \in Nat \cup {Null}
      BY EarningAssumption
    <3>3. /\ Cardinality(OnDay(w, r, d)') \in Nat
          /\ Cardinality(InWeek(w, r, d)') \in Nat
          /\ Cardinality(OnDay(w, r, d)) \in Nat
          /\ Cardinality(InWeek(w, r, d)) \in Nat
          /\ Cardinality(OnDay(w, r, d)') <= Cardinality(OnDay(w, r, d))
          /\ Cardinality(InWeek(w, r, d)') <= Cardinality(InWeek(w, r, d))
      BY <2>1, CountsShrink DEF LimitInvariant
    <3> QED BY <3>1, <3>2, <3>3
  <2>4. ASSUME NEW q \in Workers \ {p}
        PROVE  InForce(q)'
    BY <2>1, SessionMoves, WorkerInForce DEF LimitInvariant
  <2>5. InForce(p)'
    <3>1. CASE StartCall(p)
      <4>1. /\ startDay'[p] = today' /\ epc'[p] \notin PastDaily \cup PastWeekly
        BY <3>1 DEF StartCall, Continue, EarnInvariant, ETypeOK, PastDaily, PastWeekly
      <4> QED BY <4>1 DEF InForce
    <3>2. CASE CheckDaily(p) \/ CheckWeekly(p)
      BY <3>2, CheckPassed DEF LimitInvariant
    <3>3. CASE CommitEvent(p)
      <4>1. call'[p] = Null
        BY <3>3 DEF CommitEvent, Answer, EarnInvariant, ETypeOK
      <4> QED BY <4>1 DEF InForce
    <3>4. CASE ~StartCall(p) /\ ~CheckDaily(p) /\ ~CheckWeekly(p) /\ ~CommitEvent(p)
      <4>1. CASE call'[p] = Null
        BY <4>1 DEF InForce
      <4>2. CASE call'[p] = call[p] /\ call[p].kind # "issue"
        BY <4>2 DEF InForce
      <4>3. CASE call'[p] # Null /\ ~(call'[p] = call[p] /\ call[p].kind # "issue")
        <5>1. /\ call'[p] = call[p] /\ startDay'[p] = startDay[p]
              /\ epc'[p] \in PastDaily => epc[p] \in PastDaily
              /\ epc'[p] \in PastWeekly => epc[p] \in PastWeekly
          BY <3>4, <4>3, SessionGoesOn
        <5>2. today' = today
          BY SessionMoves
        <5> QED BY <2>1, <5>1, <5>2, WorkerInForce DEF LimitInvariant
      <4> QED BY <4>1, <4>2, <4>3
    <3> QED BY <3>1, <3>2, <3>3, <3>4
  <2> QED BY <2>2, <2>3, <2>4, <2>5 DEF LimitInvariant
<1> QED BY <1>1, <1>2

(* No student is rewarded beyond a limit, by any number of staff: the      *)
(* counts are read and the event is written under the lock of the student's*)
(* account (count_rule_usage, earning_service.py).  The hypothesis is what *)
(* the code does not ensure, see the run earn_midnight; days and weeks may *)
(* pass between issues, and while decisions are under way.                 *)
THEOREM LimitsHold == ESpec /\ NoIssueAcrossBoundary => []LimitsKept
<1> DEFINE Quiet ==
      today' # today => \A p \in Workers :
          call[p] # Null /\ call[p].kind = "issue" =>
             /\ DailyLimit[call[p].rule] = Null
             /\ WeeklyLimit[call[p].rule] # Null =>
                   WeekStart(today') = WeekStart(today)
<1>1. EInit => LimitInvariant
  <2> SUFFICES ASSUME EInit PROVE LimitInvariant
    OBVIOUS
  <2>1. \A k \in Keys : event[k] = Null
    BY DEF EInit
  <2>2. EventsFinite
    BY <2>1, FS_EmptySet DEF EventsFinite
  <2>3. \A w \in Wallets, r \in Rules, d \in Days :
          OnDay(w, r, d) = {} /\ InWeek(w, r, d) = {}
    BY <2>1 DEF OnDay, InWeek, Counting
  <2>4. LimitsKept
    <3>1. \A r \in Rules : /\ DailyLimit[r] \in Nat \cup {Null}
                           /\ WeeklyLimit[r] \in Nat \cup {Null}
      BY EarningAssumption
    <3>2. Cardinality({}) = 0
      BY FS_EmptySet
    <3> QED BY <2>3, <3>1, <3>2, LimitsRead
  <2>5. \A p \in Workers : InForce(p)
    BY DEF EInit, InForce
  <2> QED BY <2>2, <2>4, <2>5 DEF LimitInvariant
<1>2. ASSUME EarnInvariant, LimitInvariant, [ENext]_<<vars, evars>>,
             [Quiet]_<<vars, evars>>
      PROVE  LimitInvariant'
  <2>1. ASSUME NEW p \in Workers,
               StartCall(p) \/ StartLedgerCall(p) \/ CallStep(p) \/ Dies(p)
        PROVE  LimitInvariant'
    BY <1>2, <2>1, LimitsGoOn
  <2>2. ASSUME UNCHANGED <<event, epc, call, startDay>>, today' = today \/ NextDay
        PROVE  LimitInvariant'
    <3>1. EventsFinite' /\ LimitsKept'
      <4>1. EventsFinite'
        BY <1>2, <2>2 DEF LimitInvariant, EventsFinite
      <4>2. ASSUME NEW w, NEW r, NEW d
            PROVE  OnDay(w, r, d)' = OnDay(w, r, d) /\ InWeek(w, r, d)' = InWeek(w, r, d)
        BY <2>2 DEF OnDay, InWeek, Counting, WeekStart
      <4>3. LimitsKept'
        BY <1>2, <4>2, LimitsRead, LimitsReadNext DEF LimitInvariant
      <4> QED BY <4>1, <4>3
    <3>2. ASSUME NEW p \in Workers
          PROVE  InForce(p)'
      <4>1. CASE today' = today
        BY <1>2, <2>2, <4>1 DEF LimitInvariant, InForce, OnDay, InWeek, Counting,
           WeekStart
      <4>2. CASE today' # today
        <5>1. Quiet
          BY <1>2, <4>2 DEF evars
        <5> SUFFICES ASSUME call[p] # Null, call[p].kind = "issue"
                     PROVE  InForce(p)'
          BY <2>2 DEF InForce
        <5>2. PICK w \in Wallets, r \in Rules, d \in Days, e \in Days :
                w = call[p].wallet /\ r = call[p].rule /\ d = today /\ e = today'
          <6>1. today \in Days /\ today' \in Days
            BY <1>2, <2>2, EarningAssumption DEF EarnInvariant, ETypeOK, NextDay, Days
          <6>2. call[p].wallet \in Wallets /\ call[p].rule \in Rules
            BY <1>2, CallTyped
          <6> QED BY <6>1, <6>2
        <5>3. DailyLimit[r] = Null /\ (WeeklyLimit[r] # Null => WeekStart(e) = WeekStart(d))
          BY <4>2, <5>1, <5>2 DEF WeekStart
        <5>4. WeekStart(e) = WeekStart(d) => InWeek(w, r, e)' = InWeek(w, r, d)
          BY <2>2 DEF InWeek, Counting, WeekStart
        <5>5. WeeklyLimit[r] # Null =>
                /\ WeekStart(startDay[p]) = WeekStart(d)
                /\ epc[p] \in PastWeekly => Cardinality(InWeek(w, r, d)) < WeeklyLimit[r]
          BY <1>2, <5>2 DEF LimitInvariant, InForce
        <5>6. WeeklyLimit[r] # Null =>
                /\ WeekStart(startDay'[p]) = WeekStart(e)
                /\ epc'[p] \in PastWeekly => Cardinality(InWeek(w, r, e)') < WeeklyLimit[r]
          BY <2>2, <5>3, <5>4, <5>5 DEF PastWeekly
        <5>7. call'[p].wallet = w /\ call'[p].rule = r /\ today' = e
          BY <2>2, <5>2
        <5> QED BY <5>3, <5>6, <5>7 DEF InForce, WeekStart
      <4> QED BY <4>1, <4>2
    <3> QED BY <3>1, <3>2 DEF LimitInvariant
  <2> QED BY <1>2, <2>1, <2>2 DEF ENext, NextDay, FreezeWallet, evars
<1>3. LimitInvariant => LimitsKept
  BY DEF LimitInvariant
<1> QED BY <1>1, <1>2, <1>3, EarnInvariance, PTL DEF ESpec, NoIssueAcrossBoundary
=============================================================================
