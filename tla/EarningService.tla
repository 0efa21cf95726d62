--------------------------- MODULE EarningService ---------------------------
(***************************************************************************)
(* Earning events: staff issue rewards under rules with daily and weekly   *)
(* limits, some of which an administrator must approve first               *)
(* (app/services/earning_service.py).  An event is identified by its       *)
(* unique, scoped idempotency key.  issue_reward takes the student's       *)
(* account lock before it counts, approve and reject lock the event; both  *)
(* kinds of posting then run the statements of LedgerService.earn.         *)
(***************************************************************************)
EXTENDS LedgerService

CONSTANTS
    Rules,         \* active earning rules
    Calls,         \* the calls staff and administrators may make
    TokenAmount,   \* token_amount of a rule
    NeedsApproval, \* the rules with requires_approval
    DailyLimit,    \* daily_limit of a rule, Null if there is none
    WeeklyLimit,   \* weekly_limit of a rule, Null if there is none
    ApprovalKey,   \* the ledger key earning-approval-{event id} of an event
    LastDay,       \* bound: days are 0..LastDay
    WeekLength     \* days in a week

Days == 0..LastDay

(* The deciding calls name the event by its key; wallet and rule are then  *)
(* ignored.                                                                *)
CallType == [kind: {"issue", "approve", "reject"}, key: Keys,
             wallet: Wallets, rule: Rules]

EventType == [wallet: Wallets, rule: Rules, day: Days, tx: Keys \cup {Null},
              status: {"pending", "posted", "rejected", "reversed"}]

(* The request LedgerService.earn makes for an event of the rule r. *)
EarnOf(k, w, r) ==
    [op |-> "earn", key |-> k, wallet |-> w, amount |-> TokenAmount[r],
     credit |-> TRUE, original |-> k]

ASSUME EarningAssumption ==
    /\ Calls \subseteq CallType
    /\ TokenAmount \in [Rules -> Amounts]
    /\ NeedsApproval \subseteq Rules
    /\ DailyLimit \in [Rules -> Nat \cup {Null}]
    /\ WeeklyLimit \in [Rules -> Nat \cup {Null}]
    /\ ApprovalKey \in [Keys -> Keys]
    /\ LastDay \in Nat /\ WeekLength \in Nat \ {0}
    /\ Null \notin CallType \cup EventType
    /\ \A c \in Calls : c.kind = "issue" =>
          \A k \in {c.key, ApprovalKey[c.key]} :
             EarnOf(k, c.wallet, c.rule) \in Requests

VARIABLES
    event,      \* committed earning events by key
    eventLock,  \* holder of the FOR UPDATE lock of an event
    today,      \* the campus day
    epc,        \* the statement of EarningService a worker is about to execute
    call,       \* the call a worker is serving
    startDay,   \* the day its transaction began: created_at of what it inserts
    sawActive,  \* the status of the wallet when it was loaded
    reply       \* what the last call of a worker was answered

evars == <<event, eventLock, today, epc, call, startDay, sawActive, reply>>

EventStatements == {"none", "findEvent", "lockWallet", "findAgain",
                    "checkDaily", "checkWeekly", "insertEvent", "raced",
                    "lockEvent", "post", "commit"}

(* Types, and who may be inside the ledger. *)
ETypeOK ==
    /\ event \in [Keys -> EventType \cup {Null}]
    /\ eventLock \in [Keys -> Workers \cup {Null}]
    /\ today \in Days
    /\ epc \in [Workers -> EventStatements]
    /\ call \in [Workers -> CallType \cup {Null}]
    /\ startDay \in [Workers -> Days]
    /\ sawActive \in [Workers -> BOOLEAN]
    /\ reply \in [Workers -> {"none", "event", "refused", "lost"}]
    /\ \A p \in Workers :
        /\ epc[p] = "none" <=> call[p] = Null
        /\ epc[p] \notin {"none", "post", "commit"} => pc[p] = "idle"
        /\ epc[p] = "none" /\ req[p] # Null => req[p].op # "earn"

EInit ==
    /\ Init
    /\ event = [k \in Keys |-> Null]
    /\ eventLock = [k \in Keys |-> Null]
    /\ today = 0
    /\ epc = [p \in Workers |-> "none"]
    /\ call = [p \in Workers |-> Null]
    /\ startDay = [p \in Workers |-> 0]
    /\ sawActive = [p \in Workers |-> TRUE]
    /\ reply = [p \in Workers |-> "none"]

-----------------------------------------------------------------------------
(* Waits.                                                                  *)

(* The event p has inserted and not committed. *)
HoldsEventKey(p, k) ==
    /\ epc[p] \in {"post", "commit"}
    /\ call[p].kind = "issue" /\ call[p].key = k

EWaitsFor(p) ==
    { q \in Workers \ {p} :
        \/ epc[p] \in {"none", "post"} /\ q \in Blockers(p)
        \/ /\ epc[p] = "lockWallet"
           /\ \/ accountLock[call[p].wallet] = q
              \/ SharesAccount(q, call[p].wallet)
        \/ epc[p] = "insertEvent" /\ HoldsEventKey(q, call[p].key)
        \/ epc[p] = "lockEvent" /\ eventLock[call[p].key] = q }

Continue(p, s) == epc' = [epc EXCEPT ![p] = s]

(* Mutant: the worker keeps its call. *)
AnswerKeepsCall(p, a) ==
    /\ eventLock' = [k \in Keys |-> IF eventLock[k] = p THEN Null
                                                       ELSE eventLock[k]]
    /\ Continue(p, "none")
    /\ reply' = [reply EXCEPT ![p] = a]
    /\ UNCHANGED <<call, startDay, sawActive>>

(* The call is answered; its event lock goes with its transaction. *)
Answer(p, a) ==
    /\ eventLock' = [k \in Keys |-> IF eventLock[k] = p THEN Null
                                                       ELSE eventLock[k]]
    /\ Continue(p, "none")
    /\ call' = [call EXCEPT ![p] = Null]
    /\ startDay' = [startDay EXCEPT ![p] = 0]
    /\ sawActive' = [sawActive EXCEPT ![p] = TRUE]
    /\ reply' = [reply EXCEPT ![p] = a]

(* Mutant: the account stays locked. *)
EndSessionKeepsLock(p, a) ==
    /\ Answer(p, a)
    /\ UNCHANGED <<vars, event, today>>

(* The session ends with nothing new in it, and with it the account lock.  *)
EndSession(p, a) ==
    /\ Rollback(p, "none")
    /\ Answer(p, a)
    /\ UNCHANGED <<event, today>>

-----------------------------------------------------------------------------
(* issue_reward.                                                           *)

(* created_at defaults to now(), which is when the transaction began. *)
StartCall(p) ==
    /\ pc[p] = "idle" /\ epc[p] = "none"
    /\ \E c \in Calls :
        /\ call' = [call EXCEPT ![p] = c]
        /\ Continue(p, IF c.kind = "issue" THEN "findEvent" ELSE "lockEvent")
    /\ startDay' = [startDay EXCEPT ![p] = today]
    /\ reply' = [reply EXCEPT ![p] = "none"]
    /\ UNCHANGED <<vars, event, eventLock, today, sawActive>>

(* A known key answers with its event; otherwise the student is loaded     *)
(* with the wallet, whose status the ledger will look at later.            *)
FindEvent(p) ==
    /\ epc[p] = "findEvent"
    /\ \/ /\ event[call[p].key] # Null
          /\ EndSession(p, "event")
       \/ /\ event[call[p].key] = Null
          /\ sawActive' = [sawActive EXCEPT ![p] = active[call[p].wallet]]
          /\ Continue(p, "lockWallet")
          /\ UNCHANGED <<vars, event, eventLock, today, call, startDay, reply>>

(* Mutant: the account is not locked. *)
LockWalletPlain(p) ==
    /\ epc[p] = "lockWallet"
    /\ Continue(p, "findAgain")
    /\ UNCHANGED <<vars, event, eventLock, today, call, startDay, sawActive,
                   reply>>

LockWallet(p) ==
    /\ epc[p] = "lockWallet"
    /\ EWaitsFor(p) = {}
    /\ accountLock' = [accountLock EXCEPT ![call[p].wallet] = p]
    /\ Continue(p, "findAgain")
    /\ UNCHANGED <<store, active, txLock, local, event, eventLock, today, call,
                   startDay, sawActive, reply>>

(* Mutant: the lock is not double-checked. *)
FindAgainSkipped(p) ==
    /\ epc[p] = "findAgain"
    /\ Continue(p, "checkDaily")
    /\ UNCHANGED <<vars, event, eventLock, today, call, startDay, sawActive,
                   reply>>

FindAgain(p) ==
    /\ epc[p] = "findAgain"
    /\ \/ /\ event[call[p].key] # Null
          /\ EndSession(p, "event")
       \/ /\ event[call[p].key] = Null
          /\ Continue(p, "checkDaily")
          /\ UNCHANGED <<vars, event, eventLock, today, call, startDay,
                         sawActive, reply>>

WeekStart(d) == d - (d % WeekLength)

(* Mutant: pending events do not count. *)
UsesPosted(w, r, since) ==
    Cardinality({k \in Keys :
        /\ event[k] # Null
        /\ event[k].wallet = w /\ event[k].rule = r
        /\ event[k].day >= since
        /\ event[k].status = "posted"})

(* count_rule_usage: what counts against a limit since a day. *)
Uses(w, r, since) ==
    Cardinality({k \in Keys :
        /\ event[k] # Null
        /\ event[k].wallet = w /\ event[k].rule = r
        /\ event[k].day >= since
        /\ event[k].status \in {"pending", "posted"}})

CheckLimit(p, limit, since, next) ==
    \/ /\ limit # Null /\ Uses(call[p].wallet, call[p].rule, since) >= limit
       /\ EndSession(p, "refused")
    \/ /\ limit # Null => Uses(call[p].wallet, call[p].rule, since) < limit
       /\ Continue(p, next)
       /\ UNCHANGED <<vars, event, eventLock, today, call, startDay, sawActive,
                      reply>>

CheckDaily(p) ==
    /\ epc[p] = "checkDaily"
    /\ CheckLimit(p, DailyLimit[call[p].rule], today, "checkWeekly")

CheckWeekly(p) ==
    /\ epc[p] = "checkWeekly"
    /\ CheckLimit(p, WeeklyLimit[call[p].rule], WeekStart(today), "insertEvent")

(* The flush of the event; on IntegrityError the committed event is read   *)
(* in a new transaction.                                                   *)
InsertEvent(p) ==
    /\ epc[p] = "insertEvent"
    /\ EWaitsFor(p) = {}
    /\ \/ /\ event[call[p].key] # Null
          /\ Rollback(p, "none")
          /\ Continue(p, "raced")
       \/ /\ event[call[p].key] = Null
          /\ Continue(p, IF call[p].rule \in NeedsApproval THEN "commit"
                                                           ELSE "post")
          /\ UNCHANGED vars
    /\ UNCHANGED <<event, eventLock, today, call, startDay, sawActive, reply>>

Raced(p) ==
    /\ epc[p] = "raced"
    /\ EndSession(p, "event")

-----------------------------------------------------------------------------
(* approve_event and reject_event.                                         *)

(* Mutant: SELECT without FOR UPDATE. *)
LockEventPlain(p) ==
    /\ epc[p] = "lockEvent"
    /\ \/ /\ event[call[p].key] = Null
          /\ EndSession(p, "refused")
       \/ /\ event[call[p].key] # Null
          /\ event[call[p].key].status # "pending"
          /\ EndSession(p, "refused")
       \/ /\ event[call[p].key] # Null
          /\ event[call[p].key].status = "pending"
          /\ sawActive' = [sawActive EXCEPT ![p] =
                             active[event[call[p].key].wallet]]
          /\ Continue(p, IF call[p].kind = "approve" THEN "post" ELSE "commit")
          /\ UNCHANGED <<vars, event, eventLock, today, call, startDay, reply>>

(* Only a pending event is decided. *)
LockEvent(p) ==
    /\ epc[p] = "lockEvent"
    /\ EWaitsFor(p) = {}
    /\ \/ /\ event[call[p].key] = Null
          /\ EndSession(p, "refused")
       \/ /\ event[call[p].key] # Null
          /\ event[call[p].key].status # "pending"
          /\ EndSession(p, "refused")
       \/ /\ event[call[p].key] # Null
          /\ event[call[p].key].status = "pending"
          /\ eventLock' = [eventLock EXCEPT ![call[p].key] = p]
          /\ sawActive' = [sawActive EXCEPT ![p] =
                             active[event[call[p].key].wallet]]
          /\ Continue(p, IF call[p].kind = "approve" THEN "post" ELSE "commit")
          /\ UNCHANGED <<vars, event, today, call, startDay, reply>>

-----------------------------------------------------------------------------
(* Posting, and the commits.                                               *)

EventOf(c) ==
    IF c.kind = "issue" THEN [wallet |-> c.wallet, rule |-> c.rule]
    ELSE [wallet |-> event[c.key].wallet, rule |-> event[c.key].rule]

(* LedgerService.earn: an immediate event posts under its own key, an      *)
(* approved one under a key made from its id.                              *)
EarnCall(c) ==
    EarnOf(IF c.kind = "issue" THEN c.key ELSE ApprovalKey[c.key],
           EventOf(c).wallet, EventOf(c).rule)

CallEarn(p) ==
    /\ epc[p] = "post" /\ pc[p] = "idle"
    /\ \/ /\ ~sawActive[p]
          /\ EndSession(p, "refused")
       \/ /\ sawActive[p]
          /\ req' = [req EXCEPT ![p] = EarnCall(call[p])]
          /\ Goto(p, "existingKey")
          /\ outcome' = [outcome EXCEPT ![p] = "none"]
          /\ UNCHANGED <<store, active, locks, creditSum, row, evars>>

Post(p) ==
    /\ epc[p] = "post"
    /\ ExistingKey(p) \/ InsertRow(p) \/ InsertEntries(p)
    /\ \/ /\ pc'[p] = "idle"
          /\ Answer(p, "refused")
          /\ UNCHANGED <<event, today>>
       \/ /\ pc'[p] # "idle"
          /\ Continue(p, IF pc'[p] = "commit" THEN "commit" ELSE "post")
          /\ UNCHANGED <<event, eventLock, today, call, startDay, sawActive,
                         reply>>

(* Mutant: an event that needs approval is issued as posted. *)
EventIssuedPosted(p) ==
    [wallet |-> call[p].wallet, rule |-> call[p].rule, day |-> startDay[p],
     tx |-> IF pc[p] = "commit" THEN req[p].key ELSE Null, status |-> "posted"]

EventIssued(p) ==
    [wallet |-> call[p].wallet, rule |-> call[p].rule, day |-> startDay[p],
     tx |-> IF pc[p] = "commit" THEN req[p].key ELSE Null,
     status |-> IF pc[p] = "commit" THEN "posted" ELSE "pending"]

EventDecided(p) ==
    IF call[p].kind = "approve"
    THEN [event[call[p].key] EXCEPT !.status = "posted", !.tx = req[p].key]
    ELSE [event[call[p].key] EXCEPT !.status = "rejected"]

CommitEvent(p) ==
    /\ epc[p] = "commit"
    /\ event' = [event EXCEPT ![call[p].key] =
                   IF call[p].kind = "issue" THEN EventIssued(p)
                                             ELSE EventDecided(p)]
    /\ IF pc[p] = "commit" THEN Commit(p) ELSE Rollback(p, "none")
    /\ Answer(p, "event")
    /\ UNCHANGED today

-----------------------------------------------------------------------------
(* Everything else that runs.                                              *)

(* The ledger calls that do not come from here. *)
StartLedgerCall(p) ==
    /\ epc[p] = "none"
    /\ Begin(p) /\ req'[p].op # "earn"
    /\ reply' = [reply EXCEPT ![p] = "none"]
    /\ UNCHANGED <<event, eventLock, today, epc, call, startDay, sawActive>>

PlainLedger(p) ==
    /\ epc[p] = "none"
    /\ \/ RequireActive(p) \/ LockAccount(p) \/ SumCredits(p) \/ SumDebits(p)
       \/ ReversalKey(p) \/ LockOriginal(p) \/ ExistingKey(p) \/ InsertRow(p)
       \/ InsertEntries(p)
    /\ UNCHANGED evars

(* Mutant: a reversal leaves the event posted. *)
CommitLedgerNoCascade(p) ==
    /\ epc[p] = "none"
    /\ Commit(p)
    /\ UNCHANGED evars

(* The reversal of an earn marks its event. *)
CommitLedger(p) ==
    /\ epc[p] = "none"
    /\ Commit(p)
    /\ event' = [k \in Keys |->
          IF event[k] # Null /\ MarksOriginal(p) /\ event[k].tx = req[p].original
          THEN [event[k] EXCEPT !.status = "reversed"] ELSE event[k]]
    /\ UNCHANGED <<eventLock, today, epc, call, startDay, sawActive, reply>>

Dies(p) ==
    /\ epc[p] # "none" \/ pc[p] # "idle"
    /\ Rollback(p, "lost")
    /\ Answer(p, "lost")
    /\ UNCHANGED <<event, today>>

NextDay ==
    /\ today < LastDay
    /\ today' = today + 1
    /\ UNCHANGED <<vars, event, eventLock, epc, call, startDay, sawActive, reply>>

FreezeWallet(w) ==
    /\ SetWalletStatus(w)
    /\ UNCHANGED evars

CallStep(p) ==
    \/ FindEvent(p) \/ LockWallet(p) \/ FindAgain(p) \/ CheckDaily(p)
    \/ CheckWeekly(p) \/ InsertEvent(p) \/ Raced(p) \/ LockEvent(p)
    \/ CallEarn(p) \/ Post(p) \/ CommitEvent(p)
    \/ PlainLedger(p) \/ CommitLedger(p)

ENext ==
    \/ \E p \in Workers : StartCall(p) \/ StartLedgerCall(p) \/ CallStep(p)
                          \/ Dies(p)
    \/ NextDay
    \/ \E w \in Wallets : FreezeWallet(w)

ESpec == EInit /\ [][ENext]_<<vars, evars>>

EFairness == \A p \in Workers : SF_<<vars, evars>>(CallStep(p))
EFairSpec == ESpec /\ EFairness

-----------------------------------------------------------------------------
(* Properties.                                                             *)

Counting(w, r) ==
    {k \in Keys : /\ event[k] # Null
                  /\ event[k].wallet = w /\ event[k].rule = r
                  /\ event[k].status \in {"pending", "posted"}}

(* No student is rewarded beyond the daily or the weekly limit of a rule,  *)
(* by any number of staff at once, across rejections and reversals that    *)
(* free quota: at most that many events of a day, or a week, are in force. *)
LimitsKept ==
    \A w \in Wallets, r \in Rules, d \in Days :
        /\ DailyLimit[r] # Null =>
             Cardinality({k \in Counting(w, r) : event[k].day = d})
                <= DailyLimit[r]
        /\ WeeklyLimit[r] # Null =>
             Cardinality({k \in Counting(w, r) :
                            WeekStart(event[k].day) = WeekStart(d)})
                <= WeeklyLimit[r]

EarnsOf(k) == {j \in {k, ApprovalKey[k]} :
                 ledger[j] # Null /\ ledger[j].type = "earn"}

(* An event is posted exactly when the ledger holds its one earn, of its   *)
(* amount, on its student's account, reversed if the earn is; pending and  *)
(* rejected events have moved nothing, and no earn is without event.       *)
PostedOnce ==
    /\ \A k \in Keys : event[k] # Null =>
         /\ event[k].tx = Null <=> event[k].status \in {"pending", "rejected"}
         /\ EarnsOf(k) = {event[k].tx} \ {Null}
         /\ event[k].tx # Null =>
              /\ ledger[event[k].tx].credit = event[k].wallet
              /\ ledger[event[k].tx].amount = TokenAmount[event[k].rule]
              /\ ledger[event[k].tx].status = event[k].status
    /\ \A j \in Keys : ledger[j] # Null /\ ledger[j].type = "earn" =>
         \E k \in Keys : event[k] # Null /\ event[k].tx = j

(* A decision stands: approving and rejecting at once, or twice, never     *)
(* turns a posted event into a rejected one or back.                       *)
DecidedOnce ==
    [][\A k \in Keys : event[k] # Null /\ event'[k] # event[k] =>
        <<event[k].status, event'[k].status>> \in
            {<<"pending", "posted">>, <<"pending", "rejected">>,
             <<"posted", "reversed">>}]_<<vars, evars>>

(* A retry of issue_reward that runs beside the first attempt is answered  *)
(* with its event, and not with the limit that event has used up.          *)
RetryReturnsEvent ==
    [][\A p \in Workers :
            /\ epc[p] # "none" /\ epc'[p] = "none"
            /\ call[p].kind = "issue"
            /\ event[call[p].key] # Null
            /\ event[call[p].key].wallet = call[p].wallet
            => reply'[p] \in {"event", "lost"}]_<<vars, evars>>

(* Every call is answered; in particular issues, decisions and reversals   *)
(* never wait for each other in a circle, which only the deadlock detector *)
(* could break.                                                            *)
EveryCallAnswered ==
    \A p \in Workers : (epc[p] # "none" \/ pc[p] # "idle")
                            ~> (epc[p] = "none" /\ pc[p] = "idle")
=============================================================================
