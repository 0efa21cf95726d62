------------------------- MODULE WeeklyBonusProofs -------------------------
(***************************************************************************)
(* The bonus job pays for enough posted days and for nothing else, passes  *)
(* over nobody who deserves the bonus, waits in no circle and overdraws    *)
(* nobody, whatever staff, other runs and reversals do beside it, for any  *)
(* number of workers, students, keys, rules and days.                      *)
(***************************************************************************)
EXTENDS WeeklyBonus, ReversalProofs

IssueStatements == {"findEvent", "lockWallet", "findAgain", "checkDaily",
                    "checkWeekly", "insertEvent", "raced"}
Posting == {"post", "commit"}

(* The key under which a call posts. *)
LedgerKey(c) == IF c.kind = "issue" THEN c.key ELSE ApprovalKey[c.key]

(* A worker is at a statement of the call it serves, and of the request it *)
(* makes of the ledger.                                                    *)
Ready(p) ==
    /\ req[p] = Null <=> pc[p] = "idle"
    /\ epc[p] = "none" <=> call[p] = Null
    /\ epc[p] \notin {"none", "post", "commit"} => pc[p] = "idle"
    /\ epc[p] = "none" /\ req[p] # Null => req[p] \in Requests /\ req[p].op # "earn"
    /\ epc[p] \in Posting /\ req[p] # Null =>
         /\ req[p].op = "earn" /\ req[p].key = LedgerKey(call[p])
         /\ call[p].kind = "issue" => req[p].amount = TokenAmount[call[p].rule]
    /\ epc[p] \in IssueStatements => call[p].kind = "issue"
    /\ epc[p] = "lockEvent" => call[p].kind # "issue"
    /\ epc[p] = "commit" /\ call[p].kind = "approve" => pc[p] = "commit"

(* What an issue has not found stays absent, and what a decision has found *)
(* pending stays pending, until they commit; an issue has lost a race to   *)
(* an event.                                                               *)
KeepsEvent(p) ==
    /\ epc[p] \in Posting =>
        IF call[p].kind = "issue" THEN event[call[p].key] = Null
        ELSE /\ eventLock[call[p].key] = p
             /\ event[call[p].key] # Null
             /\ event[call[p].key].status = "pending"
    /\ epc[p] = "raced" => event[call[p].key] # Null

Told(e) == e.tx = Null <=> e.status \in {"pending", "rejected"}
EventsTold == \A k \in Keys : event[k] # Null => Told(event[k])

OneInserter ==
    \A p, q \in Workers, k \in Keys :
        HoldsEventKey(p, k) /\ HoldsEventKey(q, k) => p = q

Typed ==
    /\ event \in [Keys -> EventType \cup {Null}]
    /\ eventLock \in [Keys -> Workers \cup {Null}]
    /\ today \in Days
    /\ epc \in [Workers -> EventStatements]
    /\ call \in [Workers -> CallType \cup {Null}]
    /\ startDay \in [Workers -> Days]
    /\ sawActive \in [Workers -> BOOLEAN]
    /\ reply \in [Workers -> {"none", "event", "refused", "lost"}]
    /\ active \in [Wallets -> BOOLEAN]
    /\ pc \in [Workers -> Statements]
    /\ req \in [Workers -> RequestType \cup {Null}]

EventsInvariant ==
    /\ Typed
    /\ \A p \in Workers : Ready(p) /\ KeepsEvent(p)
    /\ EventsTold
    /\ OneInserter

-----------------------------------------------------------------------------
(* Steps.                                                                  *)

(* What a step of p leaves of the other sessions.                          *)
Elsewhere(p) ==
    \A q \in Workers \ {p} :
        /\ epc'[q] = epc[q] /\ call'[q] = call[q]
        /\ pc'[q] = pc[q] /\ req'[q] = req[q]
        /\ \A k \in Keys : eventLock[k] = q => eventLock'[k] = q
        /\ epc[q] \in Posting => event'[call[q].key] = event[call[q].key]

(* No event is lost or counted less for a step.                            *)
EventsGrow ==
    \A k \in Keys : event[k] # Null =>
        /\ event'[k] # Null
        /\ event'[k].wallet = event[k].wallet /\ event'[k].rule = event[k].rule
        /\ event'[k].day = event[k].day
        /\ event[k].status \in {"posted", "reversed"}
              => event'[k].status \in {"posted", "reversed"}

LEMMA CallTyped ==
    ASSUME EventsInvariant, NEW p \in Workers, call[p] # Null
    PROVE  /\ call[p] \in CallType
           /\ call[p].kind \in {"issue", "approve", "reject"}
           /\ call[p].key \in Keys /\ call[p].wallet \in Wallets
           /\ call[p].rule \in Rules
BY DEF EventsInvariant, Typed, CallType

LEMMA EventTyped ==
    ASSUME EventsInvariant, NEW k \in Keys, event[k] # Null
    PROVE  /\ event[k] \in EventType
           /\ event[k].wallet \in Wallets /\ event[k].rule \in Rules
           /\ event[k].day \in Days /\ event[k].tx \in Keys \cup {Null}
           /\ event[k].status \in {"pending", "posted", "rejected", "reversed"}
BY DEF EventsInvariant, Typed, EventType

(* The other sessions survive a step that leaves them alone.               *)
LEMMA OthersReady ==
    ASSUME EventsInvariant, NEW p \in Workers, Elsewhere(p), EventsGrow,
           NEW q \in Workers \ {p}
    PROVE  Ready(q)' /\ KeepsEvent(q)'
<1>1. Ready(q) /\ KeepsEvent(q)
  BY DEF EventsInvariant
<1>2. Ready(q)'
  BY <1>1 DEF Ready, Elsewhere, LedgerKey
<1>3. ASSUME epc[q] \in Posting \/ epc[q] = "raced"
      PROVE  KeepsEvent(q)'
  <2>1. call[q] # Null
    BY <1>1, <1>3 DEF Ready, Posting
  <2>2. PICK k \in Keys : k = call[q].key
    BY <2>1, CallTyped
  <2> QED BY <1>1, <1>3, <2>2 DEF KeepsEvent, Elsewhere, EventsGrow
<1>4. epc[q] \notin Posting \cup {"raced"} => KeepsEvent(q)'
  BY DEF KeepsEvent, Elsewhere
<1> QED BY <1>2, <1>3, <1>4

(* A step without a commit: types, p itself, and no second inserter.       *)
LEMMA NoCommit ==
    ASSUME EventsInvariant, NEW p \in Workers, Elsewhere(p), Typed',
           event' = event, Ready(p)', KeepsEvent(p)',
           epc'[p] \in Posting /\ call'[p].kind = "issue" =>
              \/ epc[p] \in Posting /\ call'[p] = call[p]
              \/ \A q \in Workers \ {p} : ~HoldsEventKey(q, call[p].key)
                                          /\ call'[p] = call[p]
    PROVE  EventsInvariant' /\ EventsGrow
<1>1. EventsGrow
  BY DEF EventsGrow
<1>2. EventsTold'
  BY DEF EventsInvariant, EventsTold
<1>3. \A q \in Workers : Ready(q)' /\ KeepsEvent(q)'
  BY <1>1, OthersReady
<1>4. ASSUME NEW q \in Workers, NEW r \in Workers, NEW k \in Keys,
             HoldsEventKey(q, k)', HoldsEventKey(r, k)', q # r
      PROVE  FALSE
  <2>1. \A s \in Workers \ {p} : HoldsEventKey(s, k)' => HoldsEventKey(s, k)
    BY DEF HoldsEventKey, Elsewhere
  <2>2. q # p /\ r # p => FALSE
    BY <1>4, <2>1 DEF EventsInvariant, OneInserter
  <2>3. ASSUME NEW s \in Workers \ {p}, HoldsEventKey(p, k)', HoldsEventKey(s, k)'
        PROVE  FALSE
    <3>1. HoldsEventKey(s, k)
      BY <2>1, <2>3
    <3>2. epc'[p] \in Posting /\ call'[p].kind = "issue" /\ call'[p].key = k
      BY <2>3 DEF HoldsEventKey, Posting
    <3>3. CASE epc[p] \in Posting /\ call'[p] = call[p]
      BY <3>1, <3>2, <3>3 DEF EventsInvariant, OneInserter, HoldsEventKey, Posting
    <3>4. CASE \A t \in Workers \ {p} : ~HoldsEventKey(t, call[p].key)
                                        /\ call'[p] = call[p]
      BY <3>1, <3>2, <3>4
    <3> QED BY <3>2, <3>3, <3>4
  <2> QED BY <1>4, <2>2, <2>3
<1>5. OneInserter'
  BY <1>4 DEF OneInserter
<1> QED BY <1>1, <1>2, <1>3, <1>5 DEF EventsInvariant

-----------------------------------------------------------------------------
(* The statements of a session.                                            *)

(* What a statement of a call, or of a plain ledger request, may do.       *)
Stepped(p) ==
    /\ EventsInvariant' /\ EventsGrow /\ Elsewhere(p)
    /\ call'[p] \in {call[p], Null}
    /\ call[p] # Null /\ call'[p] = Null => pc'[p] = "idle"
    /\ \A k \in Keys : event[k] = Null /\ event'[k] # Null =>
          call[p] # Null /\ call[p].kind = "issue" /\ call[p].key = k

Replies == {"none", "event", "refused", "lost"}

(* The session ends, and commits nothing.                                  *)
Ends(p) ==
    /\ pc' = [pc EXCEPT ![p] = "idle"]
    /\ req' = [req EXCEPT ![p] = Null]
    /\ UNCHANGED <<active, event, today>>
    /\ \E a \in Replies : Answer(p, a)

LEMMA DayZero == 0 \in Days
BY EarningAssumption DEF Days

LEMMA AnswerTyped ==
    ASSUME EventsInvariant, NEW p \in Workers, NEW a \in Replies, Answer(p, a)
    PROVE  /\ eventLock' \in [Keys -> Workers \cup {Null}]
           /\ epc' \in [Workers -> EventStatements]
           /\ call' \in [Workers -> CallType \cup {Null}]
           /\ startDay' \in [Workers -> Days]
           /\ sawActive' \in [Workers -> BOOLEAN]
           /\ reply' \in [Workers -> Replies]
           /\ epc'[p] = "none" /\ call'[p] = Null
           /\ \A q \in Workers \ {p} :
                 /\ epc'[q] = epc[q] /\ call'[q] = call[q]
                 /\ \A k \in Keys : eventLock[k] = q => eventLock'[k] = q
<1> USE DEF EventsInvariant, Typed
<1>1. /\ eventLock' \in [Keys -> Workers \cup {Null}]
      /\ \A q \in Workers \ {p} : \A k \in Keys :
             eventLock[k] = q => eventLock'[k] = q
  BY DEF Answer
<1>2. /\ epc' \in [Workers -> EventStatements] /\ epc'[p] = "none"
      /\ \A q \in Workers \ {p} : epc'[q] = epc[q]
  BY DEF Answer, Continue, EventStatements
<1>3. /\ call' \in [Workers -> CallType \cup {Null}] /\ call'[p] = Null
      /\ \A q \in Workers \ {p} : call'[q] = call[q]
  BY DEF Answer
<1>4. startDay' \in [Workers -> Days] /\ sawActive' \in [Workers -> BOOLEAN]
  BY DayZero DEF Answer
<1>5. reply' \in [Workers -> Replies]
  BY DEF Answer, Replies
<1> QED BY <1>1, <1>2, <1>3, <1>4, <1>5

LEMMA EndStep ==
    ASSUME EventsInvariant, NEW p \in Workers, Ends(p)
    PROVE  Stepped(p)
<1>1. PICK a \in Replies : Answer(p, a)
  BY DEF Ends
<1>2. /\ pc' \in [Workers -> Statements] /\ pc'[p] = "idle"
      /\ req' \in [Workers -> RequestType \cup {Null}] /\ req'[p] = Null
      /\ \A q \in Workers \ {p} : pc'[q] = pc[q] /\ req'[q] = req[q]
  BY DEF Ends, EventsInvariant, Typed, Statements
<1>3. Typed'
  BY <1>1, <1>2, AnswerTyped DEF Ends, EventsInvariant, Typed, Replies
<1>4. Elsewhere(p)
  BY <1>1, <1>2, AnswerTyped DEF Ends, Elsewhere
<1>5. Ready(p)' /\ KeepsEvent(p)' /\ epc'[p] \notin Posting
  BY <1>1, <1>2, AnswerTyped DEF Ready, KeepsEvent, Posting, IssueStatements
<1>6. event' = event
  BY DEF Ends
<1>7. EventsInvariant' /\ EventsGrow
  BY <1>3, <1>4, <1>5, <1>6, NoCommit
<1> QED BY <1>1, <1>2, <1>4, <1>6, <1>7, AnswerTyped DEF Stepped

LEMMA RollbackEnds ==
    ASSUME NEW p \in Workers, NEW a \in Replies, NEW b,
           Rollback(p, b), Answer(p, a), UNCHANGED <<event, today>>
    PROVE  Ends(p)
BY DEF Rollback, EndTransaction, Ends

LEMMA EndSessionEnds ==
    ASSUME NEW p \in Workers, NEW a \in Replies, EndSession(p, a)
    PROVE  Ends(p)
BY RollbackEnds DEF EndSession

(* The session goes on to the statement s; the ledger is not asked.        *)
Moves(p, s) ==
    /\ Continue(p, s)
    /\ UNCHANGED <<active, event, eventLock, today, call, startDay, reply, pc, req>>
    /\ sawActive' \in [Workers -> BOOLEAN]

LEMMA MoveStep ==
    ASSUME EventsInvariant, NEW p \in Workers, NEW s \in EventStatements,
           Moves(p, s), s \in IssueStatements \cup {"post", "commit"},
           epc[p] \in IssueStatements,
           s \in Posting => /\ event[call[p].key] = Null
                            /\ \A q \in Workers \ {p} :
                                  ~HoldsEventKey(q, call[p].key),
           s = "raced" => event[call[p].key] # Null
    PROVE  Stepped(p)
<1>1. /\ epc' \in [Workers -> EventStatements] /\ epc'[p] = s
      /\ \A q \in Workers \ {p} : epc'[q] = epc[q]
  BY DEF Moves, Continue, EventsInvariant, Typed
<1>2. Typed'
  BY <1>1 DEF Moves, EventsInvariant, Typed
<1>3. Elsewhere(p)
  BY <1>1 DEF Moves, Elsewhere
<1>4. /\ Ready(p) /\ call[p] # Null /\ call[p].kind = "issue"
      /\ req[p] = Null /\ pc[p] = "idle"
  BY DEF EventsInvariant, Ready, IssueStatements
<1>5. Ready(p)'
  BY <1>1, <1>4 DEF Ready, Moves, IssueStatements, Posting
<1>6. PICK k \in Keys : k = call[p].key
  BY <1>4, CallTyped
<1>7. KeepsEvent(p)'
  BY <1>1, <1>4, <1>6 DEF KeepsEvent, Moves, Posting
<1>8. epc'[p] \in Posting =>
        \A q \in Workers \ {p} : ~HoldsEventKey(q, call[p].key) /\ call'[p] = call[p]
  BY <1>1 DEF Moves
<1>9. event' = event /\ call' = call
  BY DEF Moves
<1>10. EventsInvariant' /\ EventsGrow
  BY <1>2, <1>3, <1>5, <1>7, <1>8, <1>9, NoCommit
<1> QED BY <1>3, <1>4, <1>9, <1>10 DEF Stepped

(* A worker at a statement of issue_reward before the flush of its event.  *)
LEMMA AtIssue ==
    ASSUME EventsInvariant, NEW p \in Workers, epc[p] \in IssueStatements
    PROVE  /\ call[p] # Null /\ call[p].kind = "issue"
           /\ call[p].key \in Keys /\ call[p].wallet \in Wallets
           /\ req[p] = Null /\ pc[p] = "idle"
<1>1. Ready(p)
  BY DEF EventsInvariant
<1>2. call[p] # Null /\ call[p].kind = "issue" /\ req[p] = Null /\ pc[p] = "idle"
  BY <1>1 DEF Ready, IssueStatements
<1> QED BY <1>2, CallTyped

LEMMA ReturnsEnds ==
    ASSUME EventsInvariant, NEW p \in Workers, epc[p] \in IssueStatements, Returns(p)
    PROVE  Ends(p)
BY AtIssue DEF Returns, Ends, Replies, vars, local, EventsInvariant, Typed

Going(p) == \E s \in {"lockWallet", "findAgain", "checkDaily", "checkWeekly",
                      "insertEvent"} : Moves(p, s)

LEMMA GoesOn ==
    ASSUME EventsInvariant, NEW p \in Workers, epc[p] \in IssueStatements,
           Ends(p) \/ Going(p)
    PROVE  Stepped(p)
<1>1. ASSUME NEW s \in {"lockWallet", "findAgain", "checkDaily", "checkWeekly",
                        "insertEvent"}, Moves(p, s)
      PROVE  Stepped(p)
  BY <1>1, MoveStep DEF EventStatements, IssueStatements, Posting
<1> QED BY <1>1, EndStep DEF Going

LEMMA LooksUp ==
    ASSUME EventsInvariant, NEW p \in Workers,
           FindEvent(p) \/ FindAgain(p) \/ JobFindAgain(p) \/ CheckDaily(p)
           \/ CheckWeekly(p) \/ Raced(p) \/ LockWallet(p)
    PROVE  Stepped(p)
<1>1. epc[p] \in IssueStatements
  BY DEF FindEvent, FindAgain, JobFindAgain, CheckDaily, CheckWeekly, Raced,
     LockWallet, IssueStatements
<1>2. call[p].wallet \in Wallets /\ sawActive \in [Workers -> BOOLEAN]
      /\ active \in [Wallets -> BOOLEAN]
  BY <1>1, AtIssue DEF EventsInvariant, Typed
<1>3. FindEvent(p) => Ends(p) \/ Going(p)
  BY <1>2, EndSessionEnds DEF FindEvent, Going, Moves, vars, local, Replies
<1>4. FindAgain(p) => Ends(p) \/ Going(p)
  BY <1>2, EndSessionEnds DEF FindAgain, Going, Moves, vars, local, Replies
<1>5. JobFindAgain(p) => Ends(p) \/ Going(p)
  BY <1>1, <1>4, ReturnsEnds DEF JobFindAgain
<1>6. CheckDaily(p) => Ends(p) \/ Going(p)
  BY <1>2, EndSessionEnds DEF CheckDaily, CheckLimit, Going, Moves, vars, local, Replies
<1>7. CheckWeekly(p) => Ends(p) \/ Going(p)
  BY <1>2, EndSessionEnds DEF CheckWeekly, CheckLimit, Going, Moves, vars, local, Replies
<1>8. Raced(p) => Ends(p)
  BY EndSessionEnds DEF Raced, Replies
<1>9. LockWallet(p) => Going(p)
  BY <1>2 DEF LockWallet, Going, Moves, local
<1> QED BY <1>1, <1>3, <1>4, <1>5, <1>6, <1>7, <1>8, <1>9, GoesOn

LEMMA JobLooksUp ==
    ASSUME EventsInvariant, NEW p \in Workers, JobFindEvent(p), job[p] \in Run
    PROVE  Stepped(p)
<1>1. epc[p] \in IssueStatements
  BY DEF JobFindEvent, IssueStatements
<1>2. call[p].wallet \in Wallets /\ sawActive \in [Workers -> BOOLEAN]
      /\ active \in [Wallets -> BOOLEAN]
  BY <1>1, AtIssue DEF EventsInvariant, Typed
<1>3. (IF job[p].seen = Null THEN active[call[p].wallet]
                             ELSE job[p].seen[call[p].wallet]) \in BOOLEAN
  BY <1>2 DEF Run
<1>4. Ends(p) \/ Going(p)
  BY <1>1, <1>2, <1>3, ReturnsEnds DEF JobFindEvent, Going, Moves, vars, local
<1> QED BY <1>1, <1>4, GoesOn

(* The flush of an event waits for an uncommitted one under its key.       *)
LEMMA InsertEventStep ==
    ASSUME EventsInvariant, NEW p \in Workers, InsertEvent(p)
    PROVE  Stepped(p)
<1>1. epc[p] \in IssueStatements /\ epc[p] = "insertEvent"
  BY DEF InsertEvent, IssueStatements
<1>2. \A q \in Workers \ {p} : ~HoldsEventKey(q, call[p].key)
  BY <1>1 DEF InsertEvent, EWaitsFor
<1>3. sawActive \in [Workers -> BOOLEAN] /\ pc \in [Workers -> Statements]
      /\ req \in [Workers -> RequestType \cup {Null}]
  BY DEF EventsInvariant, Typed
<1>4. pc[p] = "idle" /\ req[p] = Null
  BY <1>1, AtIssue
<1>5. CASE event[call[p].key] # Null
  <2>1. Moves(p, "raced")
    BY <1>1, <1>3, <1>4, <1>5 DEF InsertEvent, Moves, Rollback, EndTransaction
  <2> QED BY <1>1, <1>5, <2>1, MoveStep DEF EventStatements, IssueStatements, Posting
<1>6. CASE event[call[p].key] = Null
  <2>1. Moves(p, "post") \/ Moves(p, "commit")
    BY <1>1, <1>3, <1>6 DEF InsertEvent, Moves, vars, local
  <2> QED BY <1>1, <1>2, <1>6, <2>1, MoveStep DEF EventStatements
<1> QED BY <1>5, <1>6

(* Only a pending event that nobody else decides is taken.                 *)
LEMMA LockEventStep ==
    ASSUME EventsInvariant, NEW p \in Workers, LockEvent(p)
    PROVE  Stepped(p)
<1>1. epc[p] = "lockEvent" /\ EWaitsFor(p) = {}
  BY DEF LockEvent
<1>2. /\ Ready(p) /\ call[p] # Null /\ call[p].kind # "issue"
      /\ pc[p] = "idle" /\ req[p] = Null
  BY <1>1 DEF EventsInvariant, Ready
<1>3. PICK k \in Keys : k = call[p].key
  BY <1>2, CallTyped
<1>4. CASE EndSession(p, "refused")
  BY <1>4, EndSessionEnds, EndStep DEF Replies
<1>5. CASE ~EndSession(p, "refused")
  <2>1. /\ event[k] # Null /\ event[k].status = "pending"
        /\ eventLock' = [eventLock EXCEPT ![k] = p]
        /\ sawActive' = [sawActive EXCEPT ![p] = active[event[k].wallet]]
        /\ Continue(p, IF call[p].kind = "approve" THEN "post" ELSE "commit")
        /\ UNCHANGED <<vars, event, today, call, startDay, reply>>
    BY <1>3, <1>5 DEF LockEvent
  <2>2. \A q \in Workers \ {p} : eventLock[k] # q
    BY <1>1, <1>3 DEF EWaitsFor
  <2>3. active[event[k].wallet] \in BOOLEAN
    BY <2>1, EventTyped DEF EventsInvariant, Typed
  <2>4. /\ epc' \in [Workers -> EventStatements] /\ epc'[p] \in Posting
        /\ epc'[p] = "commit" => call[p].kind # "approve"
        /\ \A q \in Workers \ {p} : epc'[q] = epc[q]
    BY <2>1 DEF Continue, EventsInvariant, Typed, EventStatements, Posting
  <2>5. /\ eventLock' \in [Keys -> Workers \cup {Null}] /\ eventLock'[k] = p
        /\ \A q \in Workers \ {p}, j \in Keys :
              eventLock[j] = q => eventLock'[j] = q
    BY <2>1, <2>2 DEF EventsInvariant, Typed
  <2>6. Typed'
    BY <2>1, <2>3, <2>4, <2>5 DEF EventsInvariant, Typed, vars, local
  <2>7. Elsewhere(p)
    BY <2>1, <2>4, <2>5 DEF Elsewhere, vars, local
  <2>8. Ready(p)'
    BY <1>2, <2>1, <2>4 DEF Ready, vars, local, Posting, IssueStatements
  <2>9. KeepsEvent(p)'
    BY <1>2, <1>3, <2>1, <2>4, <2>5 DEF KeepsEvent
  <2>10. EventsInvariant' /\ EventsGrow
    BY <1>2, <2>1, <2>6, <2>7, <2>8, <2>9, NoCommit
  <2> QED BY <1>2, <2>1, <2>7, <2>10 DEF Stepped
<1> QED BY <1>4, <1>5

-----------------------------------------------------------------------------
(* Posting.                                                                *)

LEMMA EarnTyped ==
    ASSUME EventsInvariant, NEW p \in Workers, epc[p] \in Posting
    PROVE  /\ EarnCall(call[p]) \in RequestType /\ EarnCall(call[p]).op = "earn"
           /\ EarnCall(call[p]) \in Requests
           /\ EarnCall(call[p]).key = LedgerKey(call[p])
           /\ call[p].kind = "issue" =>
                EarnCall(call[p]).amount = TokenAmount[call[p].rule]
<1>1. call[p] # Null /\ KeepsEvent(p)
  BY DEF EventsInvariant, Ready, Posting
<1>2. /\ call[p].key \in Keys /\ call[p].wallet \in Wallets /\ call[p].rule \in Rules
      /\ ApprovalKey[call[p].key] \in Keys
  BY <1>1, CallTyped, EarningAssumption
<1>3. EventOf(call[p]).wallet \in Wallets /\ EventOf(call[p]).rule \in Rules
  <2>1. CASE call[p].kind = "issue"
    BY <1>2, <2>1 DEF EventOf
  <2>2. CASE call[p].kind # "issue"
    <3>1. event[call[p].key] # Null
      BY <1>1, <2>2 DEF KeepsEvent
    <3>2. PICK k \in Keys : k = call[p].key
      BY <1>2
    <3> QED BY <2>2, <3>1, <3>2, EventTyped DEF EventOf
  <2> QED BY <2>1, <2>2
<1>4. TokenAmount[EventOf(call[p]).rule] \in Amounts
  BY <1>3, EarningAssumption
<1>5. EarnCall(call[p]) = EarnOf(LedgerKey(call[p]), EventOf(call[p]).wallet,
                                 EventOf(call[p]).rule)
  BY DEF EarnCall, LedgerKey
<1>6. LedgerKey(call[p]) \in Keys
  BY <1>2 DEF LedgerKey
<1>7. call[p].kind = "issue" => EventOf(call[p]).rule = call[p].rule
  BY DEF EventOf
<1> HIDE DEF EarnCall
<1>8. EarnCall(call[p]) \in Requests
  BY <1>3, <1>5, <1>6, BonusAssumption
<1> QED BY <1>3, <1>4, <1>5, <1>6, <1>7, <1>8 DEF EarnOf, RequestType, Ops

(* A posting that goes on keeps its call and its event.                    *)
LEMMA PostingStep ==
    ASSUME EventsInvariant, NEW p \in Workers, epc[p] = "post",
           NEW s \in Statements \ {"idle"}, NEW r \in RequestType,
           r.op = "earn", r.key = LedgerKey(call[p]),
           call[p].kind = "issue" => r.amount = TokenAmount[call[p].rule],
           pc' = [pc EXCEPT ![p] = s], req' = [req EXCEPT ![p] = r],
           epc' = [epc EXCEPT ![p] = IF s = "commit" THEN "commit" ELSE "post"],
           UNCHANGED <<active, event, eventLock, today, call, startDay,
                       sawActive, reply>>
    PROVE  Stepped(p)
<1>1. Ready(p) /\ KeepsEvent(p) /\ call[p] # Null /\ r # Null
  BY NullAssumption DEF EventsInvariant, Ready
<1>2. Typed'
  BY DEF EventsInvariant, Typed, EventStatements
<1>3. Elsewhere(p)
  BY DEF Elsewhere, EventsInvariant, Typed
<1>4. /\ epc'[p] = IF s = "commit" THEN "commit" ELSE "post"
      /\ pc'[p] = s /\ req'[p] = r
  BY DEF EventsInvariant, Typed
<1>5. Ready(p)'
  BY <1>1, <1>4 DEF Ready, IssueStatements, LedgerKey
<1>6. KeepsEvent(p)'
  <2>1. PICK k \in Keys : k = call[p].key
    BY <1>1, CallTyped
  <2> QED BY <1>1, <1>4, <2>1 DEF KeepsEvent, Posting
<1>7. EventsInvariant' /\ EventsGrow
  BY <1>2, <1>3, <1>5, <1>6, NoCommit DEF Posting
<1> QED BY <1>1, <1>3, <1>7 DEF Stepped

LEMMA CallEarnStep ==
    ASSUME EventsInvariant, NEW p \in Workers, CallEarn(p)
    PROVE  Stepped(p)
<1>1. CASE EndSession(p, "refused")
  BY <1>1, EndSessionEnds, EndStep DEF Replies
<1>2. CASE ~EndSession(p, "refused")
  <2>1. /\ req' = [req EXCEPT ![p] = EarnCall(call[p])]
        /\ pc' = [pc EXCEPT ![p] = "existingKey"]
        /\ UNCHANGED <<active, evars>> /\ epc[p] = "post"
    BY <1>2 DEF CallEarn, Goto
  <2>2. epc' = [epc EXCEPT ![p] = "post"]
    BY <2>1 DEF evars, EventsInvariant, Typed
  <2>3. /\ EarnCall(call[p]) \in RequestType /\ EarnCall(call[p]).op = "earn"
        /\ EarnCall(call[p]).key = LedgerKey(call[p])
        /\ call[p].kind = "issue" =>
              EarnCall(call[p]).amount = TokenAmount[call[p].rule]
    BY <2>1, EarnTyped DEF Posting
  <2> QED BY <2>1, <2>2, <2>3, PostingStep DEF evars, Statements
<1> QED BY <1>1, <1>2

(* A statement of the ledger goes on with its request, or rolls back.      *)
LEMMA LedgerMoves ==
    ASSUME EventsInvariant, NEW p \in Workers,
           RequireActive(p) \/ LockAccount(p) \/ SumCredits(p) \/ SumDebits(p)
           \/ ReversalKey(p) \/ LockOriginal(p) \/ ExistingKey(p) \/ InsertRow(p)
           \/ InsertEntries(p)
    PROVE  /\ active' = active /\ pc[p] # "idle"
           /\ \/ /\ pc' = [pc EXCEPT ![p] = "idle"]
                 /\ req' = [req EXCEPT ![p] = Null]
              \/ /\ req' = req
                 /\ \E s \in Statements \ {"idle"} : pc' = [pc EXCEPT ![p] = s]
<1> USE DEF Rollback, EndTransaction, Goto, Statements
<1>1. CASE RequireActive(p) \/ LockAccount(p) \/ SumCredits(p) \/ SumDebits(p)
  BY <1>1 DEF RequireActive, LockAccount, SumCredits, SumDebits
<1>2. CASE ReversalKey(p) \/ LockOriginal(p)
  BY <1>2 DEF ReversalKey, LockOriginal
<1>3. CASE ExistingKey(p)
  BY <1>3 DEF ExistingKey
<1>4. CASE InsertRow(p) \/ InsertEntries(p)
  BY <1>4 DEF InsertRow, InsertEntries
<1> QED BY <1>1, <1>2, <1>3, <1>4

LEMMA PostStep ==
    ASSUME EventsInvariant, NEW p \in Workers, Post(p)
    PROVE  Stepped(p)
<1>1. /\ active' = active /\ pc[p] # "idle" /\ epc[p] = "post"
      /\ \/ /\ pc' = [pc EXCEPT ![p] = "idle"]
            /\ req' = [req EXCEPT ![p] = Null]
         \/ /\ req' = req
            /\ \E s \in Statements \ {"idle"} : pc' = [pc EXCEPT ![p] = s]
  BY LedgerMoves DEF Post
<1>2. CASE pc'[p] = "idle"
  <2>1. /\ pc' = [pc EXCEPT ![p] = "idle"] /\ req' = [req EXCEPT ![p] = Null]
    BY <1>1, <1>2 DEF EventsInvariant, Typed
  <2>2. Answer(p, "refused") /\ UNCHANGED <<event, today>>
    BY <1>2 DEF Post
  <2>3. Ends(p)
    BY <1>1, <2>1, <2>2 DEF Ends, Replies
  <2> QED BY <2>3, EndStep
<1>3. CASE pc'[p] # "idle"
  <2>1. PICK s \in Statements \ {"idle"} :
          pc' = [pc EXCEPT ![p] = s] /\ req' = req
    BY <1>1, <1>3 DEF EventsInvariant, Typed
  <2>2. /\ epc' = [epc EXCEPT ![p] = IF s = "commit" THEN "commit" ELSE "post"]
        /\ UNCHANGED <<event, eventLock, today, call, startDay, sawActive, reply>>
    BY <1>3, <2>1 DEF Post, Continue, EventsInvariant, Typed
  <2>3. /\ req[p] \in RequestType /\ req' = [req EXCEPT ![p] = req[p]]
        /\ req[p].op = "earn" /\ req[p].key = LedgerKey(call[p])
        /\ call[p].kind = "issue" => req[p].amount = TokenAmount[call[p].rule]
    BY <1>1, <2>1 DEF EventsInvariant, Typed, Ready, Posting
  <2> QED BY <1>1, <2>1, <2>2, <2>3, PostingStep
<1> QED BY <1>2, <1>3

-----------------------------------------------------------------------------
(* The commits.                                                            *)

(* What the commit of p writes: the event of its call.                     *)
LEMMA Written ==
    ASSUME EventsInvariant, NEW p \in Workers, CommitEvent(p)
    PROVE  \E k \in Keys, e \in EventType :
             /\ call[p] # Null /\ k = call[p].key /\ Told(e)
             /\ event' = [event EXCEPT ![k] = e]
             /\ IF call[p].kind = "issue" THEN event[k] = Null
                ELSE /\ event[k] # Null /\ event[k].status = "pending"
                     /\ eventLock[k] = p
                     /\ e.wallet = event[k].wallet /\ e.rule = event[k].rule
                     /\ e.day = event[k].day
<1>1. /\ Ready(p) /\ KeepsEvent(p) /\ call[p] # Null /\ epc[p] = "commit"
  BY DEF CommitEvent, EventsInvariant, Ready
<1>2. PICK k \in Keys : k = call[p].key
  BY <1>1, CallTyped
<1>3. pc[p] = "commit" => req[p].key \in Keys /\ req[p].key # Null
  BY <1>1, NullAssumption DEF EventsInvariant, Typed, Ready, RequestType
<1>4. CASE call[p].kind = "issue"
  <2>1. event[k] = Null /\ event' = [event EXCEPT ![k] = EventIssued(p)]
    BY <1>1, <1>2, <1>4 DEF KeepsEvent, Posting, CommitEvent
  <2>2. EventIssued(p) \in EventType /\ Told(EventIssued(p))
    BY <1>1, <1>3, CallTyped DEF EventIssued, EventType, Told, EventsInvariant, Typed
  <2> QED BY <1>1, <1>2, <1>4, <2>1, <2>2
<1>5. CASE call[p].kind # "issue"
  <2>1. /\ event[k] # Null /\ event[k].status = "pending" /\ eventLock[k] = p
        /\ event' = [event EXCEPT ![k] = EventDecided(p)]
    BY <1>1, <1>2, <1>5 DEF KeepsEvent, Posting, CommitEvent
  <2>2. event[k] \in EventType /\ Told(event[k])
    BY <2>1, EventTyped DEF EventsInvariant, EventsTold
  <2>3. call[p].kind = "approve" => pc[p] = "commit"
    BY <1>1 DEF Ready
  <2>4. /\ EventDecided(p) \in EventType /\ Told(EventDecided(p))
        /\ EventDecided(p).wallet = event[k].wallet
        /\ EventDecided(p).rule = event[k].rule
        /\ EventDecided(p).day = event[k].day
    <3>1. CASE call[p].kind = "approve"
      BY <1>2, <1>3, <2>1, <2>2, <2>3, <3>1 DEF EventDecided, EventType, Told
    <3>2. CASE call[p].kind # "approve"
      BY <1>2, <2>1, <2>2, <3>2 DEF EventDecided, EventType, Told
    <3> QED BY <3>1, <3>2
  <2> QED BY <1>1, <1>2, <1>5, <2>1, <2>4
<1> QED BY <1>4, <1>5

(* The session of p is over after its commit.                              *)
LEMMA CommitsAnswered ==
    ASSUME EventsInvariant, NEW p \in Workers, NEW a \in Replies, Answer(p, a),
           Typed', Elsewhere(p), EventsGrow, EventsTold',
           pc'[p] = "idle", req'[p] = Null
    PROVE  EventsInvariant'
<1>1. epc'[p] = "none" /\ call'[p] = Null
  BY AnswerTyped
<1>2. Ready(p)' /\ KeepsEvent(p)'
  BY <1>1 DEF Ready, KeepsEvent, Posting, IssueStatements
<1>3. \A q \in Workers : Ready(q)' /\ KeepsEvent(q)'
  BY <1>2, OthersReady
<1>4. \A q \in Workers, k \in Keys : HoldsEventKey(q, k)' => HoldsEventKey(q, k)
  BY <1>1 DEF HoldsEventKey, Elsewhere
<1>5. OneInserter'
  BY <1>4 DEF EventsInvariant, OneInserter
<1> QED BY <1>3, <1>5 DEF EventsInvariant

LEMMA EndTyped ==
    ASSUME EventsInvariant, NEW p \in Workers, NEW a, EndTransaction(p, a)
    PROVE  /\ pc' \in [Workers -> Statements] /\ pc'[p] = "idle"
           /\ req' \in [Workers -> RequestType \cup {Null}] /\ req'[p] = Null
           /\ \A q \in Workers \ {p} : pc'[q] = pc[q] /\ req'[q] = req[q]
BY DEF EndTransaction, EventsInvariant, Typed, Statements

(* Nobody else counts on the event that a commit writes: an issue alone    *)
(* has inserted it, a decision alone holds it.                             *)
LEMMA CommitEventStep ==
    ASSUME EventsInvariant, NEW p \in Workers, CommitEvent(p)
    PROVE  Stepped(p)
<1>1. PICK k \in Keys, e \in EventType :
        /\ call[p] # Null /\ k = call[p].key /\ Told(e)
        /\ event' = [event EXCEPT ![k] = e]
        /\ IF call[p].kind = "issue" THEN event[k] = Null
           ELSE /\ event[k] # Null /\ event[k].status = "pending"
                /\ eventLock[k] = p
                /\ e.wallet = event[k].wallet /\ e.rule = event[k].rule
                /\ e.day = event[k].day
  BY Written
<1>2. "event" \in Replies /\ Answer(p, "event") /\ active' = active /\ today' = today
  BY DEF CommitEvent, Replies, Commit, Rollback
<1>3. \E a : EndTransaction(p, a)
  BY DEF CommitEvent, Commit, Rollback
<1>4. /\ pc' \in [Workers -> Statements] /\ pc'[p] = "idle"
      /\ req' \in [Workers -> RequestType \cup {Null}] /\ req'[p] = Null
      /\ \A q \in Workers \ {p} : pc'[q] = pc[q] /\ req'[q] = req[q]
  BY <1>3, EndTyped
<1>5. Typed'
  BY <1>1, <1>2, <1>4, AnswerTyped DEF EventsInvariant, Typed, Replies
<1>6. \A j \in Keys : event'[j] = IF j = k THEN e ELSE event[j]
  BY <1>1 DEF EventsInvariant, Typed
<1>7. e # Null
  BY EarningAssumption
<1>8. ASSUME NEW q \in Workers \ {p}, epc[q] \in Posting
      PROVE  call[q].key # k
  <2>1. KeepsEvent(q)
    BY DEF EventsInvariant
  <2>2. CASE call[p].kind = "issue"
    <3>1. HoldsEventKey(p, k)
      BY <1>1, <2>2 DEF HoldsEventKey, CommitEvent
    <3>2. CASE call[q].kind = "issue"
      BY <1>8, <3>1, <3>2 DEF HoldsEventKey, EventsInvariant, OneInserter, Posting
    <3>3. CASE call[q].kind # "issue"
      BY <1>1, <1>8, <2>1, <2>2, <3>3 DEF KeepsEvent
    <3> QED BY <3>2, <3>3
  <2>3. CASE call[p].kind # "issue"
    BY <1>1, <1>8, <2>1, <2>3 DEF KeepsEvent
  <2> QED BY <2>2, <2>3
<1>9. \A q \in Workers \ {p} : epc[q] \in Posting =>
        event'[call[q].key] = event[call[q].key]
  <2>1. \A q \in Workers \ {p} : epc[q] \in Posting => call[q] # Null
    BY DEF EventsInvariant, Ready, Posting
  <2> QED BY <1>6, <1>8, <2>1, CallTyped
<1>10. Elsewhere(p)
  BY <1>2, <1>4, <1>9, AnswerTyped DEF Elsewhere
<1>11. EventsGrow
  BY <1>1, <1>6, <1>7 DEF EventsGrow
<1>12. EventsTold'
  BY <1>1, <1>6 DEF EventsInvariant, EventsTold
<1>13. EventsInvariant'
  BY <1>2, <1>4, <1>5, <1>10, <1>11, <1>12, CommitsAnswered
<1> QED BY <1>1, <1>2, <1>4, <1>6, <1>10, <1>11, <1>13, AnswerTyped DEF Stepped

(* A reversal marks events that have a transaction: none is pending.       *)
LEMMA CommitLedgerStep ==
    ASSUME EventsInvariant, NEW p \in Workers, CommitLedger(p)
    PROVE  Stepped(p)
<1>1. /\ epc[p] = "none" /\ call[p] = Null /\ req[p] # Null /\ pc[p] = "commit"
  BY DEF CommitLedger, Commit, EventsInvariant, Ready
<1>2. req[p].original \in Keys /\ req[p].original # Null
  BY <1>1, NullAssumption DEF EventsInvariant, Typed, RequestType
<1>3. /\ UNCHANGED <<active, eventLock, today, epc, call, startDay, sawActive, reply>>
      /\ \E a : EndTransaction(p, a)
  BY DEF CommitLedger, Commit
<1>4. /\ pc' \in [Workers -> Statements] /\ pc'[p] = "idle"
      /\ req' \in [Workers -> RequestType \cup {Null}] /\ req'[p] = Null
      /\ \A q \in Workers \ {p} : pc'[q] = pc[q] /\ req'[q] = req[q]
  BY <1>3, EndTyped
<1>5. ASSUME NEW k \in Keys
      PROVE  \/ event'[k] = event[k]
             \/ /\ event[k] # Null /\ event[k].status \in {"posted", "reversed"}
                /\ event'[k] = [event[k] EXCEPT !.status = "reversed"]
                /\ event'[k] \in EventType /\ event'[k] # Null /\ Told(event'[k])
  <2>1. event'[k] = IF event[k] # Null /\ MarksOriginal(p)
                         /\ event[k].tx = req[p].original
                    THEN [event[k] EXCEPT !.status = "reversed"] ELSE event[k]
    BY DEF CommitLedger
  <2>2. CASE event[k] # Null /\ event[k].tx = req[p].original
    <3>1. event[k] \in EventType /\ Told(event[k]) /\ event[k].tx # Null
      BY <1>2, <2>2, EventTyped DEF EventsInvariant, EventsTold
    <3>2. event[k].status \in {"posted", "reversed"}
      BY <3>1 DEF Told, EventType
    <3>3. [event[k] EXCEPT !.status = "reversed"] \in EventType
      BY <3>1 DEF EventType
    <3>4. Told([event[k] EXCEPT !.status = "reversed"])
      BY <3>1 DEF Told, EventType
    <3> QED BY <2>1, <2>2, <3>2, <3>3, <3>4, EarningAssumption
  <2> QED BY <2>1, <2>2
<1>6. event' \in [Keys -> EventType \cup {Null}]
  <2>1. \A k \in Keys : event'[k] \in EventType \cup {Null}
    BY <1>5 DEF EventsInvariant, Typed
  <2> QED BY <2>1 DEF CommitLedger
<1>7. Typed'
  BY <1>3, <1>4, <1>6 DEF EventsInvariant, Typed
<1>8. \A q \in Workers \ {p} : epc[q] \in Posting =>
        event'[call[q].key] = event[call[q].key]
  <2>1. \A q \in Workers \ {p} : epc[q] \in Posting =>
          call[q] # Null /\ KeepsEvent(q)
    BY DEF EventsInvariant, Ready, Posting
  <2> QED BY <1>5, <2>1, CallTyped DEF KeepsEvent
<1>9. Elsewhere(p)
  BY <1>3, <1>4, <1>8 DEF Elsewhere
<1>10. EventsGrow
  <2>1. ASSUME NEW k \in Keys, event[k] # Null
        PROVE  /\ event'[k] # Null
               /\ event'[k].wallet = event[k].wallet /\ event'[k].rule = event[k].rule
               /\ event'[k].day = event[k].day
               /\ event[k].status \in {"posted", "reversed"}
                     => event'[k].status \in {"posted", "reversed"}
    <3>1. event[k] \in EventType
      BY <2>1, EventTyped
    <3> QED BY <1>5, <2>1, <3>1 DEF EventType
  <2> QED BY <2>1 DEF EventsGrow
<1>11. EventsTold'
  BY <1>5 DEF EventsTold, EventsInvariant
<1>12. Ready(p)' /\ KeepsEvent(p)' /\ epc'[p] = "none"
  BY <1>1, <1>3, <1>4 DEF Ready, KeepsEvent, Posting, IssueStatements
<1>13. OneInserter'
  <2>1. \A q \in Workers, k \in Keys : HoldsEventKey(q, k)' => HoldsEventKey(q, k)
    BY <1>3 DEF HoldsEventKey
  <2> QED BY <2>1 DEF EventsInvariant, OneInserter
<1>14. EventsInvariant'
  BY <1>7, <1>9, <1>10, <1>11, <1>12, <1>13, OthersReady DEF EventsInvariant
<1> QED BY <1>1, <1>3, <1>5, <1>9, <1>10, <1>14 DEF Stepped

-----------------------------------------------------------------------------
(* Plain requests, ends and beginnings.                                    *)

LEMMA PlainLedgerStep ==
    ASSUME EventsInvariant, NEW p \in Workers, PlainLedger(p)
    PROVE  Stepped(p)
<1>1. /\ epc[p] = "none" /\ call[p] = Null /\ Ready(p) /\ UNCHANGED evars
      /\ active' = active
      /\ \/ /\ pc' = [pc EXCEPT ![p] = "idle"]
            /\ req' = [req EXCEPT ![p] = Null]
         \/ /\ req' = req /\ pc[p] # "idle"
            /\ \E s \in Statements \ {"idle"} : pc' = [pc EXCEPT ![p] = s]
  BY LedgerMoves DEF PlainLedger, EventsInvariant, Ready
<1>2. /\ pc' \in [Workers -> Statements]
      /\ req' \in [Workers -> RequestType \cup {Null}]
      /\ req'[p] = Null <=> pc'[p] = "idle"
      /\ req'[p] # Null => req'[p] = req[p]
      /\ \A q \in Workers \ {p} : pc'[q] = pc[q] /\ req'[q] = req[q]
  BY <1>1 DEF EventsInvariant, Typed, Statements, Ready
<1>3. Typed'
  BY <1>1, <1>2 DEF EventsInvariant, Typed, evars
<1>4. Elsewhere(p)
  BY <1>1, <1>2 DEF Elsewhere, evars
<1>5. Ready(p)' /\ KeepsEvent(p)' /\ epc'[p] \notin Posting
  BY <1>1, <1>2 DEF Ready, KeepsEvent, Posting, IssueStatements, evars
<1>6. EventsInvariant' /\ EventsGrow
  BY <1>1, <1>3, <1>4, <1>5, NoCommit DEF evars
<1> QED BY <1>1, <1>4, <1>6 DEF Stepped, evars

LEMMA DiesStep ==
    ASSUME EventsInvariant, NEW p \in Workers, Dies(p)
    PROVE  Stepped(p)
BY RollbackEnds, EndStep DEF Dies, Replies

LEMMA CallStepped ==
    ASSUME EventsInvariant, NEW p \in Workers, CallStep(p)
    PROVE  Stepped(p)
<1>1. CASE FindEvent(p) \/ LockWallet(p) \/ FindAgain(p) \/ CheckDaily(p)
           \/ CheckWeekly(p) \/ Raced(p)
  BY <1>1, LooksUp
<1>2. CASE InsertEvent(p) \/ LockEvent(p) \/ CallEarn(p) \/ Post(p)
  BY <1>2, InsertEventStep, LockEventStep, CallEarnStep, PostStep
<1>3. CASE CommitEvent(p) \/ PlainLedger(p) \/ CommitLedger(p)
  BY <1>3, CommitEventStep, PlainLedgerStep, CommitLedgerStep
<1> QED BY <1>1, <1>2, <1>3 DEF CallStep

(* The first statement of a call of the staff or of the job.               *)
LEMMA FirstStatement ==
    ASSUME EventsInvariant, NEW p \in Workers, NEW c \in CallType,
           pc[p] = "idle", epc[p] = "none",
           call' = [call EXCEPT ![p] = c],
           epc' = [epc EXCEPT ![p] = IF c.kind = "issue" THEN "findEvent"
                                                         ELSE "lockEvent"],
           startDay' = [startDay EXCEPT ![p] = today],
           reply' \in [Workers -> Replies],
           UNCHANGED <<vars, event, eventLock, today, sawActive>>
    PROVE  /\ EventsInvariant' /\ EventsGrow /\ Elsewhere(p)
           /\ event' = event /\ call'[p] = c /\ pc'[p] = "idle"
<1>1. Ready(p) /\ c # Null
  BY EarningAssumption DEF EventsInvariant
<1>2. /\ epc'[p] = (IF c.kind = "issue" THEN "findEvent" ELSE "lockEvent")
      /\ call'[p] = c
      /\ \A q \in Workers \ {p} : epc'[q] = epc[q] /\ call'[q] = call[q]
  BY DEF EventsInvariant, Typed
<1>3. Typed'
  BY DEF EventsInvariant, Typed, EventStatements, vars, local, Replies
<1>4. Elsewhere(p)
  BY <1>2 DEF Elsewhere, vars, local
<1>5. Ready(p)' /\ KeepsEvent(p)' /\ epc'[p] \notin Posting
  BY <1>1, <1>2 DEF Ready, KeepsEvent, Posting, IssueStatements, vars, local
<1>6. EventsInvariant' /\ EventsGrow
  BY <1>3, <1>4, <1>5, NoCommit
<1> QED BY <1>2, <1>4, <1>6 DEF vars, local

LEMMA StartLedgerCallStep ==
    ASSUME EventsInvariant, NEW p \in Workers, StartLedgerCall(p)
    PROVE  Stepped(p)
<1>1. /\ epc[p] = "none" /\ call[p] = Null /\ req'[p].op # "earn"
      /\ UNCHANGED <<active, event, eventLock, today, epc, call, startDay, sawActive>>
      /\ reply' = [reply EXCEPT ![p] = "none"]
  BY DEF StartLedgerCall, Begin, EventsInvariant, Ready
<1>2. PICK r \in Requests :
        /\ req' = [req EXCEPT ![p] = r]
        /\ pc' = [pc EXCEPT ![p] = IF r.op = "reversal" THEN "reversalKey"
                                                        ELSE "requireActive"]
  BY DEF StartLedgerCall, Begin, Goto
<1>3. r \in RequestType /\ r # Null
  BY RequestsAssumption, NullAssumption
<1>4. /\ pc' \in [Workers -> Statements] /\ pc'[p] # "idle"
      /\ req' \in [Workers -> RequestType \cup {Null}] /\ req'[p] = r
      /\ \A q \in Workers \ {p} : pc'[q] = pc[q] /\ req'[q] = req[q]
  BY <1>2, <1>3 DEF EventsInvariant, Typed, Statements
<1>5. Typed'
  BY <1>1, <1>4 DEF EventsInvariant, Typed
<1>6. Elsewhere(p)
  BY <1>1, <1>4 DEF Elsewhere
<1>7. Ready(p)' /\ KeepsEvent(p)' /\ epc'[p] \notin Posting
  BY <1>1, <1>3, <1>4 DEF Ready, KeepsEvent, Posting, IssueStatements
<1>8. EventsInvariant' /\ EventsGrow
  BY <1>1, <1>5, <1>6, <1>7, NoCommit
<1> QED BY <1>1, <1>6, <1>8 DEF Stepped

-----------------------------------------------------------------------------
(* Runs of the job.                                                        *)

(* The campus days of the events of a week of UTC that were really posted, *)
(* in the table e.                                                         *)
Attended(e, w, week) ==
    {e[k].day : k \in
        {j \in Keys : /\ e[j] # Null
                      /\ e[j].wallet = w
                      /\ e[j].rule = AttendanceRule
                      /\ e[j].status \in {"posted", "reversed"}
                      /\ InWeek(j, week)}}
Earned(e, w, week) == Cardinality(Attended(e, w, week)) >= RequiredDays

ScoredWeeks == {d \in Days : d = WeekStart(UTCToday) - WeekLength}

(* A run scores a week that has ended, and serves the bonus of a student   *)
(* who has earned it; a worker without a run serves the staff.             *)
JobOK(p) ==
    /\ job[p] # Null =>
         /\ job[p].week \in ScoredWeeks
         /\ pc[p] # "idle" => call[p] # Null
         /\ call[p] # Null =>
              /\ job[p].student \in Wallets /\ job[p].student # Null
              /\ call[p] = BonusCall(job[p].student, job[p].week)
              /\ Earned(event, job[p].student, job[p].week)
    /\ job[p] = Null /\ call[p] # Null => call[p] \in Calls

JobInvariant ==
    /\ EventsInvariant
    /\ job \in [Workers -> Run \cup {Null}]
    /\ \A p \in Workers : JobOK(p)

(* The runs of the others are the same, but for the students owed.         *)
SameRun(q) ==
    /\ job'[q] = Null <=> job[q] = Null
    /\ job[q] # Null => /\ job'[q].week = job[q].week
                        /\ job'[q].student = job[q].student

LEMMA AttendedFinite ==
    ASSUME EventsInvariant, NEW w, NEW week
    PROVE  IsFiniteSet(Attended(event, w, week))
<1>1. IsFiniteSet(Days)
  BY FS_Interval, EarningAssumption DEF Days
<1>2. Attended(event, w, week) \subseteq Days
  BY EventTyped DEF Attended
<1> QED BY <1>1, <1>2, FS_Subset

(* What is earned stays earned: days may be added, and reversals do not    *)
(* take them.                                                              *)
LEMMA EarnedLasts ==
    ASSUME EventsInvariant, EventsInvariant', EventsGrow, NEW w, NEW week,
           Earned(event, w, week)
    PROVE  Earned(event', w, week)
<1>1. Attended(event, w, week) \subseteq Attended(event', w, week)
  BY DEF Attended, EventsGrow
<1>2. IsFiniteSet(Attended(event, w, week)) /\ IsFiniteSet(Attended(event', w, week))
  <2>1. IsFiniteSet(Days)
    BY FS_Interval, EarningAssumption DEF Days
  <2>2. Attended(event', w, week) \subseteq Days
    BY DEF EventsInvariant, Typed, Attended, EventType
  <2> QED BY <2>1, <2>2, FS_Subset, AttendedFinite
<1>3. Cardinality(Attended(event, w, week)) <= Cardinality(Attended(event', w, week))
  BY <1>1, <1>2, FS_Subset
<1>4. /\ Cardinality(Attended(event, w, week)) \in Nat
      /\ Cardinality(Attended(event', w, week)) \in Nat /\ RequiredDays \in Int
  BY <1>2, FS_CardinalityType, BonusAssumption
<1> QED BY <1>3, <1>4 DEF Earned

(* The job counts posted days alone.                                       *)
LEMMA CountedIsEarned ==
    ASSUME EventsInvariant, NEW w, NEW week,
           Cardinality(AttendanceDays(w, week)) >= RequiredDays
    PROVE  Earned(event, w, week)
<1>1. AttendanceDays(w, week) \subseteq Attended(event, w, week)
  BY DEF AttendanceDays, Attended
<1>2. IsFiniteSet(Attended(event, w, week))
  BY AttendedFinite
<1>3. /\ Cardinality(AttendanceDays(w, week)) <= Cardinality(Attended(event, w, week))
      /\ IsFiniteSet(AttendanceDays(w, week))
  BY <1>1, <1>2, FS_Subset
<1>4. /\ Cardinality(AttendanceDays(w, week)) \in Nat
      /\ Cardinality(Attended(event, w, week)) \in Nat /\ RequiredDays \in Int
  BY <1>2, <1>3, FS_CardinalityType, BonusAssumption
<1> QED BY <1>3, <1>4 DEF Earned

LEMMA WatchedRuns ==
    ASSUME NEW j \in [Workers -> Run \cup {Null}], job' = Watched(j)
    PROVE  /\ job' \in [Workers -> Run \cup {Null}]
           /\ \A q \in Workers : /\ job'[q] = Null <=> j[q] = Null
                                 /\ j[q] # Null => /\ job'[q].week = j[q].week
                                                   /\ job'[q].student = j[q].student
<1>1. ASSUME NEW q \in Workers
      PROVE  /\ job'[q] \in Run \cup {Null}
             /\ job'[q] = Null <=> j[q] = Null
             /\ j[q] # Null => /\ job'[q].week = j[q].week
                               /\ job'[q].student = j[q].student
  <2>1. CASE j[q] = Null
    BY <2>1 DEF Watched
  <2>2. CASE j[q] # Null
    <3>1. /\ j[q] \in Run
          /\ job'[q] = [j[q] EXCEPT !.owed = @ \cap Deserving'[j[q].week]]
      BY <2>2 DEF Watched
    <3>2. job'[q] \in Run /\ job'[q].week = j[q].week /\ job'[q].student = j[q].student
      BY <3>1 DEF Run
    <3> QED BY <2>2, <3>2, BonusAssumption
  <2> QED BY <2>1, <2>2
<1>2. job' = [q \in Workers |-> job'[q]]
  BY DEF Watched
<1> QED BY <1>1, <1>2

LEMMA OthersJobOK ==
    ASSUME JobInvariant, EventsInvariant', EventsGrow, NEW q \in Workers,
           SameRun(q), call'[q] = call[q], pc'[q] = pc[q]
    PROVE  JobOK(q)'
<1>1. JobOK(q)
  BY DEF JobInvariant
<1>2. Earned(event, job[q].student, job[q].week)
        => Earned(event', job[q].student, job[q].week)
  BY EarnedLasts DEF JobInvariant
<1>3. CASE job[q] = Null
  BY <1>1, <1>3 DEF JobOK, SameRun
<1>4. CASE job[q] # Null
  BY <1>1, <1>2, <1>4 DEF JobOK, SameRun, BonusCall
<1> QED BY <1>3, <1>4

LEMMA JobsHold ==
    ASSUME JobInvariant, NEW p \in Workers,
           EventsInvariant', EventsGrow, Elsewhere(p),
           job' \in [Workers -> Run \cup {Null}],
           \A q \in Workers \ {p} : SameRun(q),
           JobOK(p)'
    PROVE  JobInvariant'
<1>1. \A q \in Workers \ {p} : JobOK(q)'
  BY OthersJobOK DEF Elsewhere
<1> QED BY <1>1 DEF JobInvariant

LEMMA EventsStay ==
    ASSUME EventsInvariant, UNCHANGED <<evars, pc, req>>,
           active' \in [Wallets -> BOOLEAN]
    PROVE  EventsInvariant' /\ EventsGrow /\ \A p \in Workers : Elsewhere(p)
<1> USE DEF evars
<1>1. Typed'
  BY DEF EventsInvariant, Typed
<1>2. \A p \in Workers : Ready(p)' /\ KeepsEvent(p)'
  BY DEF EventsInvariant, Ready, KeepsEvent
<1>3. EventsTold' /\ OneInserter'
  BY DEF EventsInvariant, EventsTold, OneInserter, HoldsEventKey
<1>4. EventsGrow /\ \A p \in Workers : Elsewhere(p)
  BY DEF EventsGrow, Elsewhere
<1> QED BY <1>1, <1>2, <1>3, <1>4 DEF EventsInvariant

LEMMA WeekScored ==
    ASSUME WeekStart(UTCToday) - WeekLength >= 0
    PROVE  /\ WeekStart(UTCToday) - WeekLength \in ScoredWeeks
           /\ WeekStart(UTCToday) - WeekLength \in Days
<1>1. UTCToday \in Days
  BY BonusAssumption
<1>2. WeekStart(UTCToday) \in Int /\ WeekStart(UTCToday) <= UTCToday
  BY <1>1, EarningAssumption DEF WeekStart, Days
<1>3. WeekStart(UTCToday) - WeekLength \in Days
  BY <1>1, <1>2, EarningAssumption DEF Days
<1> QED BY <1>3 DEF ScoredWeeks

LEMMA StartRunStep ==
    ASSUME JobInvariant, NEW p \in Workers, StartRun(p)
    PROVE  JobInvariant'
<1>1. EventsInvariant' /\ EventsGrow /\ Elsewhere(p)
  BY EventsStay DEF JobInvariant, EventsInvariant, Typed, StartRun, vars, local
<1>2. PICK week \in Days :
        /\ week \in ScoredWeeks
        /\ job' = [job EXCEPT ![p] =
                     [week |-> week, todo |-> Wallets, student |-> Null,
                      seen |-> active, owed |-> Deserving[week]]]
  BY WeekScored DEF JobInvariant, StartRun
<1>3. Deserving[week] \subseteq Wallets
  BY DEF Deserving
<1>4. [week |-> week, todo |-> Wallets, student |-> Null,
       seen |-> active, owed |-> Deserving[week]] \in Run
  BY <1>3 DEF Run, JobInvariant, EventsInvariant, Typed
<1>5. /\ job' \in [Workers -> Run \cup {Null}] /\ job'[p] # Null
      /\ job'[p].week = week /\ \A q \in Workers \ {p} : SameRun(q)
  BY <1>2, <1>4, BonusAssumption DEF JobInvariant, SameRun
<1>6. call'[p] = Null /\ pc'[p] = "idle"
  BY DEF StartRun, JobInvariant, EventsInvariant, Ready, vars, evars, local
<1>7. JobOK(p)'
  BY <1>2, <1>5, <1>6 DEF JobOK
<1> QED BY <1>1, <1>5, <1>7, JobsHold

LEMMA NextStudentStep ==
    ASSUME JobInvariant, NEW p \in Workers, NextStudent(p)
    PROVE  JobInvariant'
<1>1. EventsInvariant' /\ EventsGrow /\ Elsewhere(p)
  BY EventsStay DEF JobInvariant, EventsInvariant, Typed, NextStudent, vars, local
<1>2. job[p] \in Run /\ job[p] # Null /\ call[p] = Null /\ JobOK(p)
  BY DEF NextStudent, Considering, JobInvariant, EventsInvariant, Ready
<1>3. PICK w \in Wallets, s \in Wallets \cup {Null} :
        job' = [job EXCEPT ![p] = [job[p] EXCEPT !.todo = @ \ {w}, !.student = s]]
  <2>1. PICK w \in job[p].todo :
          job' = [job EXCEPT ![p].todo = @ \ {w},
                             ![p].student =
                                 IF ledger[PlainKey[w][job[p].week]] # Null
                                 THEN Null ELSE w]
    BY DEF NextStudent
  <2>2. w \in Wallets
    BY <1>2 DEF Run
  <2>3. PICK s \in Wallets \cup {Null} :
          s = IF ledger[PlainKey[w][job[p].week]] # Null THEN Null ELSE w
    BY <2>2
  <2>4. job' = [job EXCEPT ![p].todo = @ \ {w}, ![p].student = s]
    BY <2>1, <2>3
  <2>5. job' = [job EXCEPT ![p] = [job[p] EXCEPT !.todo = @ \ {w}, !.student = s]]
    BY <2>4 DEF JobInvariant
  <2> QED BY <2>2, <2>5
<1>4. [job[p] EXCEPT !.todo = @ \ {w}, !.student = s] \in Run
  BY <1>2 DEF Run
<1>5. /\ job' \in [Workers -> Run \cup {Null}] /\ job'[p] # Null
      /\ job'[p].week = job[p].week /\ \A q \in Workers \ {p} : SameRun(q)
  <2> DEFINE r == [job[p] EXCEPT !.todo = @ \ {w}, !.student = s]
  <2>1. r \in Run /\ r # Null /\ r.week = job[p].week
    BY <1>2, <1>4, BonusAssumption DEF Run
  <2> HIDE DEF r
  <2>2. job' = [job EXCEPT ![p] = r]
    BY <1>3 DEF r
  <2> QED BY <2>1, <2>2 DEF JobInvariant, SameRun
<1>6. call'[p] = Null /\ pc'[p] = pc[p]
  BY <1>2 DEF NextStudent, vars, evars, local
<1>7. JobOK(p)'
  BY <1>2, <1>5, <1>6 DEF JobOK
<1> QED BY <1>1, <1>5, <1>7, JobsHold

LEMMA CountDaysStep ==
    ASSUME JobInvariant, NEW p \in Workers, CountDays(p)
    PROVE  JobInvariant'
<1>1. /\ job[p] \in Run /\ job[p] # Null /\ job[p].student \in Wallets
      /\ job[p].student # Null /\ call[p] = Null /\ epc[p] = "none"
      /\ JobOK(p) /\ EventsInvariant /\ UNCHANGED vars
  BY DEF CountDays, Considering, JobInvariant, EventsInvariant, Ready, Run
<1>2. pc[p] = "idle" /\ job[p].week \in ScoredWeeks /\ job[p].week \in Days
  BY <1>1 DEF JobOK, Run
<1>3. CASE job' = [job EXCEPT ![p].student = Null] /\ UNCHANGED evars
  <2>1. EventsInvariant' /\ EventsGrow /\ Elsewhere(p)
    BY <1>1, <1>3, EventsStay DEF EventsInvariant, Typed, vars, local
  <2> DEFINE r == [job[p] EXCEPT !.student = Null]
  <2>2. r \in Run /\ r # Null /\ r.week = job[p].week
    <3>1. r \in Run /\ r.week = job[p].week
      BY <1>1 DEF Run
    <3> QED BY <3>1, BonusAssumption
  <2> HIDE DEF r
  <2>3. /\ job' \in [Workers -> Run \cup {Null}] /\ job'[p] # Null
        /\ job'[p].week = job[p].week /\ \A q \in Workers \ {p} : SameRun(q)
    <3>1. job' = [job EXCEPT ![p] = r]
      BY <1>3 DEF JobInvariant, r
    <3> QED BY <2>2, <3>1 DEF JobInvariant, SameRun
  <2>4. JobOK(p)'
    BY <1>1, <1>2, <1>3, <2>3 DEF JobOK, vars, evars, local
  <2> QED BY <2>1, <2>3, <2>4, JobsHold
<1>4. CASE ~(job' = [job EXCEPT ![p].student = Null] /\ UNCHANGED evars)
  <2> DEFINE c == BonusCall(job[p].student, job[p].week)
  <2>1. /\ Cardinality(AttendanceDays(job[p].student, job[p].week)) >= RequiredDays
        /\ call' = [call EXCEPT ![p] = c]
        /\ startDay' = [startDay EXCEPT ![p] = today]
        /\ epc' = [epc EXCEPT ![p] = "findEvent"]
        /\ UNCHANGED <<event, eventLock, today, sawActive, reply, job>>
    BY <1>4 DEF CountDays, Continue
  <2>2. c \in CallType /\ c.kind = "issue"
    BY <1>1, <1>2, BonusAssumption DEF BonusCall, CallType
  <2>3. /\ EventsInvariant' /\ EventsGrow /\ Elsewhere(p)
        /\ event' = event /\ call'[p] = c /\ pc'[p] = "idle"
    <3>1. reply' \in [Workers -> Replies]
      BY <1>1, <2>1 DEF EventsInvariant, Typed, Replies
    <3> HIDE DEF c
    <3> QED BY <1>1, <1>2, <2>1, <2>2, <3>1, FirstStatement
  <2>4. Earned(event', job[p].student, job[p].week)
    BY <1>1, <2>1, <2>3, CountedIsEarned
  <2>5. job' = job
    BY <2>1
  <2>6. JobOK(p)'
    BY <1>1, <1>2, <2>3, <2>4, <2>5 DEF JobOK, BonusCall
  <2>7. \A q \in Workers \ {p} : SameRun(q)
    BY <2>5 DEF SameRun
  <2> QED BY <2>3, <2>5, <2>6, <2>7, JobsHold DEF JobInvariant
<1> QED BY <1>3, <1>4

(* A step of p after which its run, if it still has one, has the week it   *)
(* had, and a bonus under way is the same.                                 *)
LEMMA RunGoesOn ==
    ASSUME JobInvariant, NEW p \in Workers, Stepped(p),
           job[p] # Null, NEW r \in Run \cup {Null},
           r # Null => r.week = job[p].week,
           r = Null => call'[p] = Null,
           call'[p] # Null => r # Null /\ r.student = job[p].student,
           job[p] # Null /\ pc'[p] # "idle" => call'[p] # Null,
           job' \in [Workers -> Run \cup {Null}],
           job'[p] = Null <=> r = Null,
           r # Null => job'[p].week = r.week /\ job'[p].student = r.student,
           \A q \in Workers \ {p} : SameRun(q)
    PROVE  JobInvariant'
<1>1. JobOK(p) /\ EventsInvariant /\ EventsInvariant' /\ EventsGrow /\ Elsewhere(p)
  BY DEF JobInvariant, Stepped
<1>2. ASSUME call'[p] # Null
      PROVE  /\ call'[p] = call[p]
             /\ Earned(event', job[p].student, job[p].week)
  BY <1>1, <1>2, EarnedLasts DEF JobOK, Stepped
<1>3. JobOK(p)'
  <2>1. CASE r = Null
    BY <1>1, <2>1 DEF JobOK
  <2>2. CASE r # Null
    BY <1>1, <1>2, <2>2 DEF JobOK, BonusCall
  <2> QED BY <2>1, <2>2
<1> QED BY <1>1, <1>3, JobsHold

LEMMA IssuingStep ==
    ASSUME JobInvariant, NEW p \in Workers, Issuing(p)
    PROVE  JobInvariant'
<1>1. EventsInvariant /\ JobOK(p) /\ job[p] \in Run /\ job[p] # Null /\ call[p] # Null
  BY DEF JobInvariant, Issuing
<1>2. Stepped(p)
  BY <1>1, JobLooksUp, LooksUp, InsertEventStep, CallEarnStep, PostStep,
     CommitEventStep DEF Issuing
<1> DEFINE r == AfterIssue(p)
<1>3. /\ r \in Run /\ r # Null /\ r.week = job[p].week
      /\ call'[p] # Null => r.student = job[p].student
  <2>1. r \in Run /\ r.week = job[p].week
    BY <1>1 DEF AfterIssue, Run
  <2> QED BY <2>1, BonusAssumption DEF AfterIssue
<1> HIDE DEF r
<1>4. /\ job' = Watched([job EXCEPT ![p] = r])
      /\ [job EXCEPT ![p] = r] \in [Workers -> Run \cup {Null}]
  BY <1>3 DEF Issuing, JobInvariant, r
<1>5. /\ job' \in [Workers -> Run \cup {Null}]
      /\ job'[p] # Null /\ job'[p].week = r.week /\ job'[p].student = r.student
      /\ \A q \in Workers \ {p} : SameRun(q)
  BY <1>3, <1>4, WatchedRuns DEF JobInvariant, SameRun
<1>6. pc'[p] # "idle" => call'[p] # Null
  BY <1>1, <1>2 DEF Stepped
<1> QED BY <1>1, <1>2, <1>3, <1>5, <1>6, RunGoesOn

(* The session is rolled back; the run goes on or is over.                 *)
LEMMA RunRollsBack ==
    ASSUME JobInvariant, NEW p \in Workers,
           IssueFails(p) \/ FinishRun(p) \/ RunDies(p)
    PROVE  JobInvariant'
<1>1. EventsInvariant /\ job[p] \in Run /\ job[p] # Null
  BY DEF JobInvariant, IssueFails, FinishRun, RunDies, Considering
<1>2. Ends(p)
  BY RollbackEnds DEF IssueFails, FinishRun, RunDies, Replies
<1>3. Stepped(p) /\ call'[p] = Null /\ pc'[p] = "idle"
  BY <1>1, <1>2, EndStep, AnswerTyped DEF Ends, EventsInvariant, Typed
<1>4. \E r \in Run \cup {Null} :
        job' = [job EXCEPT ![p] = r] /\ (r # Null => r.week = job[p].week)
  <2>1. CASE IssueFails(p)
    <3> DEFINE r == [job[p] EXCEPT !.student = Null, !.seen = Null,
                                   !.owed = @ \ {job[p].student}]
    <3>1. r \in Run /\ r.week = job[p].week
      BY <1>1 DEF Run
    <3>2. job' = [job EXCEPT ![p] = r]
      BY <2>1 DEF IssueFails, JobInvariant
    <3> QED BY <3>1, <3>2
  <2>2. CASE FinishRun(p) \/ RunDies(p)
    BY <2>2 DEF FinishRun, RunDies
  <2> QED BY <2>1, <2>2
<1>5. PICK r \in Run \cup {Null} :
        job' = [job EXCEPT ![p] = r] /\ (r # Null => r.week = job[p].week)
  BY <1>4
<1>6. /\ job' \in [Workers -> Run \cup {Null}] /\ job'[p] = r
      /\ \A q \in Workers \ {p} : SameRun(q)
  BY <1>5 DEF JobInvariant, SameRun
<1> QED BY <1>1, <1>3, <1>5, <1>6, RunGoesOn

LEMMA StaffHolds ==
    ASSUME JobInvariant, NEW p \in Workers, Staff(p)
    PROVE  JobInvariant'
<1>1. EventsInvariant /\ JobOK(p) /\ job[p] = Null /\ job' = Watched(job)
  BY DEF JobInvariant, Staff, StaffStep
<1>2. /\ job' \in [Workers -> Run \cup {Null}] /\ job'[p] = Null
      /\ \A q \in Workers : SameRun(q)
  BY <1>1, WatchedRuns DEF JobInvariant, SameRun
<1>3. CASE CallStep(p) \/ StartLedgerCall(p) \/ Dies(p)
  <2>1. Stepped(p)
    BY <1>1, <1>3, CallStepped, StartLedgerCallStep, DiesStep
  <2>2. JobOK(p)'
    BY <1>1, <1>2, <2>1 DEF JobOK, Stepped
  <2> QED BY <1>2, <2>1, <2>2, JobsHold DEF Stepped
<1>4. CASE StartCall(p)
  <2>1. PICK c \in Calls :
          /\ call' = [call EXCEPT ![p] = c]
          /\ epc' = [epc EXCEPT ![p] = IF c.kind = "issue" THEN "findEvent"
                                                           ELSE "lockEvent"]
    BY <1>4 DEF StartCall, Continue
  <2>2. c \in CallType
    BY EarningAssumption
  <2>3. reply' \in [Workers -> Replies]
    BY <1>1, <1>4 DEF StartCall, EventsInvariant, Typed, Replies
  <2>4. /\ EventsInvariant' /\ EventsGrow /\ Elsewhere(p) /\ call'[p] = c
    BY <1>1, <1>4, <2>1, <2>2, <2>3, FirstStatement DEF StartCall
  <2>5. JobOK(p)'
    BY <1>2, <2>4 DEF JobOK
  <2> QED BY <1>2, <2>4, <2>5, JobsHold
<1> QED BY <1>3, <1>4 DEF Staff, StaffStep

LEMMA FreezeHolds ==
    ASSUME JobInvariant, NEW w \in Wallets, FreezeWallet(w), job' = Watched(job)
    PROVE  JobInvariant'
<1>1. EventsInvariant' /\ EventsGrow
  BY EventsStay DEF JobInvariant, EventsInvariant, Typed, FreezeWallet,
     SetWalletStatus, local
<1>2. /\ job' \in [Workers -> Run \cup {Null}] /\ \A q \in Workers : SameRun(q)
  BY WatchedRuns DEF JobInvariant, SameRun
<1>3. \A q \in Workers : JobOK(q)'
  BY <1>1, <1>2, OthersJobOK DEF FreezeWallet, SetWalletStatus, local, evars
<1> QED BY <1>1, <1>2, <1>3 DEF JobInvariant

LEMMA JobStutter ==
    ASSUME JobInvariant, UNCHANGED bvars
    PROVE  JobInvariant'
<1>1. EventsInvariant' /\ EventsGrow
  BY EventsStay DEF JobInvariant, EventsInvariant, Typed, bvars, vars, local
<1>2. \A q \in Workers : JobOK(q)'
  BY <1>1, OthersJobOK DEF bvars, vars, evars, local, SameRun
<1> QED BY <1>1, <1>2 DEF JobInvariant, bvars

LEMMA JobStep ==
    ASSUME JobInvariant, [BNext]_bvars
    PROVE  JobInvariant'
BY StartRunStep, NextStudentStep, CountDaysStep, IssuingStep, RunRollsBack,
   StaffHolds, FreezeHolds, JobStutter DEF BNext, RunStep

LEMMA JobInit ==
    ASSUME BInit
    PROVE  JobInvariant
<1>1. event \in [Keys -> EventType \cup {Null}]
  BY BonusAssumption DEF BInit
<1>2. today \in Days
  BY EarningAssumption DEF BInit, Days
<1>3. Typed
  BY <1>1, <1>2, DayZero DEF BInit, Typed, Statements, EventStatements
<1>4. \A p \in Workers : Ready(p) /\ KeepsEvent(p) /\ epc[p] = "none"
  BY DEF BInit, Ready, KeepsEvent, Posting, IssueStatements
<1>5. EventsTold
  <2>1. ASSUME NEW k \in Keys, event[k] # Null PROVE Told(event[k])
    <3>1. <<event[k].tx, event[k].status>> \in {<<Null, "pending">>, <<k, "posted">>}
      BY <2>1, BonusAssumption DEF BInit
    <3> QED BY <3>1, NullAssumption DEF Told
  <2> QED BY <2>1 DEF EventsTold
<1>6. OneInserter
  BY <1>4 DEF OneInserter, HoldsEventKey
<1>7. \A p \in Workers : JobOK(p)
  BY DEF BInit, JobOK
<1> QED BY <1>3, <1>4, <1>5, <1>6, <1>7 DEF JobInvariant, EventsInvariant, BInit

-----------------------------------------------------------------------------
(* The theorems.                                                           *)

(* A run pays a bonus only to a student whose posted days it has counted   *)
(* to suffice, and they suffice still, whatever is reversed, rejected or   *)
(* approved until issue_reward commits (tasks.py, lines 138-191).          *)
THEOREM JobInvariance == BSpec => []JobInvariant
<1>1. BInit => JobInvariant
  BY JobInit
<1>2. JobInvariant /\ [BNext]_bvars => JobInvariant'
  BY JobStep
<1> QED BY <1>1, <1>2, PTL DEF BSpec

(* Rows, sessions and runs keep their types; a run issues one bonus at a   *)
(* time, to the student it is considering, and serves nobody else          *)
(* (run_weekly_perfect_attendance_bonus).                                  *)
THEOREM BonusTypeCorrect == BSpec => []BTypeOK
<1>1. JobInvariant => BTypeOK
  <2> SUFFICES ASSUME JobInvariant
               PROVE  BTypeOK
    OBVIOUS
  <2>1. ETypeOK
    <3>1. \A p \in Workers :
            /\ epc[p] = "none" <=> call[p] = Null
            /\ epc[p] \notin {"none", "post", "commit"} => pc[p] = "idle"
            /\ epc[p] = "none" /\ req[p] # Null => req[p].op # "earn"
      BY DEF JobInvariant, EventsInvariant, Ready
    <3>2. Typed
      BY DEF JobInvariant, EventsInvariant
    <3> QED BY <3>1, <3>2 DEF Typed, ETypeOK
  <2>2. ASSUME NEW p \in Workers, job[p] # Null
        PROVE  /\ call[p] # Null =>
                    /\ job[p].student # Null
                    /\ call[p].wallet = job[p].student
                    /\ call[p].key = BonusKey[job[p].student][job[p].week]
               /\ pc[p] # "idle" => call[p] # Null
    <3>1. JobOK(p)
      BY DEF JobInvariant
    <3>2. /\ pc[p] # "idle" => call[p] # Null
          /\ call[p] # Null => /\ job[p].student # Null
                               /\ call[p] = BonusCall(job[p].student, job[p].week)
      BY <2>2, <3>1 DEF JobOK
    <3> QED BY <3>2 DEF BonusCall
  <2> QED BY <2>1, <2>2 DEF JobInvariant, BTypeOK
<1> QED BY <1>1, JobInvariance, PTL

(* The key of a bonus names its student and its week, and its scope keeps  *)
(* it apart from the keys of the staff (tasks.py, line 143, and            *)
(* earning_service.py, line 40); bonuses already in the tables were        *)
(* deserved.                                                               *)
BonusKeysOwn ==
    /\ \A v, w \in Wallets, d \in Days, e \in ScoredWeeks :
          BonusKey[v][d] = BonusKey[w][e] => v = w /\ d = e
    /\ \A c \in Calls, w \in Wallets, d \in Days :
          c.kind = "issue" => c.key # BonusKey[w][d]
    /\ \A h \in Histories, w \in Wallets, d \in Days :
          h[BonusKey[w][d]] # Null => Earned(h, w, d)

LEMMA BonusRead ==
    BonusEarned <=>
       \A w \in Wallets, d \in Days :
          event[BonusKey[w][d]] # Null => Earned(event, w, d)
BY DEF BonusEarned, Earned, Attended

LEMMA BonusReadNext ==
    BonusEarned' <=>
       \A w \in Wallets, d \in Days :
          event'[BonusKey[w][d]] # Null => Earned(event', w, d)
BY DEF BonusEarned, Earned, Attended

(* Only statements of a session write events.                              *)
LEMMA EventWriters ==
    ASSUME JobInvariant, [BNext]_bvars, event' # event
    PROVE  \E p \in Workers : Stepped(p)
<1>1. EventsInvariant /\ job \in [Workers -> Run \cup {Null}]
  BY DEF JobInvariant
<1>2. ASSUME NEW p \in Workers, Issuing(p)
      PROVE  Stepped(p)
  <2>1. job[p] \in Run
    BY <1>1, <1>2 DEF Issuing
  <2> QED BY <1>1, <1>2, <2>1, JobLooksUp, LooksUp, InsertEventStep, CallEarnStep,
          PostStep, CommitEventStep DEF Issuing
<1>3. ASSUME NEW p \in Workers, CallStep(p) \/ StartLedgerCall(p) \/ Dies(p)
      PROVE  Stepped(p)
  BY <1>1, <1>3, CallStepped, StartLedgerCallStep, DiesStep
<1>4. \A p \in Workers : ~StartRun(p) /\ ~NextStudent(p) /\ ~CountDays(p)
         /\ ~FinishRun(p) /\ ~IssueFails(p) /\ ~RunDies(p) /\ ~StartCall(p)
  BY DEF StartRun, NextStudent, CountDays, FinishRun, IssueFails, RunDies,
     StartCall, evars
<1>5. \A w \in Wallets : ~FreezeWallet(w)
  BY DEF FreezeWallet, evars
<1> QED BY <1>2, <1>3, <1>4, <1>5 DEF BNext, RunStep, Staff, StaffStep, bvars, evars

(* Nobody is paid a bonus for a week of UTC unless his attendance events   *)
(* of that week, really posted, fall on enough days of the campus          *)
(* (tasks.py, lines 119-130 and 148-181).                                  *)
THEOREM BonusesEarned == ASSUME BonusKeysOwn PROVE BSpec => []BonusEarned
<1>1. BInit => BonusEarned
  BY BonusRead DEF BInit, BonusKeysOwn
<1>2. JobInvariant /\ JobInvariant' /\ BonusEarned /\ [BNext]_bvars => BonusEarned'
  <2> SUFFICES ASSUME JobInvariant, JobInvariant', BonusEarned, [BNext]_bvars,
                      NEW w \in Wallets, NEW d \in Days,
                      event'[BonusKey[w][d]] # Null
               PROVE  Earned(event', w, d)
    BY BonusReadNext
  <2>1. PICK k \in Keys : k = BonusKey[w][d]
    BY BonusAssumption
  <2>2. EventsInvariant /\ EventsInvariant' /\ EventsGrow
    BY EventWriters DEF JobInvariant, Stepped, EventsGrow
  <2>3. CASE event[k] # Null
    BY <2>1, <2>2, <2>3, BonusRead, EarnedLasts
  <2>4. CASE event[k] = Null
    <3>1. PICK p \in Workers :
            call[p] # Null /\ call[p].kind = "issue" /\ call[p].key = k
      <4>1. event' # event /\ event'[k] # Null
        BY <2>1, <2>4
      <4>2. PICK p \in Workers : Stepped(p)
        BY <4>1, EventWriters
      <4> QED BY <2>4, <4>1, <4>2 DEF Stepped
    <3>2. job[p] # Null
      BY <2>1, <3>1 DEF JobInvariant, JobOK, BonusKeysOwn
    <3>3. /\ job[p].student \in Wallets /\ job[p].week \in ScoredWeeks
          /\ BonusKey[job[p].student][job[p].week] = BonusKey[w][d]
          /\ Earned(event, job[p].student, job[p].week)
      <4>1. JobOK(p)
        BY DEF JobInvariant
      <4>2. /\ call[p] = BonusCall(job[p].student, job[p].week)
            /\ job[p].student \in Wallets /\ job[p].week \in ScoredWeeks
            /\ Earned(event, job[p].student, job[p].week)
        BY <3>1, <3>2, <4>1 DEF JobOK
      <4> QED BY <2>1, <3>1, <4>2 DEF BonusCall
    <3>4. job[p].student = w /\ job[p].week = d
      BY <3>3 DEF BonusKeysOwn
    <3> QED BY <2>2, <3>3, <3>4, EarnedLasts
  <2> QED BY <2>3, <2>4
<1> QED BY <1>1, <1>2, JobInvariance, PTL DEF BSpec

-----------------------------------------------------------------------------
(* The batch.                                                              *)

BonusKeys == {BonusKey[w][d] : w \in Wallets, d \in ScoredWeeks}

(* The bonus rule has no limits and is worth something, and nothing but a  *)
(* bonus is posted under the key of one: redemptions are prefixed with     *)
(* redeem:, approvals with earning-approval-, and administrators choose    *)
(* other keys (earning_service.py, lines 40 and 154).                      *)
BonusUnhindered ==
    /\ DailyLimit[BonusRule] = Null /\ WeeklyLimit[BonusRule] = Null
    /\ TokenAmount[BonusRule] # 0
    /\ \A b \in BonusKeys :
         /\ \A r \in Requests : r.op # "earn" => r.key # b
         /\ \A c \in Calls : c.kind # "issue" => ApprovalKey[c.key] # b

(* Under the key of a bonus the ledger has only the bonus.                 *)
KeysFree ==
    /\ txLock \in [Keys -> Workers \cup {Null}]
    /\ \A b \in BonusKeys :
          ledger[b] # Null \/ txLock[b] # Null => event[b] # Null

(* A student owed the bonus is still to be considered, or being            *)
(* considered and found active, or paid.                                   *)
OwedOK(p) ==
    job[p] # Null =>
      /\ job[p].owed \subseteq Deserving[job[p].week]
      /\ job[p].seen # Null => \A w \in job[p].owed : job[p].seen[w]
      /\ \A w \in job[p].owed :
            \/ w \in job[p].todo \cup {job[p].student}
            \/ event[BonusKey[w][job[p].week]] # Null
      /\ epc[p] \notin {"none", "findEvent"} /\ job[p].student \in job[p].owed
            => sawActive[p]

BatchInvariant ==
    /\ KeysFree
    /\ \A p \in Workers : OwedOK(p)

(* A step that commits nothing in the ledger: it locks transactions it has *)
(* found, if any.                                                          *)
LedgerKept ==
    /\ ledger' = ledger
    /\ txLock' \in [Keys -> Workers \cup {Null}]
    /\ \A k \in Keys : txLock'[k] # Null => txLock[k] # Null \/ ledger[k] # Null

LEMMA BonusKeyTyped ==
    ASSUME NEW b \in BonusKeys
    PROVE  b \in Keys
BY BonusAssumption DEF BonusKeys, ScoredWeeks

LEMMA KeysFreeKept ==
    ASSUME KeysFree, LedgerKept, EventsGrow
    PROVE  KeysFree'
<1>1. ASSUME NEW b \in BonusKeys, ledger'[b] # Null \/ txLock'[b] # Null
      PROVE  event'[b] # Null
  <2>1. b \in Keys /\ event[b] # Null
    BY <1>1, BonusKeyTyped DEF KeysFree, LedgerKept
  <2> QED BY <2>1 DEF EventsGrow
<1> QED BY <1>1 DEF KeysFree, LedgerKept, BonusKeys, ScoredWeeks

LEMMA RollbackKeeps ==
    ASSUME KeysFree, NEW p \in Workers, NEW a, Rollback(p, a)
    PROVE  LedgerKept
BY DEF KeysFree, Rollback, EndTransaction, store, LedgerKept

LEMMA UnchangedKeeps ==
    ASSUME KeysFree, UNCHANGED <<store, txLock>>
    PROVE  LedgerKept
BY DEF KeysFree, store, LedgerKept

LEMMA StatementsKeep ==
    ASSUME KeysFree, NEW p \in Workers,
           RequireActive(p) \/ LockAccount(p) \/ SumCredits(p) \/ SumDebits(p)
           \/ ReversalKey(p) \/ LockOriginal(p) \/ ExistingKey(p) \/ InsertRow(p)
           \/ InsertEntries(p)
    PROVE  LedgerKept
<1>1. CASE \E a : Rollback(p, a)
  BY <1>1, RollbackKeeps
<1>2. CASE UNCHANGED <<store, txLock>>
  BY <1>2, UnchangedKeeps
<1>3. CASE /\ Original(req[p]) # Null /\ UNCHANGED store
           /\ txLock' = [txLock EXCEPT ![req[p].original] = p]
  BY <1>3 DEF KeysFree, LedgerKept, store, Original
<1>4. CASE RequireActive(p) \/ LockAccount(p) \/ SumCredits(p) \/ SumDebits(p)
  BY <1>1, <1>2, <1>4 DEF RequireActive, LockAccount, SumCredits, SumDebits, locks
<1>5. CASE ReversalKey(p) \/ LockOriginal(p)
  BY <1>1, <1>2, <1>3, <1>5 DEF ReversalKey, LockOriginal, locks
<1>6. CASE ExistingKey(p) \/ InsertRow(p) \/ InsertEntries(p)
  BY <1>1, <1>2, <1>6 DEF ExistingKey, InsertRow, InsertEntries, locks
<1> QED BY <1>4, <1>5, <1>6

LEMMA CommitKeeps ==
    ASSUME KeysFree, EventsGrow, NEW p \in Workers, Commit(p),
           req[p].key \in BonusKeys => event'[req[p].key] # Null
    PROVE  KeysFree'
<1>1. txLock' \in [Keys -> Workers \cup {Null}]
      /\ \A k \in Keys : txLock'[k] # Null => txLock[k] # Null
  BY DEF Commit, EndTransaction, KeysFree
<1>2. ASSUME NEW b \in BonusKeys, ledger'[b] # Null \/ txLock'[b] # Null
      PROVE  event'[b] # Null
  <2>1. event[b] # Null => event'[b] # Null
    BY BonusKeyTyped DEF EventsGrow
  <2>2. CASE b = req[p].key
    BY <2>2
  <2>3. CASE b # req[p].key /\ MarksOriginal(p) /\ b = req[p].original
    <3>1. txLock[b] # Null
      BY <2>3, NullAssumption DEF MarksOriginal
    <3> QED BY <2>1, <3>1 DEF KeysFree
  <2>4. CASE b # req[p].key /\ ~(MarksOriginal(p) /\ b = req[p].original)
    <3>1. ledger'[b] = ledger[b]
      BY <2>1, <2>4, BonusKeyTyped DEF Commit, LedgerAfter
    <3> QED BY <1>1, <1>2, <2>1, <3>1, BonusKeyTyped DEF KeysFree
  <2> QED BY <2>2, <2>3, <2>4
<1> QED BY <1>1, <1>2 DEF KeysFree, BonusKeys, ScoredWeeks

LEMMA CommitEventKeeps ==
    ASSUME BonusUnhindered, JobInvariant, KeysFree, EventsGrow,
           NEW p \in Workers, CommitEvent(p)
    PROVE  KeysFree'
<1>1. CASE pc[p] # "commit"
  BY <1>1, RollbackKeeps, KeysFreeKept DEF CommitEvent
<1>2. CASE pc[p] = "commit"
  <2>1. EventsInvariant /\ JobOK(p) /\ Ready(p) /\ epc[p] = "commit"
    BY DEF JobInvariant, EventsInvariant, CommitEvent
  <2>2. call[p] # Null /\ req[p] # Null
    BY <1>2, <2>1 DEF Ready
  <2>3. req[p].key = LedgerKey(call[p])
    BY <2>1, <2>2 DEF Ready, Posting
  <2>4. CASE call[p].kind = "issue"
    <3>1. event'[call[p].key] # Null
      BY <2>1, Written, EarningAssumption DEF EventsInvariant, Typed
    <3> QED BY <1>2, <2>3, <2>4, <3>1, CommitKeeps DEF CommitEvent, LedgerKey
  <2>5. CASE call[p].kind # "issue"
    <3>1. call[p] \in Calls
      BY <2>1, <2>2, <2>5 DEF JobOK, BonusCall
    <3>2. req[p].key \notin BonusKeys
      BY <2>3, <2>5, <3>1 DEF BonusUnhindered, LedgerKey
    <3> QED BY <1>2, <3>2, CommitKeeps DEF CommitEvent
  <2> QED BY <2>4, <2>5
<1> QED BY <1>1, <1>2

LEMMA CommitLedgerKeeps ==
    ASSUME BonusUnhindered, JobInvariant, KeysFree, EventsGrow,
           NEW p \in Workers, CommitLedger(p)
    PROVE  KeysFree'
<1>1. Ready(p) /\ epc[p] = "none" /\ Commit(p) /\ pc[p] = "commit"
  BY DEF JobInvariant, EventsInvariant, CommitLedger, Commit
<1>2. req[p] \in Requests /\ req[p].op # "earn"
  BY <1>1 DEF Ready
<1>3. req[p].key \notin BonusKeys
  BY <1>2 DEF BonusUnhindered
<1> QED BY <1>1, <1>3, CommitKeeps

(* Every other statement commits nothing in the ledger.                    *)
LEMMA OthersKeep ==
    ASSUME KeysFree, NEW p \in Workers,
           \/ FindEvent(p) \/ LockWallet(p) \/ FindAgain(p) \/ CheckDaily(p)
           \/ CheckWeekly(p) \/ InsertEvent(p) \/ Raced(p) \/ LockEvent(p)
           \/ CallEarn(p) \/ Post(p) \/ PlainLedger(p)
           \/ JobFindEvent(p) \/ JobFindAgain(p)
           \/ StartCall(p) \/ StartLedgerCall(p) \/ Dies(p)
           \/ StartRun(p) \/ NextStudent(p) \/ CountDays(p)
           \/ IssueFails(p) \/ FinishRun(p) \/ RunDies(p)
    PROVE  LedgerKept
<1> USE DEF vars, locks
<1>1. CASE \E a : Rollback(p, a)
  BY <1>1, RollbackKeeps
<1>2. CASE UNCHANGED <<store, txLock>>
  BY <1>2, UnchangedKeeps
<1>3. CASE FindEvent(p) \/ FindAgain(p) \/ JobFindEvent(p) \/ JobFindAgain(p)
  BY <1>1, <1>2, <1>3 DEF FindEvent, FindAgain, JobFindEvent, JobFindAgain,
     EndSession, Returns
<1>4. CASE CheckDaily(p) \/ CheckWeekly(p) \/ InsertEvent(p) \/ Raced(p)
  BY <1>1, <1>2, <1>4 DEF CheckDaily, CheckWeekly, CheckLimit, InsertEvent, Raced,
     EndSession
<1>5. CASE LockWallet(p) \/ LockEvent(p) \/ CallEarn(p)
  BY <1>1, <1>2, <1>5 DEF LockWallet, LockEvent, CallEarn, EndSession
<1>6. CASE Post(p) \/ PlainLedger(p)
  BY <1>6, StatementsKeep DEF Post, PlainLedger
<1>7. CASE StartCall(p) \/ StartLedgerCall(p) \/ Dies(p)
  BY <1>1, <1>2, <1>7 DEF StartCall, StartLedgerCall, Begin, Dies
<1>8. CASE StartRun(p) \/ NextStudent(p) \/ CountDays(p)
  BY <1>2, <1>8 DEF StartRun, NextStudent, CountDays
<1>9. CASE IssueFails(p) \/ FinishRun(p) \/ RunDies(p)
  BY <1>1, <1>9 DEF IssueFails, FinishRun, RunDies
<1> QED BY <1>3, <1>4, <1>5, <1>6, <1>7, <1>8, <1>9

LEMMA KeysFreeStep ==
    ASSUME BonusUnhindered, JobInvariant, KeysFree, EventsGrow, [BNext]_bvars
    PROVE  KeysFree'
<1>1. ASSUME NEW p \in Workers, CommitEvent(p) \/ CommitLedger(p)
      PROVE  KeysFree'
  BY <1>1, CommitEventKeeps, CommitLedgerKeeps
<1>2. CASE UNCHANGED bvars \/ \E w \in Wallets : FreezeWallet(w)
  BY <1>2, UnchangedKeeps, KeysFreeKept DEF bvars, vars, locks, FreezeWallet,
     SetWalletStatus
<1>3. ASSUME NEW p \in Workers,
             StartRun(p) \/ RunStep(p) \/ IssueFails(p) \/ RunDies(p) \/ Staff(p),
             ~CommitEvent(p), ~CommitLedger(p)
      PROVE  LedgerKept
  BY <1>3, OthersKeep DEF RunStep, Issuing, Staff, StaffStep, CallStep
<1> QED BY <1>1, <1>2, <1>3, KeysFreeKept DEF BNext

(* A statement of p leaves the place and the loaded status of q.           *)
LEMMA SessionsApart ==
    ASSUME EventsInvariant, NEW p \in Workers, NEW q \in Workers \ {p},
           \/ CallStep(p) \/ JobFindEvent(p) \/ JobFindAgain(p)
           \/ StartCall(p) \/ StartLedgerCall(p) \/ Dies(p)
           \/ StartRun(p) \/ NextStudent(p) \/ CountDays(p)
           \/ IssueFails(p) \/ FinishRun(p) \/ RunDies(p)
    PROVE  epc'[q] = epc[q] /\ sawActive'[q] = sawActive[q]
<1>1. CASE \E a : Answer(p, a)
  BY <1>1 DEF Answer, Continue, EventsInvariant, Typed
<1>2. CASE /\ \E s : Continue(p, s)
           /\ \/ sawActive' = sawActive
              \/ \E v : sawActive' = [sawActive EXCEPT ![p] = v]
  BY <1>2 DEF Continue, EventsInvariant, Typed
<1>3. CASE UNCHANGED <<epc, sawActive>>
  BY <1>3
<1>4. CASE FindEvent(p) \/ FindAgain(p) \/ JobFindEvent(p) \/ JobFindAgain(p)
  BY <1>1, <1>2, <1>4 DEF FindEvent, FindAgain, JobFindEvent, JobFindAgain,
     EndSession, Returns
<1>5. CASE CheckDaily(p) \/ CheckWeekly(p) \/ InsertEvent(p) \/ Raced(p)
  BY <1>1, <1>2, <1>5 DEF CheckDaily, CheckWeekly, CheckLimit, InsertEvent, Raced,
     EndSession
<1>6. CASE LockWallet(p) \/ LockEvent(p) \/ CallEarn(p)
  BY <1>1, <1>2, <1>3, <1>6 DEF LockWallet, LockEvent, CallEarn, EndSession, evars
<1>7. CASE Post(p) \/ PlainLedger(p) \/ CommitEvent(p) \/ CommitLedger(p)
  BY <1>1, <1>2, <1>3, <1>7 DEF Post, PlainLedger, CommitEvent, CommitLedger, evars
<1>8. CASE StartCall(p) \/ StartLedgerCall(p) \/ Dies(p)
  BY <1>1, <1>2, <1>3, <1>8 DEF StartCall, StartLedgerCall, Begin, Dies
<1>9. CASE StartRun(p) \/ NextStudent(p) \/ CountDays(p)
  BY <1>2, <1>3, <1>9 DEF StartRun, NextStudent, CountDays, evars
<1>10. CASE IssueFails(p) \/ FinishRun(p) \/ RunDies(p)
  BY <1>1, <1>10 DEF IssueFails, FinishRun, RunDies
<1> QED BY <1>4, <1>5, <1>6, <1>7, <1>8, <1>9, <1>10 DEF CallStep

(* The run of q goes on as it is, but for those who lose their claim.      *)
RunKept(q) ==
    /\ job'[q] = Null <=> job[q] = Null
    /\ job[q] # Null => \E o \in SUBSET job[q].owed :
          /\ job'[q] = [job[q] EXCEPT !.owed = o]
          /\ o \subseteq Deserving'[job[q].week]

LEMMA DeservingStays ==
    ASSUME UNCHANGED <<active, ledger, event>>
    PROVE  Deserving' = Deserving
BY DEF Deserving, AttendanceDays

LEMMA WatchedKept ==
    ASSUME JobInvariant, NEW j \in [Workers -> Run \cup {Null}], job' = Watched(j),
           NEW q \in Workers, j[q] = job[q]
    PROVE  RunKept(q)
<1>1. job'[q] = Null <=> job[q] = Null
  BY WatchedRuns
<1>2. ASSUME job[q] # Null
      PROVE  \E o \in SUBSET job[q].owed :
                /\ job'[q] = [job[q] EXCEPT !.owed = o]
                /\ o \subseteq Deserving'[job[q].week]
  <2> DEFINE o == job[q].owed \cap Deserving'[job[q].week]
  <2>1. job[q] \in Run
    BY <1>2 DEF JobInvariant
  <2>2. job'[q] = [job[q] EXCEPT !.owed = o]
    BY <1>2 DEF Watched
  <2> QED BY <2>2
<1> QED BY <1>1, <1>2 DEF RunKept

LEMMA SameKept ==
    ASSUME JobInvariant, NEW q \in Workers, OwedOK(q), job'[q] = job[q],
           UNCHANGED <<active, ledger, event>>
    PROVE  RunKept(q)
<1>1. ASSUME job[q] # Null
      PROVE  /\ job'[q] = [job[q] EXCEPT !.owed = job[q].owed]
             /\ job[q].owed \subseteq Deserving'[job[q].week]
  <2>1. job[q] \in Run
    BY <1>1 DEF JobInvariant
  <2>2. job[q].owed \subseteq Deserving'[job[q].week]
    BY <1>1, DeservingStays DEF OwedOK
  <2> QED BY <2>1, <2>2 DEF Run
<1> QED BY <1>1 DEF RunKept

LEMMA OwedLasts ==
    ASSUME JobInvariant, NEW q \in Workers, OwedOK(q), RunKept(q), EventsGrow,
           epc'[q] = epc[q], sawActive'[q] = sawActive[q]
    PROVE  OwedOK(q)'
<1>1. CASE job[q] = Null
  BY <1>1 DEF RunKept, OwedOK
<1>2. CASE job[q] # Null
  <2>1. job[q] \in Run
    BY <1>2 DEF JobInvariant
  <2>2. PICK o \in SUBSET job[q].owed :
          /\ job'[q] = [job[q] EXCEPT !.owed = o]
          /\ o \subseteq Deserving'[job[q].week]
    BY <1>2 DEF RunKept
  <2>3. /\ job'[q].week = job[q].week /\ job'[q].owed = o
        /\ job'[q].seen = job[q].seen /\ job'[q].todo = job[q].todo
        /\ job'[q].student = job[q].student
    BY <2>1, <2>2 DEF Run
  <2>4. \A w \in o : event[BonusKey[w][job[q].week]] # Null
                       => event'[BonusKey[w][job[q].week]] # Null
    <3>1. \A w \in o : BonusKey[w][job[q].week] \in Keys
      BY <2>1, BonusAssumption DEF Run
    <3> QED BY <3>1 DEF EventsGrow
  <2> QED BY <1>2, <2>2, <2>3, <2>4 DEF OwedOK
<1> QED BY <1>1, <1>2

(* Those listed as deserving are active, and all are still to come.        *)
LEMMA StartRunOwes ==
    ASSUME JobInvariant, NEW p \in Workers, StartRun(p)
    PROVE  OwedOK(p)'
<1>1. PICK week \in Days :
        job' = [job EXCEPT ![p] =
                  [week |-> week, todo |-> Wallets, student |-> Null,
                   seen |-> active, owed |-> Deserving[week]]]
  BY WeekScored DEF JobInvariant, StartRun
<1>2. job'[p] = [week |-> week, todo |-> Wallets, student |-> Null,
                 seen |-> active, owed |-> Deserving[week]]
  BY <1>1 DEF JobInvariant
<1>3. epc'[p] = "none" /\ Deserving' = Deserving
  BY DeservingStays DEF StartRun, vars, evars, store
<1>4. \A w \in Deserving[week] : w \in Wallets /\ active[w]
  BY DEF Deserving
<1> QED BY <1>2, <1>3, <1>4 DEF OwedOK

(* A student the job passes over did not deserve the bonus.                *)
LEMMA NextStudentOwes ==
    ASSUME JobInvariant, NEW p \in Workers, OwedOK(p), NextStudent(p)
    PROVE  OwedOK(p)'
<1>1. /\ job[p] \in Run /\ job[p] # Null /\ epc'[p] = "none"
      /\ job[p].student = Null /\ Deserving' = Deserving /\ event' = event
  BY DeservingStays DEF NextStudent, Considering, JobInvariant, vars, evars, store
<1>2. PICK w \in job[p].todo :
        job' = [job EXCEPT ![p].todo = @ \ {w},
                           ![p].student =
                               IF ledger[PlainKey[w][job[p].week]] # Null
                               THEN Null ELSE w]
  BY DEF NextStudent
<1>3. PICK s : s = IF ledger[PlainKey[w][job[p].week]] # Null THEN Null ELSE w
  OBVIOUS
<1>4. job'[p] = [job[p] EXCEPT !.todo = @ \ {w}, !.student = s]
  BY <1>2, <1>3 DEF JobInvariant
<1>5. /\ job'[p].week = job[p].week /\ job'[p].owed = job[p].owed
      /\ job'[p].seen = job[p].seen /\ job'[p].todo = job[p].todo \ {w}
      /\ job'[p].student = s
  BY <1>1, <1>4 DEF Run
<1>6. w \in job[p].owed => s = w
  <2>1. job[p].owed \subseteq Deserving[job[p].week] /\ job[p].week \in Days
    BY <1>1 DEF OwedOK, Run
  <2> QED BY <1>3, <2>1 DEF Deserving
<1>7. \A v \in job[p].owed : v # Null
  BY <1>1, NullAssumption DEF Run, Accounts
<1> QED BY <1>1, <1>5, <1>6, <1>7 DEF OwedOK

(* Nor did one whose days do not suffice.                                  *)
LEMMA CountDaysOwes ==
    ASSUME JobInvariant, NEW p \in Workers, OwedOK(p), CountDays(p)
    PROVE  OwedOK(p)'
<1>1. /\ job[p] \in Run /\ job[p] # Null /\ job[p].student # Null
      /\ epc[p] = "none" /\ event' = event
      /\ Deserving' = Deserving
  BY DeservingStays
     DEF CountDays, Considering, JobInvariant, vars, evars, store
<1>2. CASE /\ Cardinality(AttendanceDays(job[p].student, job[p].week)) < RequiredDays
           /\ job' = [job EXCEPT ![p].student = Null] /\ UNCHANGED evars
  <2>1. /\ job'[p].week = job[p].week /\ job'[p].owed = job[p].owed
        /\ job'[p].seen = job[p].seen /\ job'[p].todo = job[p].todo
        /\ job'[p].student = Null /\ epc'[p] = "none"
    <3>1. job'[p] = [job[p] EXCEPT !.student = Null]
      BY <1>2 DEF JobInvariant
    <3> QED BY <1>1, <1>2, <3>1 DEF Run, evars
  <2>2. job[p].student \notin job[p].owed
    <3>1. IsFiniteSet(AttendanceDays(job[p].student, job[p].week))
      <4>1. AttendanceDays(job[p].student, job[p].week)
              \subseteq Attended(event, job[p].student, job[p].week)
        BY DEF AttendanceDays, Attended
      <4> QED BY <4>1, AttendedFinite, FS_Subset DEF JobInvariant
    <3>2. ~(Cardinality(AttendanceDays(job[p].student, job[p].week)) >= RequiredDays)
      BY <1>2, <3>1, FS_CardinalityType, BonusAssumption
    <3>3. job[p].owed \subseteq Deserving[job[p].week] /\ job[p].week \in Days
      BY <1>1 DEF OwedOK, Run
    <3> QED BY <3>2, <3>3 DEF Deserving
  <2>3. \A v \in job[p].owed : v # Null
    BY <1>1, NullAssumption DEF Run, Accounts
  <2> QED BY <1>1, <2>1, <2>2, <2>3 DEF OwedOK
<1>3. CASE job' = job /\ Continue(p, "findEvent")
  <2>1. epc'[p] = "findEvent"
    BY <1>3 DEF Continue, JobInvariant, EventsInvariant, Typed
  <2> QED BY <1>1, <1>3, <2>1 DEF OwedOK
<1> QED BY <1>2, <1>3 DEF CountDays

(* A student for whom the database fails is not owed the bonus by this run *)
(* any more; the others are.                                               *)
LEMMA RollbackOwes ==
    ASSUME JobInvariant, NEW p \in Workers, OwedOK(p),
           IssueFails(p) \/ FinishRun(p) \/ RunDies(p)
    PROVE  OwedOK(p)'
<1>1. CASE FinishRun(p) \/ RunDies(p)
  BY <1>1 DEF FinishRun, RunDies, OwedOK, JobInvariant
<1>2. CASE IssueFails(p)
  <2>1. /\ job[p] \in Run /\ job[p] # Null /\ epc'[p] = "none"
        /\ Deserving' = Deserving /\ event' = event
    BY <1>2, AnswerTyped, DeservingStays
       DEF IssueFails, JobInvariant, Rollback, store, Replies
  <2>2. job'[p] = [job[p] EXCEPT !.student = Null, !.seen = Null,
                                 !.owed = @ \ {job[p].student}]
    BY <1>2 DEF IssueFails, JobInvariant
  <2>3. /\ job'[p].week = job[p].week /\ job'[p].owed = job[p].owed \ {job[p].student}
        /\ job'[p].seen = Null /\ job'[p].todo = job[p].todo
        /\ job'[p].student = Null
    BY <2>1, <2>2 DEF Run
  <2> QED BY <2>1, <2>3 DEF OwedOK
<1> QED BY <1>1, <1>2

(* The bonus of a student owed it is refused by nothing: there is no       *)
(* limit, the wallet was active when it was loaded, and the key of the     *)
(* bonus is free in the ledger as long as it is free among the events.     *)
LEMMA PostSucceeds ==
    ASSUME BonusUnhindered, JobInvariant, KeysFree, NEW p \in Workers,
           job[p] # Null, Post(p)
    PROVE  pc'[p] # "idle"
<1>1. /\ EventsInvariant /\ Ready(p) /\ KeepsEvent(p) /\ JobOK(p)
      /\ epc[p] = "post" /\ pc[p] \in {"existingKey", "insertRow", "insertEntries"}
  BY DEF JobInvariant, EventsInvariant, Post, ExistingKey, InsertRow, InsertEntries
<1>2. call[p] # Null /\ req[p] # Null
  BY <1>1 DEF Ready
<1>3. /\ job[p].student \in Wallets /\ job[p].week \in ScoredWeeks
      /\ call[p] = BonusCall(job[p].student, job[p].week)
  BY <1>1, <1>2 DEF JobOK
<1>4. /\ req[p].op = "earn" /\ req[p].key = BonusKey[job[p].student][job[p].week]
      /\ req[p].amount = TokenAmount[BonusRule]
  BY <1>1, <1>2, <1>3 DEF Ready, Posting, LedgerKey, BonusCall
<1>5. event[req[p].key] = Null
  BY <1>1, <1>3, <1>4 DEF KeepsEvent, Posting, BonusCall
<1>6. ledger[req[p].key] = Null
  BY <1>3, <1>4, <1>5 DEF KeysFree, BonusKeys
<1>7. Amount(req[p]) # 0
  BY <1>4 DEF Amount, BonusUnhindered
<1>8. CASE ExistingKey(p)
  <2>1. pc' = [pc EXCEPT ![p] = "insertRow"]
    BY <1>6, <1>7, <1>8 DEF ExistingKey, Goto
  <2> QED BY <1>1, <2>1 DEF EventsInvariant, Typed
<1>9. CASE InsertRow(p)
  <2>1. pc' = [pc EXCEPT ![p] = "insertEntries"]
    BY <1>6, <1>9 DEF InsertRow, Goto
  <2> QED BY <1>1, <2>1 DEF EventsInvariant, Typed
<1>10. CASE InsertEntries(p)
  <2>1. pc' = [pc EXCEPT ![p] = "commit"]
    BY <1>10 DEF InsertEntries, Goto
  <2> QED BY <1>1, <2>1 DEF EventsInvariant, Typed
<1> QED BY <1>8, <1>9, <1>10 DEF Post

(* When the call is over, the bonus is there.                              *)
LEMMA IssueOutcome ==
    ASSUME BonusUnhindered, JobInvariant, KeysFree, NEW p \in Workers, OwedOK(p),
           Issuing(p), call'[p] = Null, job[p].student \in job[p].owed
    PROVE  event'[call[p].key] # Null
<1>1. /\ EventsInvariant /\ JobOK(p) /\ job[p] # Null /\ call[p] # Null
      /\ call[p].key \in Keys /\ call[p].rule = BonusRule
  BY CallTyped DEF JobInvariant, Issuing, JobOK, BonusCall
<1>2. call' # call
  BY <1>1
<1>3. CASE JobFindEvent(p) \/ JobFindAgain(p)
  BY <1>2, <1>3 DEF JobFindEvent, JobFindAgain, FindAgain, Returns
<1>4. CASE LockWallet(p) \/ InsertEvent(p)
  BY <1>2, <1>4 DEF LockWallet, InsertEvent
<1>5. CASE CheckDaily(p) \/ CheckWeekly(p)
  BY <1>1, <1>2, <1>5 DEF CheckDaily, CheckWeekly, CheckLimit, BonusUnhindered
<1>6. CASE Raced(p)
  <2>1. KeepsEvent(p)
    BY <1>1 DEF EventsInvariant
  <2> QED BY <1>6, <2>1 DEF Raced, KeepsEvent, EndSession
<1>7. CASE CallEarn(p)
  <2>1. sawActive[p]
    BY <1>1, <1>7 DEF OwedOK, CallEarn
  <2> QED BY <1>2, <1>7, <2>1 DEF CallEarn, evars
<1>8. CASE Post(p)
  <2>1. pc'[p] # "idle"
    BY <1>1, <1>8, PostSucceeds
  <2> QED BY <1>2, <1>8, <2>1 DEF Post
<1>9. CASE CommitEvent(p)
  <2>1. PICK k \in Keys, e \in EventType :
          k = call[p].key /\ event' = [event EXCEPT ![k] = e]
    BY <1>1, <1>9, Written
  <2>2. e # Null
    BY EarningAssumption
  <2> QED BY <1>1, <2>1, <2>2 DEF EventsInvariant, Typed
<1> QED BY <1>3, <1>4, <1>5, <1>6, <1>7, <1>8, <1>9 DEF Issuing

(* The status that a call of the job has loaded, before it asks the        *)
(* ledger.                                                                 *)
LEMMA IssueSaw ==
    ASSUME JobInvariant, NEW p \in Workers, OwedOK(p),
           Issuing(p), call'[p] # Null, job[p].student \in job[p].owed
    PROVE  epc'[p] # "findEvent" => sawActive'[p]
<1>1. /\ EventsInvariant /\ JobOK(p) /\ job[p] \in Run /\ job[p] # Null
      /\ call[p] # Null /\ call[p].wallet = job[p].student
  BY DEF JobInvariant, Issuing, JobOK, BonusCall
<1>2. \A a : ~Answer(p, a)
  BY DEF Answer, JobInvariant, EventsInvariant, Typed
<1>3. CASE JobFindEvent(p)
  <2>1. active[job[p].student] /\ (job[p].seen # Null => job[p].seen[job[p].student])
    BY <1>1 DEF OwedOK, Deserving, Run
  <2>2. sawActive' = [sawActive EXCEPT ![p] =
                        IF job[p].seen = Null THEN active[job[p].student]
                        ELSE job[p].seen[job[p].student]]
    BY <1>1, <1>2, <1>3 DEF JobFindEvent, Returns
  <2>3. sawActive'[p] = IF job[p].seen = Null THEN active[job[p].student]
                        ELSE job[p].seen[job[p].student]
    BY <1>1, <2>2 DEF EventsInvariant, Typed
  <2> QED BY <2>1, <2>3
<1>4. CASE ~JobFindEvent(p)
  <2>1. epc[p] \notin {"none", "findEvent"} /\ sawActive' = sawActive
    <3>1. CASE LockWallet(p) \/ JobFindAgain(p) \/ CheckDaily(p) \/ CheckWeekly(p)
      BY <1>2, <3>1 DEF LockWallet, JobFindAgain, FindAgain, CheckDaily, CheckWeekly,
         CheckLimit, EndSession, Returns
    <3>2. CASE InsertEvent(p) \/ Raced(p) \/ CallEarn(p) \/ Post(p) \/ CommitEvent(p)
      BY <1>2, <3>2 DEF InsertEvent, Raced, CallEarn, Post, CommitEvent, EndSession, evars
    <3> QED BY <1>4, <3>1, <3>2 DEF Issuing
  <2>2. sawActive[p]
    BY <1>1, <2>1 DEF OwedOK
  <2> QED BY <2>1, <2>2
<1> QED BY <1>3, <1>4

LEMMA IssuingOwes ==
    ASSUME BonusUnhindered, JobInvariant, KeysFree, EventsGrow,
           NEW p \in Workers, OwedOK(p), Issuing(p)
    PROVE  OwedOK(p)'
<1>1. /\ job[p] \in Run /\ job[p] # Null /\ JobOK(p)
      /\ call[p].key = BonusKey[job[p].student][job[p].week]
  BY DEF JobInvariant, Issuing, JobOK, BonusCall
<1> DEFINE r == AfterIssue(p)
<1>2. /\ r \in Run /\ r # Null /\ r.week = job[p].week /\ r.owed = job[p].owed
      /\ r.todo = job[p].todo /\ r.seen \in {job[p].seen, Null}
      /\ r.student = IF call'[p] # Null THEN job[p].student ELSE Null
  <2>1. /\ r \in Run /\ r.week = job[p].week /\ r.owed = job[p].owed
        /\ r.todo = job[p].todo /\ r.seen \in {job[p].seen, Null}
        /\ r.student = IF call'[p] # Null THEN job[p].student ELSE Null
    BY <1>1 DEF AfterIssue, Run
  <2> QED BY <2>1, BonusAssumption
<1>3. job' = Watched([job EXCEPT ![p] = r])
  BY DEF Issuing
<1> HIDE DEF r
<1>4. PICK o \in SUBSET job[p].owed :
        /\ job'[p] = [r EXCEPT !.owed = o]
        /\ o \subseteq Deserving'[job[p].week]
  <2>1. job'[p] = [r EXCEPT !.owed = @ \cap Deserving'[r.week]]
    BY <1>2, <1>3 DEF Watched, JobInvariant
  <2> QED BY <1>2, <2>1
<1>5. /\ job'[p].week = job[p].week /\ job'[p].owed = o
      /\ job'[p].todo = job[p].todo /\ job'[p].seen \in {job[p].seen, Null}
      /\ job'[p].student = IF call'[p] # Null THEN job[p].student ELSE Null
  BY <1>2, <1>4 DEF Run
<1>6. \A w \in o : w \in Wallets /\ w # Null /\ w \in job[p].owed
  BY <1>1, NullAssumption DEF Run, Accounts
<1>7. ASSUME NEW w \in o
      PROVE  \/ w \in job'[p].todo \cup {job'[p].student}
             \/ event'[BonusKey[w][job[p].week]] # Null
  <2>1. CASE w = job[p].student
    BY <1>1, <1>5, <1>6, <2>1, IssueOutcome
  <2>2. CASE w \in job[p].todo
    BY <1>5, <2>2
  <2>3. CASE event[BonusKey[w][job[p].week]] # Null
    <3>1. BonusKey[w][job[p].week] \in Keys
      BY <1>1, <1>6, BonusAssumption DEF Run
    <3> QED BY <2>3, <3>1 DEF EventsGrow
  <2> QED BY <1>1, <1>6, <2>1, <2>2, <2>3 DEF OwedOK
<1>8. ASSUME epc'[p] \notin {"none", "findEvent"}, job'[p].student \in o
      PROVE  sawActive'[p]
  <2>1. call'[p] # Null /\ job[p].student \in job[p].owed
    BY <1>5, <1>6, <1>8
  <2> QED BY <1>8, <2>1, IssueSaw
<1>9. job'[p].seen # Null => \A w \in o : job'[p].seen[w]
  BY <1>1, <1>5, <1>6 DEF OwedOK
<1> QED BY <1>4, <1>5, <1>7, <1>8, <1>9 DEF OwedOK

LEMMA OwedStep ==
    ASSUME BonusUnhindered, JobInvariant, KeysFree, EventsGrow,
           \A q \in Workers : OwedOK(q), [BNext]_bvars, NEW q \in Workers
    PROVE  OwedOK(q)'
<1>1. EventsInvariant /\ job \in [Workers -> Run \cup {Null}]
  BY DEF JobInvariant
<1>2. CASE UNCHANGED bvars
  <2>1. UNCHANGED <<active, ledger, event, epc, sawActive, job>>
    BY <1>2 DEF bvars, vars, evars, store
  <2>2. RunKept(q)
    BY <2>1, SameKept
  <2> QED BY <2>1, <2>2, OwedLasts
<1>3. ASSUME NEW w \in Wallets, FreezeWallet(w), job' = Watched(job)
      PROVE  OwedOK(q)'
  <2>1. RunKept(q)
    BY <1>1, <1>3, WatchedKept
  <2> QED BY <1>3, <2>1, OwedLasts DEF FreezeWallet, evars
<1>4. ASSUME NEW p \in Workers, Staff(p)
      PROVE  OwedOK(q)'
  <2>1. RunKept(q)
    BY <1>1, <1>4, WatchedKept DEF Staff, StaffStep
  <2>2. CASE q # p
    <3>1. epc'[q] = epc[q] /\ sawActive'[q] = sawActive[q]
      BY <1>1, <1>4, <2>2, SessionsApart DEF Staff, StaffStep
    <3> QED BY <2>1, <3>1, OwedLasts
  <2>3. CASE q = p
    BY <1>4, <2>1, <2>3 DEF Staff, StaffStep, RunKept, OwedOK
  <2> QED BY <2>2, <2>3
<1>5. ASSUME NEW p \in Workers, Issuing(p)
      PROVE  OwedOK(q)'
  <2>1. CASE q = p
    BY <1>5, <2>1, IssuingOwes
  <2>2. CASE q # p
    <3>1. epc'[q] = epc[q] /\ sawActive'[q] = sawActive[q]
      BY <1>1, <1>5, <2>2, SessionsApart DEF Issuing, CallStep
    <3> DEFINE j == [job EXCEPT ![p] = AfterIssue(p)]
    <3>2. AfterIssue(p) \in Run
      BY <1>1, <1>5 DEF AfterIssue, Issuing, Run
    <3>3. j \in [Workers -> Run \cup {Null}] /\ j[q] = job[q]
      BY <1>1, <2>2, <3>2
    <3>4. job' = Watched(j)
      BY <1>5 DEF Issuing
    <3> HIDE DEF j
    <3>5. RunKept(q)
      BY <3>3, <3>4, WatchedKept
    <3> QED BY <3>1, <3>5, OwedLasts
  <2> QED BY <2>1, <2>2
<1>6. ASSUME NEW p \in Workers,
             \/ StartRun(p) \/ NextStudent(p) \/ CountDays(p)
             \/ IssueFails(p) \/ FinishRun(p) \/ RunDies(p)
      PROVE  OwedOK(q)'
  <2>1. CASE q = p
    BY <1>6, <2>1, StartRunOwes, NextStudentOwes, CountDaysOwes, RollbackOwes
  <2>2. CASE q # p
    <3>1. epc'[q] = epc[q] /\ sawActive'[q] = sawActive[q]
      BY <1>1, <1>6, <2>2, SessionsApart
    <3>2. job'[q] = job[q]
      BY <1>1, <1>6, <2>2
         DEF StartRun, NextStudent, CountDays, IssueFails, FinishRun, RunDies
    <3>3. UNCHANGED <<active, ledger, event>>
      BY <1>6 DEF StartRun, NextStudent, CountDays, IssueFails, FinishRun, RunDies,
         Rollback, vars, evars, store
    <3>4. RunKept(q)
      BY <3>2, <3>3, SameKept
    <3> QED BY <3>1, <3>4, OwedLasts
  <2> QED BY <2>1, <2>2
<1> QED BY <1>2, <1>3, <1>4, <1>5, <1>6 DEF BNext, RunStep

(* A run that gets to its end has paid everybody who deserved the bonus    *)
(* all along: no other student's failure, no repeated run and no call of   *)
(* the staff makes the job pass over one of them (the try and except in    *)
(* the loop of tasks.py, lines 138-191).                                   *)
THEOREM NobodyPassedOver == ASSUME BonusUnhindered PROVE BSpec => BatchIsolated
<1>1. BInit => BatchInvariant
  <2> SUFFICES ASSUME BInit
               PROVE  BatchInvariant
    OBVIOUS
  <2>1. ASSUME NEW b \in BonusKeys, ledger[b] # Null
        PROVE  event[b] # Null
    BY <2>1, BonusKeyTyped DEF BInit, EarnedRow
  <2> QED BY <2>1, BonusKeyTyped DEF BInit, BatchInvariant, KeysFree, OwedOK
<1>2. JobInvariant /\ JobInvariant' /\ BatchInvariant /\ [BNext]_bvars
        => BatchInvariant'
  <2> SUFFICES ASSUME JobInvariant, JobInvariant', BatchInvariant, [BNext]_bvars
               PROVE  BatchInvariant'
    OBVIOUS
  <2>1. EventsGrow
    BY EventWriters DEF JobInvariant, Stepped, EventsGrow
  <2> QED BY <2>1, KeysFreeStep, OwedStep DEF BatchInvariant
<1>3. JobInvariant /\ BatchInvariant =>
        \A p \in Workers :
            Considering(p) /\ job[p].student = Null /\ job[p].todo = {} =>
                \A w \in job[p].owed :
                    event[BonusKey[w][job[p].week]] # Null
  <2> SUFFICES ASSUME JobInvariant, BatchInvariant, NEW p \in Workers,
                      Considering(p), job[p].student = Null, job[p].todo = {},
                      NEW w \in job[p].owed
               PROVE  event[BonusKey[w][job[p].week]] # Null
    OBVIOUS
  <2>1. job[p] \in Run /\ job[p] # Null
    BY DEF Considering, JobInvariant
  <2>2. w # Null
    BY <2>1, NullAssumption DEF Run, Accounts
  <2> QED BY <2>1, <2>2 DEF BatchInvariant, OwedOK
<1> QED BY <1>1, <1>2, <1>3, JobInvariance, PTL DEF BSpec, BatchIsolated
-----------------------------------------------------------------------------
(* Locks.                                                                  *)

PastAccount == {"sumCredits", "sumDebits", "existingKey", "insertRow",
                "insertEntries"}

OneSided(t) == ~(t.debit \in Wallets /\ t.credit \in Wallets)

Paid(w, d) == event[BonusKey[w][d]] # Null

(* A redemption, an adjustment or a reversal; one that has all its locks.  *)
Requesting(p) == epc[p] = "none" /\ pc[p] # "idle"
Locked(p) == pc[p] \in PastAccount \/ row[p] # Null

(* A call of issue_reward that has locked its account.                     *)
InIssue(p) ==
    \/ epc[p] \in {"findAgain", "checkDaily", "checkWeekly", "insertEvent"}
    \/ epc[p] \in Posting /\ call[p].kind = "issue"

(* Past its account lock, for the wallet w.                                *)
Serves(p, w) ==
    /\ Requesting(p) /\ pc[p] \in PastAccount \cup {"commit"}
    /\ req[p].op = "reversal" => txLock[req[p].original] = p
    /\ WalletOf(req[p]) = w

(* A session holds the account of whom it serves, and a run the accounts   *)
(* of those it found paid.                                                 *)
AccountsHeld(p) ==
    /\ InIssue(p) => accountLock[call[p].wallet] = p
    /\ Requesting(p) /\ Locked(p) /\ WalletOf(req[p]) \in Wallets
          => accountLock[WalletOf(req[p])] = p
    /\ \A w \in Wallets : accountLock[w] = p =>
          \/ InIssue(p) /\ call[p].wallet = w
          \/ job[p] # Null /\ Paid(w, job[p].week)
          \/ Serves(p, w)

(* Only reversals hold transactions, and only decisions hold events.       *)
RowsHeld(p) ==
    /\ Requesting(p) /\ req[p].op = "reversal"
       /\ (Locked(p) \/ pc[p] = "lockAccount") => txLock[req[p].original] = p
    /\ \A k \in Keys : txLock[k] = p =>
          Requesting(p) /\ pc[p] \in PastAccount \cup {"lockAccount", "commit"}
    /\ \A k \in Keys : eventLock[k] = p =>
          epc[p] \in Posting /\ call[p].kind # "issue"

AtStatement(p) ==
    /\ Requesting(p) =>
         /\ pc[p] \in {"reversalKey", "lockOriginal"} => req[p].op = "reversal"
         /\ pc[p] = "requireActive" => req[p].op # "reversal"
         /\ pc[p] = "lockAccount" => WalletOf(req[p]) \in Wallets
    /\ epc[p] \in Posting =>
         /\ pc[p] \in {"idle", "existingKey", "insertRow", "insertEntries", "commit"}
         /\ call[p].kind = "issue" /\ req[p] # Null => req[p].wallet = call[p].wallet
    /\ pc[p] = "insertRow" => Amount(req[p]) # 0
    /\ pc[p] = "insertEntries" => row[p] = NewRow(req[p])
    /\ row[p] # Null => pc[p] \in {"insertEntries", "commit"}
                        /\ ledger[req[p].key] = Null
    /\ job[p] # Null => job[p].week = WeekStart(UTCToday) - WeekLength

(* No transaction debits one student and credits another.                  *)
RowsTyped ==
    /\ accountLock \in [Wallets -> Workers \cup {Null}]
    /\ txLock \in [Keys -> Workers \cup {Null}]
    /\ ledger \in [Keys -> TxRecord \cup {Null}]
    /\ row \in [Workers -> TxRecord \cup {Null}]
    /\ \A k \in Keys : ledger[k] # Null => OneSided(ledger[k])
    /\ \A p \in Workers : row[p] # Null => OneSided(row[p])
    /\ \A k \in Keys : txLock[k] # Null => ledger[k] # Null

Holding(p) == AccountsHeld(p) /\ RowsHeld(p) /\ AtStatement(p)
LocksInvariant == RowsTyped /\ \A p \in Workers : Holding(p)

(* Students paid earlier come first: a run that waits for the account of a *)
(* student holds only accounts of students before.                         *)
RunWaits(p, v, d) ==
    /\ job[p] # Null /\ job[p].week = d
    /\ epc[p] = "lockWallet" /\ accountLock[v] = p
InOrder(d, rank, n) ==
    /\ \A w \in Wallets : Paid(w, d) <=> rank[w] < n
    /\ \A p \in Workers, v \in Wallets :
          RunWaits(p, v, d) => rank[v] < rank[call[p].wallet]

(* What a step of another leaves of the locks and rows of q.               *)
LocksApart(q) ==
    /\ \A w \in Wallets : accountLock'[w] = q <=> accountLock[w] = q
    /\ \A k \in Keys : txLock'[k] = q <=> txLock[k] = q
    /\ \A k \in Keys : eventLock'[k] = q <=> eventLock[k] = q
    /\ row'[q] = row[q]
    /\ row[q] # Null => ledger'[req[q].key] = Null
OthersLocks(p) == \A q \in Workers \ {p} : LocksApart(q)

(* A committed transaction keeps its entries.                              *)
RowsStay ==
    \A k \in Keys : ledger[k] # Null =>
        /\ ledger'[k] # Null
        /\ ledger'[k].debit = ledger[k].debit
        /\ ledger'[k].credit = ledger[k].credit
        /\ ledger'[k].amount = ledger[k].amount

LEMMA RequestKnown ==
    ASSUME JobInvariant, NEW p \in Workers, pc[p] # "idle"
    PROVE  /\ req[p] \in RequestType /\ req[p] # Null
           /\ req[p].op \in Ops /\ req[p].key \in Keys /\ req[p].wallet \in Wallets
           /\ req[p].amount \in Nat /\ req[p].original \in Keys
<1>1. req[p] # Null /\ req[p] \in RequestType
  BY DEF JobInvariant, EventsInvariant, Typed, Ready
<1> QED BY <1>1, AmountsAssumption DEF RequestType

LEMMA NoNullWorker ==
    ASSUME NEW p \in Workers
    PROVE  p # Null
BY NullAssumption

(* A reversal under way knows its original, which keeps its entries.       *)
LEMMA OriginalStays ==
    ASSUME JobInvariant, RowsStay, NEW p \in Workers, req'[p] = req[p],
           pc[p] # "idle",
           req[p].op = "reversal" => Original(req[p]) # Null
    PROVE  /\ WalletOf(req[p])' = WalletOf(req[p])
           /\ Amount(req[p])' = Amount(req[p])
           /\ NewRow(req[p])' = NewRow(req[p])
<1>1. req[p].op \in Ops /\ req[p].original \in Keys
  BY RequestKnown
<1>2. CASE req[p].op = "reversal"
  <2>1. /\ ledger'[req[p].original].debit = ledger[req[p].original].debit
        /\ ledger'[req[p].original].credit = ledger[req[p].original].credit
        /\ ledger'[req[p].original].amount = ledger[req[p].original].amount
    BY <1>1, <1>2 DEF RowsStay, Original
  <2> QED BY <1>2, <2>1
          DEF WalletOf, Amount, NewRow, DebitAccount, CreditAccount, Original
<1>3. CASE req[p].op # "reversal"
  BY <1>1, <1>3
     DEF WalletOf, Amount, NewRow, DebitAccount, CreditAccount, Ops
<1> QED BY <1>2, <1>3

(* A session that holds its original has found it.                         *)
LEMMA HeldIsThere ==
    ASSUME RowsTyped, NEW p \in Workers, NEW k \in Keys, txLock[k] = p
    PROVE  ledger[k] # Null /\ ledger[k] \in TxRecord /\ OneSided(ledger[k])
BY NoNullWorker DEF RowsTyped

(* A session keeps what it holds during a step of another.                 *)
LEMMA HeldStays ==
    ASSUME JobInvariant, LocksInvariant, EventsGrow, RowsStay, today' = today,
           NEW q \in Workers, SameRun(q), LocksApart(q),
           epc'[q] = epc[q], call'[q] = call[q], pc'[q] = pc[q], req'[q] = req[q]
    PROVE  Holding(q)'
<1>1. /\ Holding(q) /\ RowsTyped
      /\ epc'[q] = epc[q] /\ call'[q] = call[q] /\ pc'[q] = pc[q]
      /\ req'[q] = req[q] /\ row'[q] = row[q]
  BY DEF LocksInvariant, LocksApart
<1>2. call[q] # Null => call[q].wallet \in Wallets /\ call[q].key \in Keys
  BY CallTyped DEF JobInvariant
<1>3. /\ InIssue(q) => call[q] # Null
      /\ epc[q] \in Posting => call[q] # Null
  BY DEF JobInvariant, EventsInvariant, Ready, InIssue, Posting
<1>4. InIssue(q)' = InIssue(q) /\ Requesting(q)' = Requesting(q)
      /\ Locked(q)' = Locked(q)
  BY <1>1 DEF InIssue, Requesting, Locked
<1>5. ASSUME Requesting(q), Locked(q) \/ pc[q] = "lockAccount"
      PROVE  req[q].op = "reversal" => Original(req[q]) # Null
  BY <1>1, <1>5, RequestKnown, HeldIsThere DEF Holding, RowsHeld, Requesting, Original
<1>6. AccountsHeld(q)'
  <2>1. InIssue(q)' => accountLock'[call'[q].wallet] = q
    BY <1>1, <1>2, <1>3, <1>4 DEF Holding, AccountsHeld, LocksApart
  <2>2. ASSUME Requesting(q), Locked(q), WalletOf(req[q])' \in Wallets
        PROVE  accountLock'[WalletOf(req[q])'] = q
    <3>1. WalletOf(req[q])' = WalletOf(req[q])
      BY <1>1, <1>5, <2>2, OriginalStays DEF Requesting
    <3> QED BY <1>1, <2>2, <3>1 DEF Holding, AccountsHeld, LocksApart
  <2>3. ASSUME NEW w \in Wallets, accountLock'[w] = q
        PROVE  \/ InIssue(q)' /\ call'[q].wallet = w
               \/ job'[q] # Null /\ Paid(w, job[q].week)' /\ job'[q].week = job[q].week
               \/ Serves(q, w)'
    <3>1. \/ InIssue(q) /\ call[q].wallet = w
          \/ job[q] # Null /\ Paid(w, job[q].week)
          \/ Serves(q, w)
      BY <1>1, <2>3 DEF Holding, AccountsHeld, LocksApart
    <3>2. CASE InIssue(q) /\ call[q].wallet = w
      BY <1>1, <1>4, <3>2
    <3>3. CASE job[q] # Null /\ Paid(w, job[q].week)
      <4>1. BonusKey[w][job[q].week] \in Keys
        BY <3>3, BonusAssumption DEF JobInvariant, Run
      <4>2. PICK d : d = job[q].week
        OBVIOUS
      <4>3. event'[BonusKey[w][d]] # Null
        BY <3>3, <4>1, <4>2 DEF Paid, EventsGrow
      <4>4. job'[q] # Null /\ job'[q].week = d
        BY <3>3, <4>2 DEF SameRun
      <4> QED BY <4>2, <4>3, <4>4 DEF Paid, SameRun
    <3>4. CASE Serves(q, w)
      <4>1. pc[q] # "idle" /\ (req[q].op = "reversal" => Original(req[q]) # Null)
        <5>1. pc[q] # "idle"
          BY <3>4 DEF Serves, Requesting
        <5> QED BY <1>1, <3>4, <5>1, RequestKnown, HeldIsThere DEF Serves, Original
      <4>2. WalletOf(req[q])' = w
        BY <1>1, <3>4, <4>1, OriginalStays DEF Serves
      <4>3. req[q].op = "reversal" => txLock'[req[q].original] = q
        BY <3>4, <4>1, RequestKnown DEF Serves, LocksApart
      <4> QED BY <1>1, <1>4, <3>4, <4>2, <4>3 DEF Serves
    <3> QED BY <3>1, <3>2, <3>3, <3>4
  <2> QED BY <1>1, <1>4, <2>1, <2>2, <2>3 DEF AccountsHeld, Paid
<1>7. RowsHeld(q)'
  <2>1. ASSUME Requesting(q), req[q].op = "reversal",
               Locked(q) \/ pc[q] = "lockAccount"
        PROVE  txLock'[req[q].original] = q
    BY <1>1, <2>1, RequestKnown DEF Holding, RowsHeld, Requesting, LocksApart
  <2> QED BY <1>1, <1>4, <2>1 DEF Holding, RowsHeld, LocksApart
<1>8. AtStatement(q)'
  <2>1. AtStatement(q)
    BY <1>1 DEF Holding
  <2>2. Requesting(q) /\ pc[q] = "lockAccount" => WalletOf(req[q])' \in Wallets
    BY <1>1, <1>5, <2>1, OriginalStays DEF AtStatement, Requesting
  <2>3. ASSUME pc[q] \in {"insertRow", "insertEntries"}
        PROVE  /\ Amount(req[q])' = Amount(req[q])
               /\ NewRow(req[q])' = NewRow(req[q])
    <3>1. pc[q] # "idle" /\ Locked(q)
      BY <2>3 DEF Locked, PastAccount
    <3>2. CASE Requesting(q)
      BY <1>1, <1>5, <3>1, <3>2, OriginalStays
    <3>3. CASE ~Requesting(q)
      <4>1. req[q].op = "earn"
        BY <2>3, <3>1, <3>3, RequestKnown
           DEF Requesting, JobInvariant, EventsInvariant, Ready, Posting
      <4> QED BY <1>1, <3>1, <4>1, OriginalStays
    <3> QED BY <3>2, <3>3
  <2>4. job'[q] # Null => job'[q].week = (WeekStart(UTCToday) - WeekLength)'
    BY <2>1 DEF AtStatement, SameRun, WeekStart
  <2> QED BY <1>1, <1>4, <2>1, <2>2, <2>3, <2>4 DEF AtStatement, LocksApart
<1> QED BY <1>6, <1>7, <1>8 DEF Holding

LEMMA OthersHold ==
    ASSUME JobInvariant, LocksInvariant, NEW p \in Workers,
           Elsewhere(p), EventsGrow, OthersLocks(p), RowsStay, today' = today,
           NEW q \in Workers \ {p}, SameRun(q)
    PROVE  Holding(q)'
BY HeldStays DEF Elsewhere, OthersLocks

-----------------------------------------------------------------------------
(* Who waits for whom.                                                     *)

RequestKeys == {r.key : r \in {s \in Requests : s.op # "earn"}}
IssueKeys == {c.key : c \in {d \in Calls : d.kind = "issue"}}
DecisionKeys == {ApprovalKey[c.key] : c \in {d \in Calls : d.kind # "issue"}}

(* A key is used for one thing only: for one wallet or one original, for   *)
(* one event or one decision.  The scopes redeem:, issue: and              *)
(* earning-approval- keep the kinds apart (redemption_service.py, line 95, *)
(* earning_service.py, lines 40 and 154); administrators choose a new key  *)
(* for each adjustment and each reversal (admin_service.py, line 62).      *)
OneUsePerKey ==
    /\ \A r, s \in Requests : r.op # "earn" /\ s.op # "earn" /\ r.key = s.key =>
          /\ r.op = s.op
          /\ IF r.op = "reversal" THEN r.original = s.original
                                  ELSE r.wallet = s.wallet
    /\ \A c, d \in Calls : c.kind = "issue" /\ d.kind = "issue" /\ c.key = d.key
          => c.wallet = d.wallet
    /\ \A c, d \in Calls : c.kind # "issue" /\ d.kind # "issue"
                           /\ ApprovalKey[c.key] = ApprovalKey[d.key]
          => c.key = d.key
    /\ \A v, w \in Wallets, d \in ScoredWeeks : BonusKey[v][d] = BonusKey[w][d]
          => v = w
    /\ RequestKeys \cap (IssueKeys \cup DecisionKeys \cup BonusKeys) = {}
    /\ IssueKeys \cap (DecisionKeys \cup BonusKeys) = {}
    /\ DecisionKeys \cap BonusKeys = {}

(* A transaction is being inserted, or is inserted and not committed.      *)
Keyed(p) == pc[p] = "insertRow" \/ row[p] # Null

(* The call of a session that issues is the staff's or a run's.            *)
LEMMA IssuedBy ==
    ASSUME JobInvariant, NEW p \in Workers, call[p] # Null, call[p].kind = "issue"
    PROVE  \/ call[p] \in Calls /\ call[p].key \in IssueKeys
           \/ /\ job[p] # Null /\ job[p].week \in ScoredWeeks
              /\ call[p].wallet \in Wallets
              /\ call[p].key = BonusKey[call[p].wallet][job[p].week]
              /\ call[p].key \in BonusKeys
<1>1. JobOK(p)
  BY DEF JobInvariant
<1>2. CASE job[p] = Null
  BY <1>1, <1>2 DEF JobOK, IssueKeys
<1>3. CASE job[p] # Null
  BY <1>1, <1>3 DEF JobOK, BonusCall, BonusKeys
<1> QED BY <1>2, <1>3

(* Two issues under one key are for one student.                           *)
LEMMA IssuesOfOneKey ==
    ASSUME OneUsePerKey, JobInvariant, LocksInvariant,
           NEW p \in Workers, NEW q \in Workers,
           call[p] # Null, call[p].kind = "issue",
           call[q] # Null, call[q].kind = "issue", call[p].key = call[q].key
    PROVE  call[p].wallet = call[q].wallet
<1>1. job[p] # Null /\ job[q] # Null => job[p].week = job[q].week
  BY DEF LocksInvariant, Holding, AtStatement
<1> QED BY <1>1, IssuedBy DEF OneUsePerKey

(* What a session holds on account of its key.                             *)
LEMMA KeyedHolds ==
    ASSUME JobInvariant, LocksInvariant, NEW p \in Workers, Keyed(p)
    PROVE  \/ /\ req[p] \in Requests /\ req[p].op \in {"redeem", "adjustment"}
              /\ req[p].key \in RequestKeys
              /\ req[p].wallet \in Wallets /\ accountLock[req[p].wallet] = p
           \/ /\ req[p] \in Requests /\ req[p].op = "reversal"
              /\ req[p].key \in RequestKeys
              /\ txLock[req[p].original] = p
           \/ /\ call[p] # Null /\ call[p].kind = "issue"
              /\ req[p].key = call[p].key /\ accountLock[call[p].wallet] = p
              /\ req[p].key \in IssueKeys \cup BonusKeys
           \/ /\ call[p] \in Calls /\ call[p].kind # "issue"
              /\ req[p].key = ApprovalKey[call[p].key]
              /\ eventLock[call[p].key] = p
              /\ req[p].key \in DecisionKeys
<1>1. /\ AccountsHeld(p) /\ RowsHeld(p) /\ AtStatement(p)
      /\ Ready(p) /\ KeepsEvent(p) /\ JobOK(p)
  BY DEF LocksInvariant, Holding, JobInvariant, EventsInvariant
<1>2. pc[p] # "idle" /\ Locked(p)
  BY <1>1 DEF Keyed, AtStatement, Locked, PastAccount
<1>3. /\ req[p] # Null /\ req[p].op \in Ops /\ req[p].wallet \in Wallets
  BY <1>2, RequestKnown
<1>4. CASE epc[p] = "none"
  <2>1. req[p] \in Requests /\ req[p].op # "earn" /\ Requesting(p)
    BY <1>1, <1>2, <1>3, <1>4 DEF Ready, Requesting
  <2>2. req[p].key \in RequestKeys
    BY <2>1 DEF RequestKeys
  <2>3. CASE req[p].op = "reversal"
    BY <1>1, <1>2, <2>1, <2>2, <2>3 DEF RowsHeld
  <2>4. CASE req[p].op # "reversal"
    BY <1>1, <1>2, <1>3, <2>1, <2>2, <2>4 DEF AccountsHeld, WalletOf, Ops
  <2> QED BY <2>3, <2>4
<1>5. CASE epc[p] # "none"
  <2>1. epc[p] \in Posting /\ call[p] # Null /\ req[p].key = LedgerKey(call[p])
    BY <1>1, <1>2, <1>3, <1>5 DEF Ready, Posting
  <2>2. CASE call[p].kind = "issue"
    BY <1>1, <2>1, <2>2, IssuedBy DEF AccountsHeld, InIssue, LedgerKey
  <2>3. CASE call[p].kind # "issue"
    <3>1. call[p] \in Calls
      BY <1>1, <2>1, <2>3 DEF JobOK, BonusCall
    <3> QED BY <1>1, <2>1, <2>3, <3>1 DEF KeepsEvent, LedgerKey, DecisionKeys
  <2> QED BY <2>2, <2>3
<1> QED BY <1>4, <1>5

(* Nobody waits to insert a transaction: whoever has inserted one under    *)
(* the key holds the same lock.                                            *)
LEMMA KeyedOnce ==
    ASSUME OneUsePerKey, JobInvariant, LocksInvariant,
           NEW p \in Workers, NEW q \in Workers, Keyed(p), Keyed(q),
           req[p].key = req[q].key
    PROVE  p = q
<1>1. call[p] # Null /\ call[p].kind = "issue" /\ call[q] # Null
      /\ call[q].kind = "issue" /\ call[p].key = call[q].key
        => call[p].wallet = call[q].wallet
  BY IssuesOfOneKey
<1>2. CASE req[p].key \in RequestKeys
  <2>1. /\ req[p] \in Requests /\ req[p].op \in {"redeem", "adjustment", "reversal"}
        /\ req[q] \in Requests /\ req[q].op \in {"redeem", "adjustment", "reversal"}
        /\ IF req[p].op = "reversal" THEN txLock[req[p].original] = p
                                     ELSE accountLock[req[p].wallet] = p
        /\ IF req[q].op = "reversal" THEN txLock[req[q].original] = q
                                     ELSE accountLock[req[q].wallet] = q
    BY <1>2, KeyedHolds DEF OneUsePerKey
  <2> QED BY <2>1 DEF OneUsePerKey
<1>3. CASE req[p].key \in IssueKeys \cup BonusKeys
  BY <1>1, <1>3, KeyedHolds DEF OneUsePerKey
<1>4. CASE req[p].key \in DecisionKeys
  BY <1>4, KeyedHolds DEF OneUsePerKey
<1> QED BY <1>2, <1>3, <1>4, KeyedHolds

(* Nor to insert an event.                                                 *)
LEMMA InserterOnce ==
    ASSUME OneUsePerKey, JobInvariant, LocksInvariant,
           NEW p \in Workers, NEW q \in Workers,
           epc[p] = "insertEvent", HoldsEventKey(q, call[p].key)
    PROVE  p = q
<1>1. call[p] # Null /\ call[p].kind = "issue" /\ InIssue(p)
  BY AtIssue DEF JobInvariant, IssueStatements, InIssue
<1>2. /\ call[q] # Null /\ call[q].kind = "issue" /\ call[q].key = call[p].key
      /\ InIssue(q)
  BY DEF HoldsEventKey, JobInvariant, EventsInvariant, Ready, InIssue, Posting
<1>3. call[p].wallet = call[q].wallet
  BY <1>1, <1>2, IssuesOfOneKey
<1> QED BY <1>1, <1>2, <1>3 DEF LocksInvariant, Holding, AccountsHeld

(* What is left to wait for: an account, or a transaction or event that a  *)
(* reversal or a decision holds.                                           *)
WaitsForWallet(p, w) ==
    \/ epc[p] = "lockWallet" /\ call[p].wallet = w
    \/ Requesting(p) /\ pc[p] = "lockAccount" /\ WalletOf(req[p]) = w
    \/ pc[p] = "insertEntries" /\ w \in {row[p].debit, row[p].credit}
       /\ accountLock[w] # p
WaitsForRow(p) ==
    \/ epc[p] = "lockEvent"
    \/ Requesting(p) /\ pc[p] = "lockOriginal"

LEMMA WaitingFor ==
    ASSUME OneUsePerKey, JobInvariant, LocksInvariant,
           NEW p \in Workers, NEW q \in EWaitsFor(p)
    PROVE  \/ \E w \in Wallets : /\ WaitsForWallet(p, w)
                                 /\ accountLock[w] = q \/ SharesAccount(q, w)
           \/ /\ WaitsForRow(p)
              /\ \E k \in Keys : txLock[k] = q \/ eventLock[k] = q
<1>1. q \in Workers /\ q # p
  BY DEF EWaitsFor
<1>2. /\ AtStatement(p) /\ Ready(p)
  BY DEF LocksInvariant, Holding, JobInvariant, EventsInvariant
<1>3. CASE epc[p] \in {"none", "post"} /\ q \in Blockers(p)
  <2>1. CASE pc[p] = "lockAccount"
    <3>1. Requesting(p)
      BY <1>2, <1>3, <2>1 DEF AtStatement, Requesting, Posting
    <3>2. WalletOf(req[p]) \in Wallets
      BY <1>2, <2>1, <3>1 DEF AtStatement
    <3> QED BY <1>3, <2>1, <3>1, <3>2 DEF Blockers, WaitsForWallet
  <2>2. CASE pc[p] = "lockOriginal"
    <3>1. Requesting(p)
      BY <1>2, <1>3, <2>2 DEF AtStatement, Requesting, Posting
    <3>2. req[p].original \in Keys
      BY <2>2, RequestKnown
    <3> QED BY <1>3, <2>2, <3>1, <3>2 DEF Blockers, WaitsForRow
  <2>3. CASE pc[p] = "insertRow"
    <3>1. HoldsKey(q, req[p].key)
      BY <1>3, <2>3 DEF Blockers
    <3>2. Keyed(p) /\ Keyed(q) /\ req[p].key = req[q].key
      BY <2>3, <3>1 DEF Keyed, HoldsKey
    <3> QED BY <1>1, <3>2, KeyedOnce
  <2>4. CASE pc[p] = "insertEntries"
    BY <1>1, <1>3, <2>4 DEF Blockers, WaitsForWallet
  <2> QED BY <1>3, <2>1, <2>2, <2>3, <2>4 DEF Blockers
<1>4. CASE epc[p] = "lockWallet"
  <2>1. call[p].wallet \in Wallets
    BY <1>4, AtIssue DEF JobInvariant, IssueStatements
  <2> QED BY <1>4, <2>1 DEF EWaitsFor, WaitsForWallet
<1>5. CASE epc[p] = "insertEvent" /\ HoldsEventKey(q, call[p].key)
  BY <1>1, <1>5, InserterOnce
<1>6. CASE epc[p] = "lockEvent"
  <2>1. call[p].key \in Keys
    BY <1>2, <1>6, CallTyped DEF Ready, JobInvariant
  <2> QED BY <1>6, <2>1 DEF EWaitsFor, WaitsForRow
<1> QED BY <1>3, <1>4, <1>5, <1>6 DEF EWaitsFor

(* The entries of a session that holds its account wait for nobody.        *)
LEMMA OwnEntries ==
    ASSUME JobInvariant, LocksInvariant, NEW p \in Workers, NEW w \in Wallets,
           pc[p] = "insertEntries", WaitsForWallet(p, w)
    PROVE  /\ ~InIssue(p)
           /\ \A v \in Wallets : ~Serves(p, v)
<1>1. /\ AccountsHeld(p) /\ AtStatement(p) /\ Ready(p) /\ RowsTyped
  BY DEF LocksInvariant, Holding, JobInvariant, EventsInvariant
<1>2. /\ w \in {row[p].debit, row[p].credit} /\ accountLock[w] # p
      /\ row[p] = NewRow(req[p])
  BY <1>1 DEF WaitsForWallet, Ready, Requesting, AtStatement
<1>3. w \in {DebitAccount(req[p]), CreditAccount(req[p])}
  BY <1>2 DEF NewRow
<1>4. /\ req[p] # Null /\ req[p].op \in Ops /\ req[p].original \in Keys
      /\ w \notin SystemAccounts
  BY RequestKnown, AccountsAssumption
<1>5. req[p].op # "reversal" => w = req[p].wallet
  BY <1>3, <1>4 DEF DebitAccount, CreditAccount, Ops, SystemAccounts
<1>6. ~InIssue(p)
  <2>1. SUFFICES ASSUME InIssue(p)
                 PROVE  FALSE
    OBVIOUS
  <2>2. epc[p] \in Posting /\ call[p].kind = "issue"
    BY <1>1, <2>1 DEF InIssue, Ready, Posting
  <2>3. req[p].op = "earn" /\ req[p].wallet = call[p].wallet
    BY <1>1, <1>4, <2>2 DEF Ready, AtStatement
  <2> QED BY <1>1, <1>2, <1>5, <2>1, <2>3 DEF AccountsHeld
<1>7. ASSUME NEW v \in Wallets, Serves(p, v)
      PROVE  FALSE
  <2>1. Requesting(p) /\ Locked(p) /\ WalletOf(req[p]) = v
    BY <1>7 DEF Serves, Locked, PastAccount
  <2>2. accountLock[v] = p
    BY <1>1, <2>1 DEF AccountsHeld
  <2>3. CASE req[p].op # "reversal"
    BY <1>2, <1>5, <2>1, <2>2, <2>3 DEF WalletOf
  <2>4. CASE req[p].op = "reversal"
    <3>1. txLock[req[p].original] = p
      BY <1>7, <2>4 DEF Serves
    <3>2. OneSided(Original(req[p]))
      BY <1>1, <1>4, <3>1, HeldIsThere DEF Original
    <3>3. w \in {Original(req[p]).debit, v} /\ v = Original(req[p]).credit
      BY <1>3, <2>1, <2>4 DEF DebitAccount, CreditAccount, WalletOf
    <3> QED BY <1>2, <2>2, <3>2, <3>3 DEF OneSided
  <2> QED BY <2>3, <2>4
<1> QED BY <1>6, <1>7

(* Whoever waits while others wait for an account of his is a run that     *)
(* found the student paid and goes on to the next.                         *)
LEMMA WaitingHolder ==
    ASSUME OneUsePerKey, JobInvariant, LocksInvariant, NEW p \in Workers,
           EWaitsFor(p) # {}, NEW w \in Wallets,
           accountLock[w] = p \/ SharesAccount(p, w)
    PROVE  /\ accountLock[w] = p
           /\ job[p] # Null /\ Paid(w, job[p].week) /\ epc[p] = "lockWallet"
<1>1. PICK q \in EWaitsFor(p) : TRUE
  OBVIOUS
<1>2. \/ \E v \in Wallets : WaitsForWallet(p, v)
      \/ WaitsForRow(p)
  BY <1>1, WaitingFor
<1>3. /\ AccountsHeld(p) /\ AtStatement(p) /\ Ready(p) /\ JobOK(p)
  BY DEF LocksInvariant, Holding, JobInvariant, EventsInvariant
<1>4. accountLock[w] = p
  <2>1. ~SharesAccount(p, w)
    BY <1>2, <1>3 DEF SharesAccount, WaitsForWallet, WaitsForRow, Ready
  <2> QED BY <2>1
<1>5. \/ InIssue(p)
      \/ job[p] # Null /\ Paid(w, job[p].week)
      \/ Serves(p, w)
  BY <1>3, <1>4 DEF AccountsHeld
<1>6. ~InIssue(p) /\ ~Serves(p, w)
  <2>1. CASE \E v \in Wallets : pc[p] = "insertEntries" /\ WaitsForWallet(p, v)
    BY <2>1, OwnEntries
  <2>2. CASE epc[p] = "lockWallet" \/ epc[p] = "lockEvent"
    BY <1>3, <2>2 DEF InIssue, Serves, Requesting, Posting
  <2>3. CASE Requesting(p) /\ pc[p] \in {"lockAccount", "lockOriginal"}
    BY <2>3 DEF InIssue, Serves, Requesting, Posting, PastAccount
  <2> QED BY <1>2, <2>1, <2>2, <2>3 DEF WaitsForWallet, WaitsForRow
<1>7. epc[p] = "lockWallet"
  <2>1. job[p] # Null
    BY <1>5, <1>6
  <2>2. ~Requesting(p)
    BY <1>3, <2>1 DEF JobOK, Requesting, Ready
  <2>3. epc[p] # "lockEvent"
    BY <1>3, <2>1 DEF JobOK, Ready, BonusCall
  <2>4. pc[p] # "insertEntries"
    <3>1. SUFFICES ASSUME pc[p] = "insertEntries"
                   PROVE  FALSE
      OBVIOUS
    <3>2. epc[p] \in Posting /\ call[p] # Null
      BY <1>3, <2>2, <3>1 DEF Requesting, Ready, Posting
    <3>3. call[p].kind = "issue"
      BY <1>3, <2>1, <3>2 DEF JobOK, BonusCall
    <3> QED BY <1>6, <3>2, <3>3 DEF InIssue
  <2> QED BY <1>2, <2>2, <2>3, <2>4 DEF WaitsForWallet, WaitsForRow
<1> QED BY <1>4, <1>5, <1>6, <1>7

(* Whoever holds a transaction or an event does not wait for another one.  *)
LEMMA RowHolder ==
    ASSUME JobInvariant, LocksInvariant, NEW p \in Workers, NEW k \in Keys,
           txLock[k] = p \/ eventLock[k] = p
    PROVE  ~WaitsForRow(p)
<1>1. RowsHeld(p)
  BY DEF LocksInvariant, Holding
<1> QED BY <1>1 DEF RowsHeld, WaitsForRow, Requesting, PastAccount, Posting

NatLess == {ss \in Nat \X Nat : ss[1] < ss[2]}

(* Every set of numbers has a least one.                                   *)
LEMMA LeastNumber ==
    ASSUME NEW T \in SUBSET Nat, T # {}
    PROVE  \E x \in T : \A y \in T : x <= y
<1>1. IsWellFoundedOn(NatLess, Nat)
  BY NatLessThanWellFounded DEF OpToRel, NatLess
<1>2. PICK x \in T : \A y \in T : <<y, x>> \notin NatLess
  BY <1>1, WFMin
<1>3. ASSUME NEW y \in T
      PROVE  x <= y
  <2>1. <<y, x>> \notin NatLess /\ <<y, x>> \in Nat \X Nat
    BY <1>2
  <2>2. ~(<<y, x>>[1] < <<y, x>>[2])
    BY <2>1 DEF NatLess
  <2> QED BY <2>2
<1> QED BY <1>3

Ordered == \A d \in ScoredWeeks :
              \E rank \in [Wallets -> Nat], n \in Nat : InOrder(d, rank, n)

(* A session on a cycle waits for a run that found a student paid, or for  *)
(* a session that waits for such a run; and from run to run, the students  *)
(* were paid later and later.                                              *)
LEMMA NoCycle ==
    ASSUME OneUsePerKey, JobInvariant, LocksInvariant, Ordered
    PROVE  NeverDeadlocked
<1> SUFFICES ASSUME NEW p \in Workers,
                    OnCycle(p, [q \in Workers |-> EWaitsFor(q)])
             PROVE  FALSE
  BY DEF NeverDeadlocked
<1>0. PICK S \in SUBSET Workers : \E next \in [S -> S] :
        p \in S /\ \A q \in S : next[q] \in EWaitsFor(q)
  BY DEF OnCycle
<1>1. PICK next \in [S -> S] :
        p \in S /\ \A q \in S : next[q] \in EWaitsFor(q)
  BY <1>0
<1>2. PICK d : d = WeekStart(UTCToday) - WeekLength
  OBVIOUS
<1> DEFINE IsRun(q) == job[q] # Null /\ job[q].week = d /\ epc[q] = "lockWallet"
           Follows(q, w) == /\ WaitsForWallet(q, w) /\ accountLock[w] = next[q]
                            /\ IsRun(next[q]) /\ Paid(w, d)
           R == {q \in S : IsRun(q)}
<1>3. ASSUME NEW q \in S
      PROVE  \/ \E w \in Wallets : Follows(q, w)
             \/ WaitsForRow(q) /\ ~WaitsForRow(next[q])
  <2>1. /\ next[q] \in S /\ next[q] \in EWaitsFor(q) /\ EWaitsFor(next[q]) # {}
        /\ next[q] \in Workers /\ AtStatement(next[q])
    BY <1>1 DEF LocksInvariant, Holding
  <2>2. CASE \E w \in Wallets : WaitsForWallet(q, w)
                /\ (accountLock[w] = next[q] \/ SharesAccount(next[q], w))
    <3>1. PICK w \in Wallets : WaitsForWallet(q, w)
                /\ (accountLock[w] = next[q] \/ SharesAccount(next[q], w))
      BY <2>2
    <3>2. /\ accountLock[w] = next[q] /\ job[next[q]] # Null
          /\ Paid(w, job[next[q]].week) /\ epc[next[q]] = "lockWallet"
      BY <2>1, <3>1, WaitingHolder
    <3>3. job[next[q]].week = d
      BY <1>2, <2>1, <3>2 DEF AtStatement
    <3> QED BY <3>1, <3>2, <3>3
  <2>3. CASE /\ WaitsForRow(q)
             /\ \E k \in Keys : txLock[k] = next[q] \/ eventLock[k] = next[q]
    BY <2>1, <2>3, RowHolder
  <2> QED BY <2>1, <2>2, <2>3, WaitingFor
<1>4. ASSUME NEW q \in R
      PROVE  /\ next[q] \in R /\ call[q].wallet \in Wallets
             /\ Paid(call[q].wallet, d)
             /\ accountLock[call[q].wallet] = next[q]
  <2>1. epc[q] = "lockWallet" /\ q \in S /\ q \in Workers /\ Ready(q)
    BY DEF JobInvariant, EventsInvariant
  <2>2. ~WaitsForRow(q)
    BY <2>1 DEF WaitsForRow, Requesting
  <2>3. PICK w \in Wallets : Follows(q, w)
    BY <1>3, <2>1, <2>2
  <2>4. w = call[q].wallet
    BY <2>1, <2>3 DEF WaitsForWallet, Requesting, Ready
  <2> QED BY <1>1, <2>1, <2>3, <2>4
<1>5. R # {}
  <2>1. CASE \E w \in Wallets : Follows(p, w)
    BY <1>1, <2>1
  <2>2. CASE ~WaitsForRow(next[p])
    <3>1. next[p] \in S
      BY <1>1
    <3>2. \E w \in Wallets : Follows(next[p], w)
      BY <1>3, <2>2, <3>1
    <3> QED BY <1>1, <3>1, <3>2
  <2> QED BY <1>1, <1>3, <2>1, <2>2
<1>6. d \in ScoredWeeks
  <2>1. PICK q \in R : TRUE
    BY <1>5
  <2>2. JobOK(q) /\ job[q] # Null /\ job[q].week = d
    BY DEF JobInvariant
  <2> QED BY <2>2 DEF JobOK
<1>7. PICK rank \in [Wallets -> Nat], n \in Nat : InOrder(d, rank, n)
  BY <1>6 DEF Ordered
<1>8. ASSUME NEW q \in R
      PROVE  /\ call[q].wallet \in Wallets /\ call[next[q]].wallet \in Wallets
             /\ rank[call[q].wallet] < rank[call[next[q]].wallet]
             /\ rank[call[q].wallet] < n
  <2>1. /\ next[q] \in R /\ call[q].wallet \in Wallets
        /\ Paid(call[q].wallet, d) /\ accountLock[call[q].wallet] = next[q]
    BY <1>4
  <2>2. RunWaits(next[q], call[q].wallet, d)
    BY <2>1 DEF RunWaits
  <2>3. call[next[q]].wallet \in Wallets
    BY <1>4, <2>1
  <2> QED BY <1>7, <2>1, <2>2, <2>3 DEF InOrder
<1> DEFINE T == {n - rank[call[q].wallet] : q \in R}
<1> HIDE DEF R
<1>9. ASSUME NEW q \in R
      PROVE  n - rank[call[q].wallet] \in Nat
  BY <1>8, <1>9
<1>10. T \in SUBSET Nat /\ T # {}
  BY <1>5, <1>9
<1>11. PICK x \in T : \A y \in T : x <= y
  BY <1>10, LeastNumber
<1>12. PICK q \in R : x = n - rank[call[q].wallet]
  OBVIOUS
<1>13. next[q] \in R
  BY <1>4
<1>14. n - rank[call[next[q]].wallet] \in T
  BY <1>13
<1>15. x <= n - rank[call[next[q]].wallet]
  BY <1>11, <1>14
<1>16. rank[call[q].wallet] \in Nat /\ rank[call[next[q]].wallet] \in Nat
  BY <1>8
<1> QED BY <1>8, <1>12, <1>15, <1>16

-----------------------------------------------------------------------------
(* The steps of a session.                                                 *)

(* What a step of p leaves of the others, and the week p scores.           *)
Frame(p) ==
    /\ Elsewhere(p) /\ EventsGrow /\ today' = today
    /\ \A q \in Workers \ {p} : SameRun(q)
    /\ job'[p] # Null => job'[p].week = WeekStart(UTCToday) - WeekLength

(* The run of p, if it has one, goes on.                                   *)
RunStays(p) == job[p] # Null => /\ job'[p] # Null
                                /\ job'[p].week = job[p].week

Keeps(p) == OthersLocks(p) /\ RowsStay /\ RowsTyped' /\ Holding(p)'

LEMMA DayStays ==
    ASSUME NEW p \in Workers,
           \/ CallStep(p) \/ JobFindEvent(p) \/ JobFindAgain(p)
           \/ StartCall(p) \/ StartLedgerCall(p) \/ Dies(p)
    PROVE  today' = today
<1>1. ASSUME NEW a, EndSession(p, a) \/ Returns(p)
      PROVE  today' = today
  BY <1>1 DEF EndSession, Returns
<1>2. FindEvent(p) \/ LockWallet(p) \/ FindAgain(p) => today' = today
  BY <1>1 DEF FindEvent, LockWallet, FindAgain
<1>3. CheckDaily(p) \/ CheckWeekly(p) => today' = today
  BY <1>1 DEF CheckDaily, CheckWeekly, CheckLimit
<1>4. InsertEvent(p) \/ Raced(p) \/ LockEvent(p) => today' = today
  BY <1>1 DEF InsertEvent, Raced, LockEvent
<1>5. CallEarn(p) \/ Post(p) \/ CommitEvent(p) => today' = today
  BY <1>1 DEF CallEarn, Post, CommitEvent, evars
<1>6. PlainLedger(p) \/ CommitLedger(p) => today' = today
  BY DEF PlainLedger, CommitLedger, evars
<1>7. JobFindEvent(p) \/ JobFindAgain(p) => today' = today
  BY <1>1, <1>2 DEF JobFindEvent, JobFindAgain
<1>8. StartCall(p) \/ StartLedgerCall(p) \/ Dies(p) => today' = today
  BY DEF StartCall, StartLedgerCall, Dies
<1> QED BY <1>2, <1>3, <1>4, <1>5, <1>6, <1>7, <1>8 DEF CallStep

LEMMA StartRunFrame ==
    ASSUME JobInvariant, NEW p \in Workers, StartRun(p)
    PROVE  Frame(p) /\ RunStays(p)
<1>1. Elsewhere(p) /\ EventsGrow
  BY EventsStay DEF StartRun, JobInvariant, EventsInvariant, Typed, vars, local
<1>2. PICK week \in Days :
        /\ week = WeekStart(UTCToday) - WeekLength
        /\ job' = [job EXCEPT ![p] =
                     [week |-> week, todo |-> Wallets, student |-> Null,
                      seen |-> active, owed |-> Deserving[week]]]
  BY WeekScored DEF JobInvariant, StartRun
<1>3. job[p] = Null /\ today' = today
  BY DEF StartRun, evars
<1> QED BY <1>1, <1>2, <1>3 DEF Frame, RunStays, SameRun, JobInvariant

LEMMA NextStudentFrame ==
    ASSUME JobInvariant, LocksInvariant, NEW p \in Workers, NextStudent(p)
    PROVE  Frame(p) /\ RunStays(p)
<1>1. Elsewhere(p) /\ EventsGrow
  BY EventsStay DEF NextStudent, JobInvariant, EventsInvariant, Typed, vars, local
<1>2. /\ job[p] # Null /\ job[p] \in Run /\ today' = today
      /\ job[p].week = WeekStart(UTCToday) - WeekLength
  BY DEF NextStudent, Considering, JobInvariant, LocksInvariant, Holding,
         AtStatement, evars
<1>3. PICK w \in job[p].todo :
        job' = [job EXCEPT ![p].todo = @ \ {w},
                           ![p].student =
                               IF ledger[PlainKey[w][job[p].week]] # Null
                               THEN Null ELSE w]
  BY DEF NextStudent
<1>4. PICK s \in Wallets \cup {Null} :
        s = IF ledger[PlainKey[w][job[p].week]] # Null THEN Null ELSE w
  BY <1>2 DEF Run
<1>5. job' = [job EXCEPT ![p].todo = @ \ {w}, ![p].student = s]
  BY <1>3, <1>4
<1> DEFINE r == [job[p] EXCEPT !.todo = @ \ {w}, !.student = s]
<1>6. job' = [job EXCEPT ![p] = r]
  BY <1>5 DEF JobInvariant
<1>7. r # Null /\ r.week = job[p].week
  <2>1. r \in Run /\ r.week = job[p].week
    BY <1>2 DEF Run
  <2> QED BY <2>1, BonusAssumption
<1> HIDE DEF r
<1> QED BY <1>1, <1>2, <1>6, <1>7 DEF Frame, RunStays, SameRun, JobInvariant

LEMMA CountDaysFrame ==
    ASSUME JobInvariant, LocksInvariant, NEW p \in Workers, CountDays(p)
    PROVE  Frame(p) /\ RunStays(p)
<1>1. /\ job[p] # Null /\ job[p] \in Run /\ JobOK(p) /\ Ready(p)
      /\ job[p].student \in Wallets /\ call[p] = Null /\ epc[p] = "none"
      /\ job[p].week = WeekStart(UTCToday) - WeekLength /\ job[p].week \in Days
      /\ UNCHANGED vars
  BY DEF CountDays, Considering, JobInvariant, EventsInvariant, LocksInvariant,
         Holding, AtStatement, Ready, Run
<1>2. CASE job' = [job EXCEPT ![p].student = Null] /\ UNCHANGED evars
  <2>1. Elsewhere(p) /\ EventsGrow
    BY <1>1, <1>2, EventsStay DEF JobInvariant, EventsInvariant, Typed, vars, local
  <2> DEFINE r == [job[p] EXCEPT !.student = Null]
  <2>2. r # Null /\ r.week = job[p].week
    <3>1. r \in Run /\ r.week = job[p].week
      BY <1>1 DEF Run
    <3> QED BY <3>1, BonusAssumption
  <2>3. job' = [job EXCEPT ![p] = r] /\ today' = today
    BY <1>2 DEF evars
  <2> HIDE DEF r
  <2> QED BY <1>1, <2>1, <2>2, <2>3 DEF Frame, RunStays, SameRun, JobInvariant
<1>3. CASE ~(job' = [job EXCEPT ![p].student = Null] /\ UNCHANGED evars)
  <2> DEFINE c == BonusCall(job[p].student, job[p].week)
  <2>1. /\ call' = [call EXCEPT ![p] = c]
        /\ startDay' = [startDay EXCEPT ![p] = today]
        /\ epc' = [epc EXCEPT ![p] = "findEvent"]
        /\ UNCHANGED <<event, eventLock, today, sawActive, reply, job>>
    BY <1>3 DEF CountDays, Continue
  <2>2. c \in CallType /\ c.kind = "issue" /\ pc[p] = "idle"
    BY <1>1, BonusAssumption DEF BonusCall, CallType, JobOK
  <2>3. reply' \in [Workers -> Replies]
    BY <2>1 DEF JobInvariant, EventsInvariant, Typed, Replies
  <2>4. EventsGrow /\ Elsewhere(p)
    <3> HIDE DEF c
    <3> QED BY <1>1, <2>1, <2>2, <2>3, FirstStatement DEF JobInvariant
  <2> QED BY <1>1, <2>1, <2>4 DEF Frame, RunStays, SameRun
<1> QED BY <1>2, <1>3

LEMMA IssuingFrame ==
    ASSUME JobInvariant, LocksInvariant, NEW p \in Workers, Issuing(p)
    PROVE  Frame(p) /\ RunStays(p)
<1>1. /\ EventsInvariant /\ job[p] \in Run /\ job[p] # Null
      /\ job[p].week = WeekStart(UTCToday) - WeekLength
  BY DEF JobInvariant, Issuing, LocksInvariant, Holding, AtStatement
<1>2. Stepped(p)
  BY <1>1, JobLooksUp, LooksUp, InsertEventStep, CallEarnStep, PostStep,
     CommitEventStep DEF Issuing
<1>3. today' = today
  BY DayStays DEF Issuing, CallStep
<1> DEFINE r == AfterIssue(p)
<1>4. r \in Run /\ r # Null /\ r.week = job[p].week
  <2>1. r \in Run /\ r.week = job[p].week
    BY <1>1 DEF AfterIssue, Run
  <2> QED BY <2>1, BonusAssumption DEF AfterIssue
<1> HIDE DEF r
<1>5. /\ job' = Watched([job EXCEPT ![p] = r])
      /\ [job EXCEPT ![p] = r] \in [Workers -> Run \cup {Null}]
  BY <1>4 DEF Issuing, JobInvariant, r
<1>6. /\ job'[p] # Null /\ job'[p].week = r.week
      /\ \A q \in Workers \ {p} : SameRun(q)
  BY <1>4, <1>5, WatchedRuns DEF JobInvariant, SameRun
<1> QED BY <1>1, <1>2, <1>3, <1>4, <1>6 DEF Stepped, Frame, RunStays

LEMMA RollsBackFrame ==
    ASSUME JobInvariant, LocksInvariant, NEW p \in Workers,
           IssueFails(p) \/ FinishRun(p) \/ RunDies(p)
    PROVE  Frame(p)
<1>1. /\ EventsInvariant /\ job[p] \in Run /\ job[p] # Null
      /\ job[p].week = WeekStart(UTCToday) - WeekLength
  BY DEF JobInvariant, IssueFails, FinishRun, RunDies, Considering,
         LocksInvariant, Holding, AtStatement
<1>2. Ends(p)
  BY RollbackEnds DEF IssueFails, FinishRun, RunDies, Replies
<1>3. Stepped(p) /\ today' = today
  BY <1>1, <1>2, EndStep DEF Ends
<1>4. \E r : /\ job' = [job EXCEPT ![p] = r]
             /\ r # Null => r.week = job[p].week
  <2>1. CASE IssueFails(p)
    <3> DEFINE r == [job[p] EXCEPT !.student = Null, !.seen = Null,
                                   !.owed = @ \ {job[p].student}]
    <3>1. r.week = job[p].week
      BY <1>1 DEF Run
    <3>2. job' = [job EXCEPT ![p] = r]
      BY <2>1 DEF IssueFails, JobInvariant
    <3> QED BY <3>1, <3>2
  <2>2. CASE FinishRun(p) \/ RunDies(p)
    BY <2>2 DEF FinishRun, RunDies
  <2> QED BY <2>1, <2>2
<1>5. PICK r : /\ job' = [job EXCEPT ![p] = r]
               /\ r # Null => r.week = job[p].week
  BY <1>4
<1> QED BY <1>1, <1>3, <1>5 DEF Frame, Stepped, SameRun, JobInvariant

LEMMA StaffFrame ==
    ASSUME JobInvariant, NEW p \in Workers, Staff(p)
    PROVE  Frame(p) /\ RunStays(p)
<1>1. EventsInvariant /\ job[p] = Null /\ job' = Watched(job)
  BY DEF JobInvariant, Staff, StaffStep
<1>2. job'[p] = Null /\ \A q \in Workers : SameRun(q)
  BY <1>1, WatchedRuns DEF JobInvariant, SameRun
<1>3. today' = today
  BY DayStays DEF Staff, StaffStep
<1>4. CASE CallStep(p) \/ StartLedgerCall(p) \/ Dies(p)
  <2>1. Stepped(p)
    BY <1>1, <1>4, CallStepped, StartLedgerCallStep, DiesStep
  <2> QED BY <1>1, <1>2, <1>3, <2>1 DEF Stepped, Frame, RunStays
<1>5. CASE StartCall(p)
  <2>1. PICK c \in Calls :
          /\ call' = [call EXCEPT ![p] = c]
          /\ epc' = [epc EXCEPT ![p] = IF c.kind = "issue" THEN "findEvent"
                                                           ELSE "lockEvent"]
    BY <1>5 DEF StartCall, Continue
  <2>2. c \in CallType
    BY EarningAssumption
  <2>3. reply' \in [Workers -> Replies]
    BY <1>1, <1>5 DEF StartCall, EventsInvariant, Typed, Replies
  <2>4. EventsGrow /\ Elsewhere(p)
    BY <1>1, <1>5, <2>1, <2>2, <2>3, FirstStatement DEF StartCall
  <2> QED BY <1>1, <1>2, <1>3, <2>4 DEF Frame, RunStays
<1> QED BY <1>4, <1>5 DEF Staff, StaffStep

LEMMA LocksKept ==
    ASSUME JobInvariant, LocksInvariant, NEW p \in Workers, Frame(p), Keeps(p)
    PROVE  LocksInvariant'
BY OthersHold DEF Frame, Keeps, LocksInvariant

(* Without a run, or at a statement outside issue_reward, nothing is held  *)
(* but for those the run found paid.                                       *)
LEMMA IdleHolds ==
    ASSUME LocksInvariant, NEW p \in Workers, pc[p] = "idle"
    PROVE  /\ row[p] = Null
           /\ \A k \in Keys : txLock[k] # p
           /\ epc[p] \notin Posting => \A k \in Keys : eventLock[k] # p
           /\ \A w \in Wallets : accountLock[w] = p =>
                 \/ InIssue(p) /\ call[p].wallet = w
                 \/ job[p] # Null /\ Paid(w, job[p].week)
BY DEF LocksInvariant, Holding, AtStatement, RowsHeld, AccountsHeld, Serves,
   Requesting

(* The end of a transaction releases everything.                           *)
LEMMA ReleaseKeeps ==
    ASSUME JobInvariant, LocksInvariant, NEW p \in Workers, Frame(p),
           NEW a, EndTransaction(p, a),
           epc'[p] \in {"none", "raced"},
           \A k \in Keys : eventLock'[k] # p,
           \A q \in Workers \ {p}, k \in Keys : eventLock'[k] = q <=> eventLock[k] = q,
           RowsStay, ledger' \in [Keys -> TxRecord \cup {Null}],
           \A k \in Keys : ledger'[k] # Null => OneSided(ledger'[k]),
           \A q \in Workers \ {p} : row[q] # Null => ledger'[req[q].key] = Null
    PROVE  Keeps(p)
<1>1. RowsTyped /\ p # Null
  BY NoNullWorker DEF LocksInvariant
<1>2. /\ accountLock' \in [Wallets -> Workers \cup {Null}]
      /\ \A w \in Wallets : accountLock'[w] # p
      /\ \A q \in Workers \ {p}, w \in Wallets : accountLock'[w] = q <=> accountLock[w] = q
  BY <1>1, NoNullWorker DEF EndTransaction, RowsTyped
<1>3. /\ txLock' \in [Keys -> Workers \cup {Null}]
      /\ \A k \in Keys : txLock'[k] # p
      /\ \A q \in Workers \ {p}, k \in Keys : txLock'[k] = q <=> txLock[k] = q
      /\ \A k \in Keys : txLock'[k] # Null => txLock[k] # Null
  BY <1>1, NoNullWorker DEF EndTransaction, RowsTyped
<1>4. /\ row' \in [Workers -> TxRecord \cup {Null}] /\ row'[p] = Null
      /\ \A q \in Workers \ {p} : row'[q] = row[q]
  BY <1>1 DEF EndTransaction, RowsTyped
<1>5. pc'[p] = "idle"
  BY DEF EndTransaction, JobInvariant, EventsInvariant, Typed
<1>6. RowsTyped'
  <2>1. ASSUME NEW q \in Workers, row'[q] # Null
        PROVE  OneSided(row'[q])
    BY <1>1, <1>4, <2>1 DEF RowsTyped
  <2>2. ASSUME NEW k \in Keys, txLock'[k] # Null
        PROVE  ledger'[k] # Null
    BY <1>1, <1>3, <2>2 DEF RowsTyped, RowsStay
  <2> QED BY <1>2, <1>3, <1>4, <2>1, <2>2 DEF RowsTyped, OneSided
<1>7. OthersLocks(p)
  BY <1>2, <1>3, <1>4 DEF OthersLocks, LocksApart
<1>8. ~InIssue(p)' /\ ~Requesting(p)' /\ epc'[p] \notin Posting
  BY <1>5 DEF InIssue, Requesting, Posting
<1>9. AccountsHeld(p)' /\ RowsHeld(p)'
  BY <1>2, <1>3, <1>8 DEF AccountsHeld, RowsHeld
<1>10. AtStatement(p)'
  BY <1>4, <1>5, <1>8 DEF AtStatement, Frame, WeekStart
<1> QED BY <1>6, <1>7, <1>9, <1>10 DEF Keeps, Holding

LEMMA AnswerReleases ==
    ASSUME JobInvariant, NEW p \in Workers, NEW a, Answer(p, a)
    PROVE  /\ epc'[p] = "none" /\ call'[p] = Null
           /\ \A k \in Keys : eventLock'[k] # p
           /\ \A q \in Workers \ {p}, k \in Keys :
                 eventLock'[k] = q <=> eventLock[k] = q
<1>1. epc'[p] = "none" /\ call'[p] = Null
  BY DEF Answer, Continue, JobInvariant, EventsInvariant, Typed
<1>2. \A k \in Keys : eventLock'[k] # p
  BY NoNullWorker DEF Answer
<1>3. \A q \in Workers \ {p}, k \in Keys : eventLock'[k] = q <=> eventLock[k] = q
  BY NoNullWorker DEF Answer
<1> QED BY <1>1, <1>2, <1>3

LEMMA RollbackHolds ==
    ASSUME JobInvariant, LocksInvariant, NEW p \in Workers, Frame(p),
           NEW a, Rollback(p, a),
           \/ \E b : Answer(p, b)
           \/ /\ epc[p] \notin Posting /\ eventLock' = eventLock
              /\ epc'[p] \in {"none", "raced"}
    PROVE  Keeps(p)
<1>1. EndTransaction(p, a) /\ ledger' = ledger
  BY DEF Rollback, store
<1>2. /\ epc'[p] \in {"none", "raced"}
      /\ \A k \in Keys : eventLock'[k] # p
      /\ \A q \in Workers \ {p}, k \in Keys : eventLock'[k] = q <=> eventLock[k] = q
  BY AnswerReleases DEF LocksInvariant, Holding, RowsHeld
<1>3. RowsStay
  BY <1>1 DEF RowsStay
<1>4. /\ ledger' \in [Keys -> TxRecord \cup {Null}]
      /\ \A k \in Keys : ledger'[k] # Null => OneSided(ledger'[k])
  BY <1>1 DEF LocksInvariant, RowsTyped
<1>5. \A q \in Workers \ {p} : row[q] # Null => ledger'[req[q].key] = Null
  BY <1>1 DEF LocksInvariant, Holding, AtStatement
<1> QED BY <1>1, <1>2, <1>3, <1>4, <1>5, ReleaseKeeps

(* A step that neither locks nor writes, of a session that is not in the   *)
(* ledger.                                                                 *)
LEMMA QuietHolds ==
    ASSUME JobInvariant, JobInvariant', LocksInvariant, NEW p \in Workers, Frame(p),
           pc[p] = "idle", UNCHANGED vars,
           epc[p] \notin Posting,
           \A k \in Keys : eventLock'[k] = eventLock[k],
           InIssue(p)' => accountLock[call'[p].wallet] = p,
           \A w \in Wallets : accountLock[w] = p =>
              \/ InIssue(p)' /\ call'[p].wallet = w
              \/ job'[p] # Null /\ Paid(w, WeekStart(UTCToday) - WeekLength)
    PROVE  Keeps(p)
<1>1. /\ ledger' = ledger /\ accountLock' = accountLock /\ txLock' = txLock
      /\ row' = row /\ pc' = pc /\ req' = req
  BY DEF vars, store, locks, local
<1>2. /\ row[p] = Null /\ \A k \in Keys : txLock[k] # p
      /\ \A k \in Keys : eventLock[k] # p
  BY IdleHolds
<1>3. RowsStay /\ RowsTyped'
  BY <1>1 DEF RowsStay, LocksInvariant, RowsTyped, OneSided
<1>4. OthersLocks(p)
  BY <1>1 DEF OthersLocks, LocksApart, LocksInvariant, Holding, AtStatement
<1>5. ~Requesting(p)' /\ pc'[p] = "idle" /\ row'[p] = Null /\ req'[p] = Null
  BY <1>1, <1>2 DEF Requesting, JobInvariant, EventsInvariant, Ready
<1>6. AccountsHeld(p)'
  <2>1. ASSUME NEW w \in Wallets, job'[p] # Null,
               Paid(w, WeekStart(UTCToday) - WeekLength)
        PROVE  Paid(w, job[p].week)'
    <3>1. PICK d : d = WeekStart(UTCToday) - WeekLength
      OBVIOUS
    <3>2. job'[p].week = d /\ job'[p].week \in Days
      BY <2>1, <3>1 DEF Frame, JobInvariant, Run
    <3>3. BonusKey[w][d] \in Keys
      BY <3>2, BonusAssumption
    <3>4. event'[BonusKey[w][d]] # Null
      BY <2>1, <3>1, <3>3 DEF Paid, Frame, EventsGrow
    <3> QED BY <3>2, <3>4 DEF Paid
  <2> QED BY <1>1, <1>5, <2>1 DEF AccountsHeld, Paid
<1>7. RowsHeld(p)'
  BY <1>1, <1>2, <1>5 DEF RowsHeld
<1>8. AtStatement(p)'
  BY <1>5 DEF AtStatement, Frame, WeekStart
<1> QED BY <1>3, <1>4, <1>6, <1>7, <1>8 DEF Keeps, Holding

LEMMA QuietStays ==
    ASSUME JobInvariant, JobInvariant', LocksInvariant, NEW p \in Workers,
           Frame(p), RunStays(p), pc[p] = "idle", UNCHANGED vars,
           epc[p] \notin Posting,
           \A k \in Keys : eventLock'[k] = eventLock[k],
           InIssue(p)' <=> InIssue(p),
           InIssue(p) => call'[p] = call[p]
    PROVE  Keeps(p)
<1>1. InIssue(p) => accountLock[call[p].wallet] = p
  BY DEF LocksInvariant, Holding, AccountsHeld
<1>2. InIssue(p)' => accountLock[call'[p].wallet] = p
  BY <1>1
<1>3. ASSUME NEW w \in Wallets, accountLock[w] = p
      PROVE  \/ InIssue(p)' /\ call'[p].wallet = w
             \/ job'[p] # Null /\ Paid(w, WeekStart(UTCToday) - WeekLength)
  BY <1>3, IdleHolds DEF RunStays, LocksInvariant, Holding, AtStatement
<1> QED BY <1>2, <1>3, QuietHolds

LEMMA ConsideringIdle ==
    ASSUME JobInvariant, NEW p \in Workers, Considering(p)
    PROVE  pc[p] = "idle" /\ call[p] = Null /\ ~InIssue(p) /\ epc[p] \notin Posting
BY DEF Considering, JobInvariant, JobOK, EventsInvariant, Ready, InIssue, Posting

LEMMA ScoringHolds ==
    ASSUME JobInvariant, JobInvariant', LocksInvariant, NEW p \in Workers,
           Frame(p), RunStays(p),
           StartRun(p) \/ NextStudent(p) \/ CountDays(p)
    PROVE  Keeps(p)
<1>1. /\ pc[p] = "idle" /\ ~InIssue(p) /\ epc[p] \notin Posting
      /\ UNCHANGED vars /\ UNCHANGED eventLock
  BY ConsideringIdle DEF StartRun, NextStudent, CountDays, InIssue, Posting, evars
<1>2. epc'[p] \in {epc[p], "findEvent"}
  BY DEF StartRun, NextStudent, CountDays, Continue, evars,
         JobInvariant, EventsInvariant, Typed
<1>3. ~InIssue(p)'
  <2>1. epc[p] = "none"
    BY DEF StartRun, NextStudent, CountDays, Considering
  <2> QED BY <1>2, <2>1 DEF InIssue, Posting
<1> QED BY <1>1, <1>3, QuietStays

(* issue_reward answers a run with the event it found: whoever it has      *)
(* locked has been paid.                                                   *)
LEMMA ReturnsHolds ==
    ASSUME JobInvariant, JobInvariant', LocksInvariant, NEW p \in Workers,
           Frame(p), RunStays(p), job[p] # Null, epc[p] \in {"findEvent", "findAgain"},
           event[call[p].key] # Null, Returns(p)
    PROVE  Keeps(p)
<1>1. /\ call[p] # Null /\ pc[p] = "idle" /\ epc[p] \notin Posting
  BY AtIssue DEF IssueStatements, JobInvariant, Posting
<1>2. /\ epc'[p] = "none" /\ UNCHANGED vars
      /\ \A k \in Keys : eventLock'[k] = eventLock[k]
  <2>1. Answer(p, "event") /\ UNCHANGED vars
    BY DEF Returns
  <2>2. \A k \in Keys : eventLock[k] # p
    BY <1>1, IdleHolds
  <2> QED BY <2>1, <2>2, AnswerReleases DEF Answer
<1>3. ~InIssue(p)'
  BY <1>2 DEF InIssue, Posting
<1>4. /\ job[p].week = WeekStart(UTCToday) - WeekLength
      /\ call[p].key = BonusKey[call[p].wallet][job[p].week]
  <2>1. AtStatement(p) /\ JobOK(p)
    BY DEF JobInvariant, LocksInvariant, Holding
  <2>2. job[p].week = WeekStart(UTCToday) - WeekLength
    BY <2>1 DEF AtStatement
  <2>3. call[p] = BonusCall(job[p].student, job[p].week)
    BY <1>1, <2>1 DEF JobOK
  <2> QED BY <2>2, <2>3 DEF BonusCall
<1>5. Paid(call[p].wallet, WeekStart(UTCToday) - WeekLength)
  BY <1>4 DEF Paid
<1>6. ASSUME NEW w \in Wallets, accountLock[w] = p
      PROVE  job'[p] # Null /\ Paid(w, WeekStart(UTCToday) - WeekLength)
  BY <1>1, <1>4, <1>5, <1>6, IdleHolds DEF RunStays
<1> QED BY <1>1, <1>2, <1>3, <1>6, QuietHolds

LEMMA SessionEnds ==
    ASSUME JobInvariant, LocksInvariant, NEW p \in Workers, Frame(p),
           NEW a, EndSession(p, a)
    PROVE  Keeps(p)
BY RollbackHolds DEF EndSession

(* On to the next statement of the service.                                *)
LEMMA ContinueHolds ==
    ASSUME JobInvariant, JobInvariant', LocksInvariant, NEW p \in Workers,
           Frame(p), RunStays(p), NEW s, Continue(p, s),
           UNCHANGED <<vars, eventLock, call>>,
           \/ epc[p] = "findEvent" /\ s = "lockWallet"
           \/ <<epc[p], s>> \in {<<"findAgain", "checkDaily">>,
                                 <<"checkDaily", "checkWeekly">>,
                                 <<"checkWeekly", "insertEvent">>,
                                 <<"insertEvent", "commit">>,
                                 <<"insertEvent", "post">>}
    PROVE  Keeps(p)
<1>1. /\ epc[p] \in IssueStatements
      /\ epc[p] = "findEvent" <=> s = "lockWallet"
      /\ epc[p] # "findEvent" =>
           /\ epc[p] \in {"findAgain", "checkDaily", "checkWeekly", "insertEvent"}
           /\ s \in {"checkDaily", "checkWeekly", "insertEvent", "commit", "post"}
  BY DEF IssueStatements
<1>2. call[p] # Null /\ call[p].kind = "issue" /\ pc[p] = "idle"
  BY <1>1, AtIssue DEF JobInvariant
<1>3. epc'[p] = s /\ epc[p] \notin Posting
  BY <1>1 DEF Continue, JobInvariant, EventsInvariant, Typed, Posting, IssueStatements
<1>4. InIssue(p)' <=> InIssue(p)
  BY <1>1, <1>2, <1>3 DEF InIssue, Posting
<1> QED BY <1>2, <1>3, <1>4, QuietStays

LEMMA StartCallHolds ==
    ASSUME JobInvariant, JobInvariant', LocksInvariant, NEW p \in Workers,
           Frame(p), RunStays(p), StartCall(p)
    PROVE  Keeps(p)
<1>1. /\ pc[p] = "idle" /\ epc[p] = "none" /\ UNCHANGED vars /\ UNCHANGED eventLock
      /\ epc'[p] \in {"findEvent", "lockEvent"}
  BY DEF StartCall, Continue, JobInvariant, EventsInvariant, Typed
<1>2. ~InIssue(p) /\ ~InIssue(p)' /\ epc[p] \notin Posting
  BY <1>1 DEF InIssue, Posting
<1> QED BY <1>1, <1>2, QuietStays

LEMMA LooksUpHolds ==
    ASSUME JobInvariant, JobInvariant', LocksInvariant, NEW p \in Workers,
           Frame(p), RunStays(p),
           \/ FindEvent(p) \/ FindAgain(p) \/ CheckDaily(p) \/ CheckWeekly(p)
           \/ InsertEvent(p) \/ Raced(p)
    PROVE  Keeps(p)
<1>1. CASE FindEvent(p)
  BY <1>1, SessionEnds, ContinueHolds DEF FindEvent
<1>2. CASE FindAgain(p)
  BY <1>2, SessionEnds, ContinueHolds DEF FindAgain
<1>3. CASE CheckDaily(p)
  BY <1>3, SessionEnds, ContinueHolds DEF CheckDaily, CheckLimit
<1>4. CASE CheckWeekly(p)
  BY <1>4, SessionEnds, ContinueHolds DEF CheckWeekly, CheckLimit
<1>5. CASE InsertEvent(p)
  <2>1. CASE Rollback(p, "none") /\ Continue(p, "raced")
    <3>1. /\ epc[p] \notin Posting /\ eventLock' = eventLock
          /\ epc'[p] \in {"none", "raced"}
      BY <1>5, <2>1 DEF InsertEvent, Continue, Posting, JobInvariant,
         EventsInvariant, Typed
    <3> QED BY <2>1, <3>1, RollbackHolds
  <2>2. CASE ~(Rollback(p, "none") /\ Continue(p, "raced"))
    <3>1. PICK s \in {"commit", "post"} : Continue(p, s) /\ UNCHANGED vars
      BY <1>5, <2>2 DEF InsertEvent
    <3>2. epc[p] = "insertEvent" /\ UNCHANGED <<vars, eventLock, call>>
      BY <1>5, <3>1 DEF InsertEvent
    <3> QED BY <3>1, <3>2, ContinueHolds
  <2> QED BY <2>1, <2>2
<1>6. CASE Raced(p)
  BY <1>6, SessionEnds DEF Raced
<1> QED BY <1>1, <1>2, <1>3, <1>4, <1>5, <1>6

LEMMA JobLooksUpHolds ==
    ASSUME JobInvariant, JobInvariant', LocksInvariant, NEW p \in Workers,
           Frame(p), RunStays(p), job[p] # Null,
           JobFindEvent(p) \/ JobFindAgain(p)
    PROVE  Keeps(p)
<1>1. CASE event[call[p].key] # Null /\ Returns(p)
  <2>1. epc[p] \in {"findEvent", "findAgain"}
    BY DEF JobFindEvent, JobFindAgain
  <2> QED BY <1>1, <2>1, ReturnsHolds
<1>2. CASE JobFindEvent(p) /\ ~(event[call[p].key] # Null /\ Returns(p))
  BY <1>2, ContinueHolds DEF JobFindEvent
<1>3. CASE JobFindAgain(p) /\ ~(event[call[p].key] # Null /\ Returns(p))
  BY <1>3, LooksUpHolds DEF JobFindAgain
<1> QED BY <1>1, <1>2, <1>3

-----------------------------------------------------------------------------
(* The statements of a ledger request.                                     *)

(* Who has been paid stays so.                                             *)
LEMMA PaidStays ==
    ASSUME JobInvariant, NEW p \in Workers, EventsGrow, RunStays(p),
           job[p] # Null, NEW w \in Wallets, Paid(w, job[p].week)
    PROVE  job'[p] # Null /\ Paid(w, job[p].week)'
<1>1. PICK d \in Days : d = job[p].week
  BY DEF JobInvariant, Run
<1>2. BonusKey[w][d] \in Keys
  BY BonusAssumption
<1>3. event'[BonusKey[w][d]] # Null
  BY <1>1, <1>2 DEF Paid, EventsGrow
<1> QED BY <1>1, <1>3 DEF Paid, RunStays

(* A statement after which p holds what it held, and has inserted nothing. *)
LEMMA StatementHolds ==
    ASSUME JobInvariant, JobInvariant', LocksInvariant, NEW p \in Workers,
           Frame(p), RunStays(p), pc[p] # "idle", NEW s \in Statements,
           pc' = [pc EXCEPT ![p] = s],
           UNCHANGED <<accountLock, txLock, eventLock, ledger, row, req, call>>,
           \/ epc'[p] = epc[p] /\ epc[p] = "none"
           \/ /\ epc[p] \in Posting /\ epc'[p] \in Posting
              /\ pc[p] \in {"existingKey", "insertEntries"},
           \/ <<pc[p], s>> \in {<<"sumCredits", "sumDebits">>,
                                <<"sumDebits", "existingKey">>,
                                <<"reversalKey", "lockOriginal">>,
                                <<"reversalKey", "commit">>,
                                <<"existingKey", "commit">>,
                                <<"insertEntries", "commit">>}
           \/ <<pc[p], s>> = <<"requireActive", "lockAccount">>
              /\ req[p].op # "earn"
           \/ <<pc[p], s>> = <<"existingKey", "insertRow">> /\ Amount(req[p]) # 0
    PROVE  Keeps(p)
<1>1. /\ AccountsHeld(p) /\ RowsHeld(p) /\ AtStatement(p)
  BY DEF LocksInvariant, Holding
<1>2. /\ pc'[p] = s /\ req'[p] = req[p] /\ call'[p] = call[p] /\ row'[p] = row[p]
      /\ req[p].op \in Ops /\ req[p].wallet \in Wallets
  BY RequestKnown DEF JobInvariant, EventsInvariant, Typed
<1>3. /\ pc[p] \in {"requireActive", "sumCredits", "sumDebits", "reversalKey",
                    "existingKey", "insertEntries"}
      /\ s \in {"lockAccount", "sumDebits", "existingKey", "lockOriginal",
                "insertRow", "commit"}
      /\ s \in PastAccount => pc[p] \in PastAccount
      /\ pc[p] \in PastAccount => s \in PastAccount \cup {"commit"}
      /\ s = "lockAccount" => pc[p] = "requireActive"
      /\ s = "lockOriginal" => pc[p] = "reversalKey"
      /\ s = "insertRow" => Amount(req[p]) # 0
      /\ pc[p] = "insertEntries" => s = "commit"
      /\ s # "idle"
  BY DEF PastAccount
<1>4. /\ InIssue(p)' = InIssue(p) /\ Requesting(p)' = Requesting(p)
      /\ epc'[p] \in Posting <=> epc[p] \in Posting
  BY <1>2, <1>3 DEF InIssue, Requesting, Posting
<1>5. RowsStay /\ RowsTyped'
  BY DEF RowsStay, LocksInvariant, RowsTyped, OneSided
<1>6. OthersLocks(p)
  BY DEF OthersLocks, LocksApart, LocksInvariant, Holding, AtStatement
<1>7. /\ WalletOf(req[p])' = WalletOf(req[p]) /\ Amount(req[p])' = Amount(req[p])
  BY <1>2 DEF WalletOf, Amount, Original
<1>8. Locked(p)' => Locked(p)
  BY <1>2, <1>3 DEF Locked
<1>9. AccountsHeld(p)'
  <2>1. InIssue(p)' => accountLock'[call'[p].wallet] = p
    BY <1>1, <1>2, <1>4 DEF AccountsHeld
  <2>2. Requesting(p)' /\ Locked(p)' /\ WalletOf(req[p])' \in Wallets
          => accountLock'[WalletOf(req[p])'] = p
    BY <1>1, <1>2, <1>4, <1>7, <1>8 DEF AccountsHeld
  <2>3. ASSUME NEW w \in Wallets, accountLock'[w] = p
        PROVE  \/ InIssue(p)' /\ call'[p].wallet = w
               \/ job'[p] # Null /\ Paid(w, job[p].week)'
               \/ Serves(p, w)'
    <3>1. \/ InIssue(p) /\ call[p].wallet = w
          \/ job[p] # Null /\ Paid(w, job[p].week)
          \/ Serves(p, w)
      BY <1>1, <2>3 DEF AccountsHeld
    <3>2. CASE job[p] # Null /\ Paid(w, job[p].week)
      BY <3>2, PaidStays DEF Frame
    <3>3. CASE Serves(p, w)
      BY <1>2, <1>3, <1>4, <1>7, <3>3 DEF Serves, PastAccount
    <3> QED BY <1>2, <1>4, <3>1, <3>2, <3>3
  <2> QED BY <2>1, <2>2, <2>3 DEF AccountsHeld
<1>10. RowsHeld(p)'
  <2>1. ASSUME Requesting(p), req[p].op = "reversal",
               Locked(p)' \/ s = "lockAccount"
        PROVE  txLock[req[p].original] = p
    BY <1>1, <1>3, <1>8, <2>1 DEF RowsHeld, AtStatement
  <2>2. ASSUME NEW k \in Keys, txLock[k] = p
        PROVE  Requesting(p) /\ s \in PastAccount \cup {"lockAccount", "commit"}
    BY <1>1, <1>3, <2>2 DEF RowsHeld, PastAccount
  <2>3. \A k \in Keys : eventLock[k] = p => epc'[p] \in Posting /\ call[p].kind # "issue"
    BY <1>1, <1>4 DEF RowsHeld
  <2> QED BY <1>2, <1>4, <2>1, <2>2, <2>3 DEF RowsHeld
<1>11. AtStatement(p)'
  <2>1. Requesting(p) =>
          /\ s \in {"reversalKey", "lockOriginal"} => req[p].op = "reversal"
          /\ s = "requireActive" => req[p].op # "reversal"
          /\ s = "lockAccount" => WalletOf(req[p]) \in Wallets
    BY <1>1, <1>2, <1>3 DEF AtStatement, WalletOf
  <2>2. epc[p] \in Posting =>
          /\ s \in {"idle", "existingKey", "insertRow", "insertEntries", "commit"}
          /\ call[p].kind = "issue" /\ req[p] # Null => req[p].wallet = call[p].wallet
    BY <1>1, <1>3 DEF AtStatement, Posting
  <2>3. row[p] # Null => s \in {"insertEntries", "commit"} /\ ledger[req[p].key] = Null
    BY <1>1, <1>3 DEF AtStatement
  <2> QED BY <1>2, <1>3, <1>4, <1>7, <2>1, <2>2, <2>3 DEF AtStatement, Frame, WeekStart
<1> QED BY <1>5, <1>6, <1>9, <1>10, <1>11 DEF Keeps, Holding

LEMMA NewRowTyped ==
    ASSUME JobInvariant, LocksInvariant, NEW p \in Workers, pc[p] = "insertRow"
    PROVE  NewRow(req[p]) \in TxRecord /\ OneSided(NewRow(req[p]))
<1>1. /\ AtStatement(p) /\ RowsHeld(p) /\ Ready(p) /\ RowsTyped
  BY DEF LocksInvariant, Holding, JobInvariant, EventsInvariant
<1>2. /\ req[p].op \in Ops /\ req[p].wallet \in Wallets /\ req[p].amount \in Nat
      /\ req[p].original \in Keys /\ req[p].key \in Keys /\ req[p] # Null
  BY RequestKnown
<1>3. Amount(req[p]) # 0
  BY <1>1 DEF AtStatement
<1>4. CASE req[p].op = "reversal"
  <2>1. Requesting(p) /\ Locked(p)
    BY <1>1, <1>2, <1>4 DEF Ready, Requesting, Locked, PastAccount, Posting
  <2>2. txLock[req[p].original] = p
    BY <1>1, <1>4, <2>1 DEF RowsHeld
  <2>3. Original(req[p]) \in TxRecord /\ OneSided(Original(req[p]))
    BY <1>1, <1>2, <2>2, HeldIsThere DEF Original
  <2>4. NewRow(req[p]) =
          [type |-> "reversal", debit |-> Original(req[p]).credit,
           credit |-> Original(req[p]).debit, amount |-> Original(req[p]).amount,
           status |-> "posted", reverses |-> req[p].original]
    BY <1>4 DEF NewRow, DebitAccount, CreditAccount, Amount
  <2> QED BY <1>2, <2>3, <2>4 DEF TxRecord, OneSided, Ops
<1>5. CASE req[p].op # "reversal"
  <2>1. /\ DebitAccount(req[p]) \in Accounts /\ CreditAccount(req[p]) \in Accounts
        /\ ~(DebitAccount(req[p]) \in Wallets /\ CreditAccount(req[p]) \in Wallets)
    BY <1>2, <1>5, AccountsAssumption
       DEF DebitAccount, CreditAccount, Ops, Accounts, SystemAccounts
  <2>2. Amount(req[p]) \in Nat \ {0}
    BY <1>2, <1>3, <1>5 DEF Amount
  <2> QED BY <1>2, <1>5, <2>1, <2>2 DEF NewRow, TxRecord, OneSided
<1> QED BY <1>4, <1>5

LEMMA InsertRowHolds ==
    ASSUME JobInvariant, JobInvariant', LocksInvariant, NEW p \in Workers,
           Frame(p), RunStays(p), pc[p] = "insertRow",
           ledger[req[p].key] = Null,
           row' = [row EXCEPT ![p] = NewRow(req[p])],
           pc' = [pc EXCEPT ![p] = "insertEntries"],
           UNCHANGED <<accountLock, txLock, eventLock, ledger, req, call>>,
           \/ epc'[p] = epc[p] /\ epc[p] = "none"
           \/ epc[p] \in Posting /\ epc'[p] \in Posting
    PROVE  Keeps(p)
<1>1. /\ AccountsHeld(p) /\ RowsHeld(p) /\ AtStatement(p) /\ RowsTyped
  BY DEF LocksInvariant, Holding
<1>2. PICK t \in TxRecord : t = NewRow(req[p]) /\ OneSided(t) /\ t # Null
  BY NewRowTyped, NullAssumption
<1>3. /\ pc'[p] = "insertEntries" /\ req'[p] = req[p] /\ call'[p] = call[p]
      /\ row' = [row EXCEPT ![p] = t] /\ row'[p] = t
      /\ req[p].op \in Ops /\ req[p].wallet \in Wallets
  BY <1>1, <1>2, RequestKnown DEF JobInvariant, EventsInvariant, Typed, RowsTyped
<1>4. /\ InIssue(p)' = InIssue(p) /\ Requesting(p)' = Requesting(p)
      /\ epc'[p] \in Posting <=> epc[p] \in Posting
      /\ Locked(p) /\ Locked(p)'
  BY <1>3 DEF InIssue, Requesting, Posting, Locked, PastAccount
<1>5. RowsStay
  BY DEF RowsStay
<1>6. RowsTyped'
  <2>1. row' \in [Workers -> TxRecord \cup {Null}]
    BY <1>1, <1>3 DEF RowsTyped
  <2>2. ASSUME NEW q \in Workers, row'[q] # Null
        PROVE  OneSided(row'[q])
    BY <1>1, <1>2, <1>3, <2>2 DEF RowsTyped
  <2> QED BY <1>1, <2>1, <2>2 DEF RowsTyped, OneSided
<1>7. OthersLocks(p)
  BY <1>1, <1>3 DEF OthersLocks, LocksApart, LocksInvariant, Holding, AtStatement, RowsTyped
<1>8. /\ WalletOf(req[p])' = WalletOf(req[p]) /\ NewRow(req[p])' = NewRow(req[p])
  BY <1>3 DEF WalletOf, NewRow, DebitAccount, CreditAccount, Amount, Original
<1>9. AccountsHeld(p)'
  <2>1. InIssue(p)' => accountLock'[call'[p].wallet] = p
    BY <1>1, <1>3, <1>4 DEF AccountsHeld
  <2>2. Requesting(p)' /\ Locked(p)' /\ WalletOf(req[p])' \in Wallets
          => accountLock'[WalletOf(req[p])'] = p
    BY <1>1, <1>3, <1>4, <1>8 DEF AccountsHeld
  <2>3. ASSUME NEW w \in Wallets, accountLock'[w] = p
        PROVE  \/ InIssue(p)' /\ call'[p].wallet = w
               \/ job'[p] # Null /\ Paid(w, job[p].week)'
               \/ Serves(p, w)'
    <3>1. \/ InIssue(p) /\ call[p].wallet = w
          \/ job[p] # Null /\ Paid(w, job[p].week)
          \/ Serves(p, w)
      BY <1>1, <2>3 DEF AccountsHeld
    <3>2. CASE job[p] # Null /\ Paid(w, job[p].week)
      BY <3>2, PaidStays DEF Frame
    <3>3. CASE Serves(p, w)
      BY <1>3, <1>4, <1>8, <3>3 DEF Serves, PastAccount
    <3> QED BY <1>3, <1>4, <3>1, <3>2, <3>3
  <2> QED BY <2>1, <2>2, <2>3 DEF AccountsHeld
<1>10. RowsHeld(p)'
  <2>1. \A k \in Keys : txLock[k] = p =>
           Requesting(p) /\ "insertEntries" \in PastAccount \cup {"lockAccount", "commit"}
    BY <1>1 DEF RowsHeld, PastAccount
  <2> QED BY <1>1, <1>3, <1>4, <2>1 DEF RowsHeld
<1>11. AtStatement(p)'
  BY <1>1, <1>2, <1>3, <1>4, <1>8 DEF AtStatement, Frame, WeekStart
<1> QED BY <1>5, <1>6, <1>7, <1>9, <1>10, <1>11 DEF Keeps, Holding

-----------------------------------------------------------------------------
(* The statements that lock.                                               *)

LEMMA LockAccountHolds ==
    ASSUME JobInvariant, JobInvariant', LocksInvariant, NEW p \in Workers,
           Frame(p), RunStays(p), LockAccount(p), epc[p] = "none",
           UNCHANGED <<eventLock, epc, call>>
    PROVE  Keeps(p)
<1>1. /\ AccountsHeld(p) /\ RowsHeld(p) /\ AtStatement(p) /\ RowsTyped
      /\ pc[p] = "lockAccount" /\ Requesting(p)
  BY DEF LocksInvariant, Holding, LockAccount, Requesting
<1>2. PICK W \in Wallets : W = WalletOf(req[p])
  BY <1>1 DEF AtStatement
<1>3. accountLock[W] \in {Null, p}
  BY <1>1, <1>2 DEF RowsTyped, LockAccount, Blockers
<1>4. /\ accountLock' = [accountLock EXCEPT ![W] = p]
      /\ \E s \in {"existingKey", "sumCredits"} : pc' = [pc EXCEPT ![p] = s]
      /\ UNCHANGED <<txLock, ledger, row, req>>
  BY <1>2 DEF LockAccount, Goto, store
<1>5. /\ pc'[p] \in {"existingKey", "sumCredits"} /\ Requesting(p)' /\ Locked(p)'
      /\ req'[p] = req[p] /\ epc'[p] = "none" /\ WalletOf(req[p])' = W
      /\ row'[p] = row[p]
  BY <1>2, <1>4
     DEF JobInvariant, EventsInvariant, Typed, Requesting, Locked, PastAccount,
         WalletOf, Original
<1>6. RowsStay
  BY <1>4 DEF RowsStay
<1>7. RowsTyped'
  BY <1>1, <1>4 DEF RowsTyped, OneSided
<1>8. OthersLocks(p)
  BY <1>1, <1>3, <1>4, NoNullWorker
     DEF OthersLocks, LocksApart, LocksInvariant, Holding, AtStatement, RowsTyped
<1>9. accountLock'[W] = p /\ \A w \in Wallets \ {W} : accountLock'[w] = accountLock[w]
  BY <1>1, <1>4 DEF RowsTyped
<1>10. ~InIssue(p) /\ ~InIssue(p)' /\ epc'[p] \notin Posting /\ epc[p] \notin Posting
  BY <1>5 DEF InIssue, Posting
<1>11. AccountsHeld(p)'
  <2>1. Serves(p, W)'
    BY <1>1, <1>4, <1>5 DEF Serves, RowsHeld, PastAccount
  <2>2. ASSUME NEW w \in Wallets \ {W}, accountLock[w] = p
        PROVE  job'[p] # Null /\ Paid(w, job[p].week)'
    <3>1. ~Serves(p, w)
      BY <1>1 DEF Serves, PastAccount
    <3>2. job[p] # Null /\ Paid(w, job[p].week)
      BY <1>1, <1>10, <2>2, <3>1 DEF AccountsHeld
    <3> QED BY <3>2, PaidStays DEF Frame
  <2> QED BY <1>5, <1>9, <1>10, <2>1, <2>2 DEF AccountsHeld
<1>12. RowsHeld(p)'
  <2>1. req[p].op = "reversal" => txLock[req[p].original] = p
    BY <1>1 DEF RowsHeld
  <2> QED BY <1>1, <1>4, <1>5, <1>10, <2>1 DEF RowsHeld, PastAccount
<1>13. AtStatement(p)'
  BY <1>1, <1>5, <1>10 DEF AtStatement, Frame, WeekStart
<1> QED BY <1>6, <1>7, <1>8, <1>11, <1>12, <1>13 DEF Keeps, Holding

LEMMA LockOriginalHolds ==
    ASSUME JobInvariant, JobInvariant', LocksInvariant, NEW p \in Workers,
           Frame(p), RunStays(p), epc[p] = "none", pc[p] = "lockOriginal",
           Original(req[p]) # Null, Blockers(p) = {},
           txLock' = [txLock EXCEPT ![req[p].original] = p],
           pc' = [pc EXCEPT ![p] = IF Original(req[p]).credit \in Wallets
                                   THEN "lockAccount" ELSE "existingKey"],
           UNCHANGED <<accountLock, ledger, row, req, eventLock, epc, call>>
    PROVE  Keeps(p)
<1>1. /\ AccountsHeld(p) /\ RowsHeld(p) /\ AtStatement(p) /\ RowsTyped
      /\ Requesting(p)
  BY DEF LocksInvariant, Holding, Requesting
<1>2. req[p].op = "reversal" /\ req[p].original \in Keys
  BY <1>1, RequestKnown DEF AtStatement
<1>3. PICK o \in Keys : o = req[p].original
  BY <1>2
<1>4. txLock[o] \in {Null, p} /\ ledger[o] # Null
  BY <1>1, <1>3 DEF RowsTyped, Blockers, Original
<1>5. WalletOf(req[p]) = Original(req[p]).credit
  BY <1>2 DEF WalletOf
<1>6. /\ pc'[p] = IF WalletOf(req[p]) \in Wallets THEN "lockAccount" ELSE "existingKey"
      /\ Requesting(p)' /\ req'[p] = req[p] /\ epc'[p] = "none"
      /\ WalletOf(req[p])' = WalletOf(req[p]) /\ row'[p] = row[p]
  BY <1>5 DEF JobInvariant, EventsInvariant, Typed, Requesting, WalletOf, Original
<1>7. row[p] = Null
  BY <1>1 DEF AtStatement
<1>8. RowsStay
  BY DEF RowsStay
<1>9. /\ txLock' \in [Keys -> Workers \cup {Null}] /\ txLock'[o] = p
      /\ \A k \in Keys \ {o} : txLock'[k] = txLock[k]
  BY <1>1, <1>3 DEF RowsTyped
<1>10. RowsTyped'
  BY <1>1, <1>4, <1>9 DEF RowsTyped, OneSided
<1>11. OthersLocks(p)
  BY <1>4, <1>9, NoNullWorker
     DEF OthersLocks, LocksApart, LocksInvariant, Holding, AtStatement
<1>12. ~InIssue(p) /\ ~InIssue(p)' /\ epc'[p] \notin Posting /\ epc[p] \notin Posting
  BY <1>6 DEF InIssue, Posting
<1>13. AccountsHeld(p)'
  <2>1. Locked(p)' => WalletOf(req[p])' \notin Wallets
    BY <1>6, <1>7 DEF Locked, PastAccount
  <2>2. ASSUME NEW w \in Wallets, accountLock[w] = p
        PROVE  job'[p] # Null /\ Paid(w, job[p].week)'
    <3>1. ~Serves(p, w)
      BY DEF Serves, PastAccount
    <3>2. job[p] # Null /\ Paid(w, job[p].week)
      BY <1>1, <1>12, <2>2, <3>1 DEF AccountsHeld
    <3> QED BY <3>2, PaidStays DEF Frame
  <2> QED BY <1>12, <2>1, <2>2 DEF AccountsHeld
<1>14. RowsHeld(p)'
  BY <1>1, <1>3, <1>6, <1>9, <1>12 DEF RowsHeld, PastAccount
<1>15. AtStatement(p)'
  BY <1>1, <1>2, <1>6, <1>7, <1>12 DEF AtStatement, Frame, WeekStart
<1> QED BY <1>8, <1>10, <1>11, <1>13, <1>14, <1>15 DEF Keeps, Holding

LEMMA LockWalletHolds ==
    ASSUME JobInvariant, JobInvariant', LocksInvariant, NEW p \in Workers,
           Frame(p), RunStays(p), LockWallet(p)
    PROVE  Keeps(p)
<1>1. /\ AtStatement(p) /\ RowsTyped /\ epc[p] = "lockWallet"
      /\ call[p] # Null /\ call[p].kind = "issue" /\ call[p].wallet \in Wallets
      /\ pc[p] = "idle" /\ req[p] = Null
  BY AtIssue DEF LocksInvariant, Holding, LockWallet, IssueStatements, JobInvariant
<1>2. PICK W \in Wallets : W = call[p].wallet
  BY <1>1
<1>3. accountLock[W] \in {Null, p}
  BY <1>1, <1>2 DEF RowsTyped, LockWallet, EWaitsFor
<1>4. /\ accountLock' = [accountLock EXCEPT ![W] = p]
      /\ epc' = [epc EXCEPT ![p] = "findAgain"]
      /\ UNCHANGED <<txLock, ledger, row, req, pc, eventLock, call>>
  BY <1>2 DEF LockWallet, Continue, store, local
<1>5. /\ epc'[p] = "findAgain" /\ ~Requesting(p)' /\ InIssue(p)' /\ ~InIssue(p)
      /\ epc[p] \notin Posting /\ epc'[p] \notin Posting
  BY <1>1, <1>4
     DEF JobInvariant, EventsInvariant, Typed, Requesting, InIssue, Posting
<1>6. /\ row[p] = Null /\ \A k \in Keys : txLock[k] # p
      /\ \A k \in Keys : eventLock[k] # p
  BY <1>1, <1>5, IdleHolds
<1>7. RowsStay
  BY <1>4 DEF RowsStay
<1>8. RowsTyped'
  BY <1>1, <1>4 DEF RowsTyped, OneSided
<1>9. OthersLocks(p)
  BY <1>1, <1>3, <1>4, NoNullWorker
     DEF OthersLocks, LocksApart, LocksInvariant, Holding, AtStatement, RowsTyped
<1>10. accountLock'[W] = p /\ \A w \in Wallets \ {W} : accountLock'[w] = accountLock[w]
  BY <1>1, <1>4 DEF RowsTyped
<1>11. AccountsHeld(p)'
  <2>1. ASSUME NEW w \in Wallets \ {W}, accountLock[w] = p
        PROVE  job'[p] # Null /\ Paid(w, job[p].week)'
    <3>1. job[p] # Null /\ Paid(w, job[p].week)
      BY <1>1, <1>5, <2>1, IdleHolds
    <3> QED BY <3>1, PaidStays DEF Frame
  <2> QED BY <1>2, <1>4, <1>5, <1>10, <2>1 DEF AccountsHeld
<1>12. RowsHeld(p)'
  BY <1>4, <1>5, <1>6 DEF RowsHeld
<1>13. AtStatement(p)'
  BY <1>1, <1>4, <1>5, <1>6 DEF AtStatement, Frame, WeekStart
<1> QED BY <1>7, <1>8, <1>9, <1>11, <1>12, <1>13 DEF Keeps, Holding

LEMMA LockEventHolds ==
    ASSUME JobInvariant, JobInvariant', LocksInvariant, NEW p \in Workers,
           Frame(p), RunStays(p), LockEvent(p)
    PROVE  Keeps(p)
<1>1. CASE EndSession(p, "refused")
  BY <1>1, SessionEnds
<1>2. CASE ~EndSession(p, "refused")
  <2>1. /\ epc[p] = "lockEvent" /\ EWaitsFor(p) = {}
        /\ eventLock' = [eventLock EXCEPT ![call[p].key] = p]
        /\ \E s \in Posting : epc' = [epc EXCEPT ![p] = s]
        /\ UNCHANGED vars /\ call' = call
    BY <1>2 DEF LockEvent, Continue, Posting
  <2>2. /\ AtStatement(p) /\ RowsTyped /\ Ready(p)
    BY DEF LocksInvariant, Holding, JobInvariant, EventsInvariant
  <2>3. /\ call[p] # Null /\ call[p].kind # "issue" /\ call[p].key \in Keys
        /\ pc[p] = "idle" /\ req[p] = Null
    BY <2>1, <2>2, CallTyped DEF Ready, JobInvariant
  <2>4. PICK k \in Keys : k = call[p].key
    BY <2>3
  <2>5. eventLock \in [Keys -> Workers \cup {Null}] /\ eventLock[k] \in {Null, p}
    BY <2>1, <2>4 DEF EWaitsFor, JobInvariant, EventsInvariant, Typed
  <2>6. /\ eventLock'[k] = p /\ \A j \in Keys \ {k} : eventLock'[j] = eventLock[j]
    BY <2>1, <2>4, <2>5
  <2>7. /\ epc'[p] \in Posting /\ epc[p] \notin Posting /\ call'[p] = call[p]
        /\ UNCHANGED <<accountLock, txLock, ledger, row, req, pc>>
    BY <2>1 DEF JobInvariant, EventsInvariant, Typed, Posting, vars, store, locks, local
  <2>8. ~InIssue(p) /\ ~InIssue(p)' /\ ~Requesting(p)'
    BY <2>1, <2>3, <2>7 DEF InIssue, Requesting, Posting
  <2>9. row[p] = Null /\ \A j \in Keys : txLock[j] # p
    BY <2>3, IdleHolds
  <2>10. RowsStay
    BY <2>7 DEF RowsStay
  <2>11. RowsTyped'
    BY <2>2, <2>7 DEF RowsTyped, OneSided
  <2>12. OthersLocks(p)
    BY <2>5, <2>6, <2>7, NoNullWorker
       DEF OthersLocks, LocksApart, LocksInvariant, Holding, AtStatement
  <2>13. AccountsHeld(p)'
    <3>1. ASSUME NEW w \in Wallets, accountLock[w] = p
          PROVE  job'[p] # Null /\ Paid(w, job[p].week)'
      <4>1. job[p] # Null /\ Paid(w, job[p].week)
        BY <2>3, <2>8, <3>1, IdleHolds
      <4> QED BY <4>1, PaidStays DEF Frame
    <3> QED BY <2>7, <2>8, <3>1 DEF AccountsHeld
  <2>14. RowsHeld(p)'
    BY <2>3, <2>7, <2>8, <2>9 DEF RowsHeld
  <2>15. AtStatement(p)'
    BY <2>2, <2>3, <2>7, <2>8, <2>9 DEF AtStatement, Frame, WeekStart
  <2> QED BY <2>10, <2>11, <2>12, <2>13, <2>14, <2>15 DEF Keeps, Holding
<1> QED BY <1>1, <1>2

LEMMA StartLedgerCallHolds ==
    ASSUME JobInvariant, JobInvariant', LocksInvariant, NEW p \in Workers,
           Frame(p), RunStays(p), StartLedgerCall(p)
    PROVE  Keeps(p)
<1>1. PICK r \in Requests :
        /\ req' = [req EXCEPT ![p] = r]
        /\ pc' = [pc EXCEPT ![p] = IF r.op = "reversal" THEN "reversalKey"
                                                        ELSE "requireActive"]
  BY DEF StartLedgerCall, Begin, Goto
<1>2. /\ pc[p] = "idle" /\ epc[p] = "none"
      /\ UNCHANGED <<accountLock, txLock, ledger, row, eventLock, epc, call>>
  BY DEF StartLedgerCall, Begin, store, locks
<1>3. /\ req'[p] = r /\ epc'[p] = "none"
      /\ pc'[p] = IF r.op = "reversal" THEN "reversalKey" ELSE "requireActive"
  BY <1>1, <1>2 DEF JobInvariant, EventsInvariant, Typed
<1>4. /\ ~InIssue(p) /\ ~InIssue(p)' /\ epc[p] \notin Posting /\ epc'[p] \notin Posting
  BY <1>2, <1>3 DEF InIssue, Posting
<1>5. /\ row[p] = Null /\ \A k \in Keys : txLock[k] # p
      /\ \A k \in Keys : eventLock[k] # p
  BY <1>2, <1>4, IdleHolds
<1>6. RowsStay
  BY <1>2 DEF RowsStay
<1>7. RowsTyped'
  BY <1>2 DEF LocksInvariant, RowsTyped, OneSided
<1>8. OthersLocks(p)
  BY <1>2 DEF OthersLocks, LocksApart, LocksInvariant, Holding, AtStatement
<1>9. ~Locked(p)'
  BY <1>2, <1>3, <1>5 DEF Locked, PastAccount
<1>10. AccountsHeld(p)'
  <2>1. ASSUME NEW w \in Wallets, accountLock[w] = p
        PROVE  job'[p] # Null /\ Paid(w, job[p].week)'
    <3>1. job[p] # Null /\ Paid(w, job[p].week)
      BY <1>2, <1>4, <2>1, IdleHolds
    <3> QED BY <3>1, PaidStays DEF Frame
  <2> QED BY <1>2, <1>4, <1>9, <2>1 DEF AccountsHeld
<1>11. RowsHeld(p)'
  BY <1>2, <1>3, <1>5, <1>9 DEF RowsHeld
<1>12. AtStatement(p)'
  BY <1>2, <1>3, <1>4, <1>5 DEF AtStatement, Frame, WeekStart
<1> QED BY <1>6, <1>7, <1>8, <1>10, <1>11, <1>12 DEF Keeps, Holding

LEMMA CallEarnHolds ==
    ASSUME JobInvariant, JobInvariant', LocksInvariant, NEW p \in Workers,
           Frame(p), RunStays(p), CallEarn(p)
    PROVE  Keeps(p)
<1>1. CASE EndSession(p, "refused")
  BY <1>1, SessionEnds
<1>2. CASE ~EndSession(p, "refused")
  <2>1. /\ epc[p] = "post" /\ pc[p] = "idle"
        /\ req' = [req EXCEPT ![p] = EarnCall(call[p])]
        /\ pc' = [pc EXCEPT ![p] = "existingKey"]
        /\ UNCHANGED <<accountLock, txLock, ledger, row, eventLock, epc, call>>
    BY <1>2 DEF CallEarn, Goto, store, locks, evars
  <2>2. /\ req'[p] = EarnCall(call[p]) /\ pc'[p] = "existingKey"
        /\ epc'[p] = "post" /\ call'[p] = call[p]
    BY <2>1 DEF JobInvariant, EventsInvariant, Typed
  <2>3. /\ AccountsHeld(p) /\ RowsHeld(p) /\ AtStatement(p)
    BY DEF LocksInvariant, Holding
  <2>4. /\ InIssue(p)' = InIssue(p) /\ ~Requesting(p)' /\ ~Requesting(p)
        /\ epc[p] \in Posting /\ epc'[p] \in Posting
    BY <2>1, <2>2 DEF InIssue, Requesting, Posting
  <2>5. call[p].kind = "issue" => EarnCall(call[p]).wallet = call[p].wallet
    BY DEF EarnCall, EarnOf, EventOf
  <2>6. /\ row[p] = Null /\ \A k \in Keys : txLock[k] # p
    BY <2>1, IdleHolds
  <2>7. RowsStay
    BY <2>1 DEF RowsStay
  <2>8. RowsTyped'
    BY <2>1 DEF LocksInvariant, RowsTyped, OneSided
  <2>9. OthersLocks(p)
    BY <2>1 DEF OthersLocks, LocksApart, LocksInvariant, Holding, AtStatement
  <2>10. AccountsHeld(p)'
    <3>1. ASSUME NEW w \in Wallets, accountLock[w] = p
          PROVE  \/ InIssue(p) /\ call[p].wallet = w
                 \/ job'[p] # Null /\ Paid(w, job[p].week)'
      <4>1. \/ InIssue(p) /\ call[p].wallet = w
            \/ job[p] # Null /\ Paid(w, job[p].week)
        BY <2>1, <3>1, IdleHolds
      <4> QED BY <4>1, PaidStays DEF Frame
    <3> QED BY <2>1, <2>2, <2>3, <2>4, <3>1 DEF AccountsHeld
  <2>11. RowsHeld(p)'
    BY <2>1, <2>2, <2>3, <2>4, <2>6 DEF RowsHeld
  <2>12. AtStatement(p)'
    BY <2>1, <2>2, <2>4, <2>5, <2>6 DEF AtStatement, Frame, WeekStart
  <2> QED BY <2>7, <2>8, <2>9, <2>10, <2>11, <2>12 DEF Keeps, Holding
<1> QED BY <1>1, <1>2

-----------------------------------------------------------------------------
(* Posting, and the commits.                                               *)

(* post_transaction, for a request or for a call.                          *)
LEMMA PostsHold ==
    ASSUME JobInvariant, JobInvariant', LocksInvariant, NEW p \in Workers,
           Frame(p), RunStays(p),
           ExistingKey(p) \/ InsertRow(p) \/ InsertEntries(p),
           pc'[p] = "idle" =>
              \/ \E b : Answer(p, b)
              \/ /\ epc[p] \notin Posting /\ eventLock' = eventLock
                 /\ epc'[p] \in {"none", "raced"},
           pc'[p] # "idle" =>
              /\ UNCHANGED <<eventLock, call>>
              /\ \/ epc'[p] = epc[p] /\ epc[p] = "none"
                 \/ epc[p] \in Posting /\ epc'[p] \in Posting
    PROVE  Keeps(p)
<1>1. CASE Rollback(p, "refused")
  <2>1. pc'[p] = "idle"
    BY <1>1 DEF Rollback, EndTransaction, JobInvariant, EventsInvariant, Typed
  <2> QED BY <1>1, <2>1, RollbackHolds
<1>2. CASE InsertRow(p) /\ ~Rollback(p, "refused")
  <2>1. /\ pc[p] = "insertRow" /\ ledger[req[p].key] = Null
        /\ row' = [row EXCEPT ![p] = NewRow(req[p])]
        /\ pc' = [pc EXCEPT ![p] = "insertEntries"]
        /\ UNCHANGED <<accountLock, txLock, ledger, req>>
    BY <1>2 DEF InsertRow, Goto, store, locks
  <2>2. pc'[p] # "idle"
    BY <2>1 DEF JobInvariant, EventsInvariant, Typed
  <2> QED BY <2>1, <2>2, InsertRowHolds
<1>3. CASE (ExistingKey(p) \/ InsertEntries(p)) /\ ~Rollback(p, "refused")
  <2>1. PICK s \in {"insertRow", "commit"} :
          /\ pc' = [pc EXCEPT ![p] = s]
          /\ UNCHANGED <<accountLock, txLock, ledger, row, req>>
          /\ \/ <<pc[p], s>> \in {<<"existingKey", "commit">>,
                                  <<"insertEntries", "commit">>}
             \/ <<pc[p], s>> = <<"existingKey", "insertRow">> /\ Amount(req[p]) # 0
    <3>1. CASE ExistingKey(p)
      BY <1>3, <3>1 DEF ExistingKey, Goto, store, locks
    <3>2. CASE InsertEntries(p)
      BY <3>2 DEF InsertEntries, Goto, store, locks
    <3> QED BY <1>3, <3>1, <3>2
  <2>2. /\ pc'[p] # "idle" /\ s \in Statements
        /\ pc[p] \in {"existingKey", "insertEntries"} /\ pc[p] # "idle"
    BY <2>1 DEF JobInvariant, EventsInvariant, Typed, Statements
  <2> QED BY <2>1, <2>2, StatementHolds
<1> QED BY <1>1, <1>2, <1>3

LEMMA PostHolds ==
    ASSUME JobInvariant, JobInvariant', LocksInvariant, NEW p \in Workers,
           Frame(p), RunStays(p), Post(p)
    PROVE  Keeps(p)
<1>1. pc'[p] = "idle" => \E b : Answer(p, b)
  BY DEF Post
<1>2. pc'[p] # "idle" =>
        /\ UNCHANGED <<eventLock, call>>
        /\ epc[p] \in Posting /\ epc'[p] \in Posting
  BY DEF Post, Continue, Posting, JobInvariant, EventsInvariant, Typed
<1> QED BY <1>1, <1>2, PostsHold DEF Post

LEMMA PlainLedgerHolds ==
    ASSUME JobInvariant, JobInvariant', LocksInvariant, NEW p \in Workers,
           Frame(p), RunStays(p), PlainLedger(p)
    PROVE  Keeps(p)
<1>1. /\ epc[p] = "none" /\ epc'[p] = epc[p] /\ epc[p] \notin Posting
      /\ UNCHANGED <<eventLock, epc, call>>
  BY DEF PlainLedger, evars, Posting
<1>2. ASSUME Rollback(p, "refused")
      PROVE  Keeps(p)
  BY <1>1, <1>2, RollbackHolds
<1>3. /\ AtStatement(p) /\ Ready(p)
  BY DEF LocksInvariant, Holding, JobInvariant, EventsInvariant
<1>4. CASE ExistingKey(p) \/ InsertRow(p) \/ InsertEntries(p)
  BY <1>1, <1>4, PostsHold
<1>5. CASE LockAccount(p)
  BY <1>1, <1>5, LockAccountHolds
<1>6. CASE LockOriginal(p)
  <2>1. CASE ~Rollback(p, "refused")
    <3>1. /\ pc[p] = "lockOriginal" /\ Original(req[p]) # Null /\ Blockers(p) = {}
          /\ txLock' = [txLock EXCEPT ![req[p].original] = p]
          /\ pc' = [pc EXCEPT ![p] = IF Original(req[p]).credit \in Wallets
                                     THEN "lockAccount" ELSE "existingKey"]
          /\ UNCHANGED <<accountLock, ledger, row, req>>
      BY <1>6, <2>1 DEF LockOriginal, Goto, store
    <3> QED BY <1>1, <3>1, LockOriginalHolds
  <2> QED BY <1>2, <2>1
<1>7. CASE /\ RequireActive(p) \/ SumCredits(p) \/ SumDebits(p) \/ ReversalKey(p)
           /\ ~Rollback(p, "refused")
  <2>1. pc[p] # "idle"
    BY <1>7 DEF RequireActive, SumCredits, SumDebits, ReversalKey
  <2>2. req[p].op # "earn"
    BY <1>1, <1>3, <2>1 DEF Ready
  <2>3. PICK s : /\ pc' = [pc EXCEPT ![p] = s]
                 /\ UNCHANGED <<accountLock, txLock, ledger, row, req>>
                 /\ <<pc[p], s>> \in {<<"sumCredits", "sumDebits">>,
                                      <<"sumDebits", "existingKey">>,
                                      <<"reversalKey", "lockOriginal">>,
                                      <<"reversalKey", "commit">>,
                                      <<"requireActive", "lockAccount">>}
    <3>1. CASE RequireActive(p)
      BY <1>7, <2>2, <3>1 DEF RequireActive, Goto, store, locks
    <3>2. CASE SumCredits(p)
      BY <3>2 DEF SumCredits, Goto, store, locks
    <3>3. CASE SumDebits(p)
      BY <1>7, <3>3 DEF SumDebits, Goto, store, locks
    <3>4. CASE ReversalKey(p)
      BY <1>7, <3>4 DEF ReversalKey, Goto, store, locks
    <3> QED BY <1>7, <3>1, <3>2, <3>3, <3>4
  <2>4. s \in Statements
    BY <2>3 DEF Statements
  <2> QED BY <1>1, <2>1, <2>2, <2>3, <2>4, StatementHolds
<1> QED BY <1>2, <1>4, <1>5, <1>6, <1>7 DEF PlainLedger

(* A commit writes the row of p alone, and marks what it reverses.         *)
LEMMA CommitHolds ==
    ASSUME OneUsePerKey, JobInvariant, LocksInvariant, NEW p \in Workers,
           Frame(p), Commit(p), epc'[p] = "none",
           \A k \in Keys : eventLock'[k] # p,
           \A q \in Workers \ {p}, k \in Keys : eventLock'[k] = q <=> eventLock[k] = q
    PROVE  Keeps(p)
<1>1. /\ RowsTyped /\ AtStatement(p) /\ pc[p] # "idle"
      /\ ledger' = LedgerAfter(p) /\ EndTransaction(p, "ok")
  BY DEF LocksInvariant, Holding, Commit
<1>2. req[p].key \in Keys /\ req[p].original \in Keys
  BY <1>1, RequestKnown
<1>3. ASSUME NEW k \in Keys
      PROVE  /\ ledger'[k] \in TxRecord \cup {Null}
             /\ ledger'[k] # Null => OneSided(ledger'[k])
             /\ ledger[k] # Null => /\ ledger'[k] # Null
                                    /\ ledger'[k].debit = ledger[k].debit
                                    /\ ledger'[k].credit = ledger[k].credit
                                    /\ ledger'[k].amount = ledger[k].amount
             /\ ledger[k] = Null /\ ledger'[k] # Null
                  => row[p] # Null /\ k = req[p].key
  <2>1. CASE row[p] # Null /\ k = req[p].key
    <3>1. ledger'[k] = row[p] /\ ledger[k] = Null
      BY <1>1, <2>1 DEF LedgerAfter, AtStatement
    <3> QED BY <1>1, <2>1, <3>1 DEF RowsTyped
  <2>2. CASE ~(row[p] # Null /\ k = req[p].key)
             /\ MarksOriginal(p) /\ k = req[p].original
    <3>1. ledger'[k] = [ledger[k] EXCEPT !.status = "reversed"]
      BY <1>1, <2>2 DEF LedgerAfter
    <3>2. ledger[k] # Null /\ ledger[k] \in TxRecord /\ OneSided(ledger[k])
      BY <1>1, <2>2, HeldIsThere DEF MarksOriginal
    <3>3. /\ ledger'[k] \in TxRecord
          /\ ledger'[k].debit = ledger[k].debit
          /\ ledger'[k].credit = ledger[k].credit
          /\ ledger'[k].amount = ledger[k].amount
      BY <3>1, <3>2 DEF TxRecord
    <3> QED BY <3>2, <3>3, NullAssumption DEF OneSided
  <2>3. CASE ~(row[p] # Null /\ k = req[p].key)
             /\ ~(MarksOriginal(p) /\ k = req[p].original)
    <3>1. ledger'[k] = ledger[k]
      BY <1>1, <2>3 DEF LedgerAfter
    <3> QED BY <1>1, <3>1 DEF RowsTyped
  <2> QED BY <2>1, <2>2, <2>3
<1>4. RowsStay
  BY <1>3 DEF RowsStay
<1>5. ledger' \in [Keys -> TxRecord \cup {Null}]
  <2>1. ledger' = [k \in Keys |-> ledger'[k]]
    BY <1>1 DEF LedgerAfter
  <2> QED BY <1>3, <2>1
<1>6. ASSUME NEW q \in Workers \ {p}, row[q] # Null
      PROVE  ledger'[req[q].key] = Null
  <2>1. AtStatement(q) /\ pc[q] # "idle" /\ req[q].key \in Keys
    <3>1. AtStatement(q)
      BY DEF LocksInvariant, Holding
    <3>2. pc[q] # "idle"
      BY <1>6, <3>1 DEF AtStatement
    <3> QED BY <3>1, <3>2, RequestKnown
  <2>2. ledger[req[q].key] = Null
    BY <1>6, <2>1 DEF AtStatement
  <2>3. ~(row[p] # Null /\ req[q].key = req[p].key)
    BY <1>6, KeyedOnce DEF Keyed
  <2> QED BY <1>3, <2>1, <2>2, <2>3
<1> QED BY <1>1, <1>3, <1>4, <1>5, <1>6, ReleaseKeeps

LEMMA CommitsHold ==
    ASSUME OneUsePerKey, JobInvariant, LocksInvariant, NEW p \in Workers,
           Frame(p), CommitEvent(p) \/ CommitLedger(p)
    PROVE  Keeps(p)
<1>1. CASE CommitEvent(p)
  <2>1. Answer(p, "event") /\ (Commit(p) \/ Rollback(p, "none"))
    BY <1>1 DEF CommitEvent
  <2>2. CASE Commit(p)
    BY <2>1, <2>2, AnswerReleases, CommitHolds
  <2>3. CASE Rollback(p, "none")
    BY <2>1, <2>3, RollbackHolds
  <2> QED BY <2>1, <2>2, <2>3
<1>2. CASE CommitLedger(p)
  <2>1. /\ epc[p] = "none" /\ Commit(p) /\ UNCHANGED <<eventLock, epc>>
    BY <1>2 DEF CommitLedger
  <2>2. \A k \in Keys : eventLock[k] # p
    BY <2>1 DEF LocksInvariant, Holding, RowsHeld, Posting
  <2> QED BY <2>1, <2>2, CommitHolds
<1> QED BY <1>1, <1>2

-----------------------------------------------------------------------------
(* Every step.                                                             *)

LEMMA CallStepHolds ==
    ASSUME OneUsePerKey, JobInvariant, JobInvariant', LocksInvariant,
           NEW p \in Workers, Frame(p), RunStays(p), CallStep(p)
    PROVE  Keeps(p)
BY LooksUpHolds, LockWalletHolds, LockEventHolds, CallEarnHolds, PostHolds,
   PlainLedgerHolds, CommitsHold DEF CallStep

LEMMA SessionHolds ==
    ASSUME OneUsePerKey, JobInvariant, JobInvariant', LocksInvariant,
           NEW p \in Workers,
           StartRun(p) \/ RunStep(p) \/ IssueFails(p) \/ RunDies(p) \/ Staff(p)
    PROVE  Frame(p) /\ Keeps(p)
<1>1. CASE StartRun(p) \/ NextStudent(p) \/ CountDays(p)
  BY <1>1, StartRunFrame, NextStudentFrame, CountDaysFrame, ScoringHolds
<1>2. CASE Issuing(p)
  <2>1. Frame(p) /\ RunStays(p) /\ job[p] # Null
    BY <1>2, IssuingFrame DEF Issuing
  <2>2. CASE JobFindEvent(p) \/ JobFindAgain(p)
    BY <2>1, <2>2, JobLooksUpHolds
  <2>3. CASE ~(JobFindEvent(p) \/ JobFindAgain(p))
    BY <1>2, <2>1, <2>3, CallStepHolds DEF Issuing, CallStep
  <2> QED BY <2>1, <2>2, <2>3
<1>3. CASE IssueFails(p) \/ FinishRun(p) \/ RunDies(p)
  <2>1. Frame(p)
    BY <1>3, RollsBackFrame
  <2>2. \E a, b : Rollback(p, a) /\ Answer(p, b)
    BY <1>3 DEF IssueFails, FinishRun, RunDies
  <2> QED BY <2>1, <2>2, RollbackHolds
<1>4. CASE Staff(p)
  <2>1. Frame(p) /\ RunStays(p)
    BY <1>4, StaffFrame
  <2>2. CASE CallStep(p)
    BY <2>1, <2>2, CallStepHolds
  <2>3. CASE StartCall(p) \/ StartLedgerCall(p)
    BY <2>1, <2>3, StartCallHolds, StartLedgerCallHolds
  <2>4. CASE Dies(p)
    BY <2>1, <2>4, RollbackHolds DEF Dies
  <2> QED BY <1>4, <2>1, <2>2, <2>3, <2>4 DEF Staff, StaffStep
<1> QED BY <1>1, <1>2, <1>3, <1>4 DEF RunStep

(* A wallet is frozen, or nothing happens.                                 *)
LEMMA FreezeKeeps ==
    ASSUME JobInvariant, LocksInvariant, EventsGrow, today' = today,
           UNCHANGED <<accountLock, txLock, eventLock, ledger, row, req, pc,
                       epc, call>>,
           \A q \in Workers : SameRun(q)
    PROVE  LocksInvariant' /\ \A q \in Workers : LocksApart(q)
<1>1. RowsStay
  BY DEF RowsStay
<1>2. RowsTyped'
  BY DEF LocksInvariant, RowsTyped, OneSided
<1>3. \A q \in Workers : LocksApart(q)
  BY DEF LocksApart, LocksInvariant, Holding, AtStatement
<1> QED BY <1>1, <1>2, <1>3, HeldStays DEF LocksInvariant

LEMMA NoSessionStep ==
    ASSUME JobInvariant,
           \/ UNCHANGED bvars
           \/ \E w \in Wallets : FreezeWallet(w) /\ job' = Watched(job)
    PROVE  /\ EventsGrow /\ today' = today /\ \A q \in Workers : SameRun(q)
           /\ UNCHANGED <<accountLock, txLock, eventLock, ledger, row, req, pc,
                          epc, call, event>>
<1>1. CASE UNCHANGED bvars
  <2>1. EventsGrow
    BY <1>1 DEF EventsGrow, bvars, evars
  <2> QED BY <1>1, <2>1 DEF bvars, vars, evars, store, locks, local, SameRun
<1>2. CASE \E w \in Wallets : FreezeWallet(w) /\ job' = Watched(job)
  <2>1. /\ today' = today
        /\ UNCHANGED <<accountLock, txLock, eventLock, ledger, row, req, pc,
                       epc, call, event>>
    BY <1>2 DEF FreezeWallet, SetWalletStatus, evars, store, locks, local
  <2>2. \A q \in Workers : SameRun(q)
    BY <1>2, WatchedRuns DEF JobInvariant, SameRun
  <2>3. EventsGrow
    BY <2>1 DEF EventsGrow
  <2> QED BY <2>1, <2>2, <2>3
<1> QED BY <1>1, <1>2

LEMMA LocksStep ==
    ASSUME OneUsePerKey, JobInvariant, JobInvariant', LocksInvariant, [BNext]_bvars
    PROVE  LocksInvariant'
<1>1. ASSUME NEW p \in Workers,
             StartRun(p) \/ RunStep(p) \/ IssueFails(p) \/ RunDies(p) \/ Staff(p)
      PROVE  LocksInvariant'
  BY <1>1, SessionHolds, LocksKept
<1> QED BY <1>1, NoSessionStep, FreezeKeeps DEF BNext

-----------------------------------------------------------------------------
(* The order of payment.                                                   *)

(* Who waits after a step waited before it, or has just found the student  *)
(* unpaid.                                                                 *)
WaitsAfter(q) ==
    \A v \in Wallets, d \in ScoredWeeks :
        RunWaits(q, v, d)' =>
            /\ call'[q] = call[q] /\ call[q].wallet \in Wallets
            /\ Paid(v, d)
            /\ Paid(call[q].wallet, d) => RunWaits(q, v, d)

LEMMA RunWaitsPaid ==
    ASSUME JobInvariant, LocksInvariant, NEW q \in Workers, NEW v \in Wallets,
           epc[q] \in {"findEvent", "lockWallet"}, accountLock[v] = q
    PROVE  /\ job[q] # Null /\ Paid(v, job[q].week)
           /\ call[q].wallet \in Wallets
<1>1. call[q].wallet \in Wallets /\ pc[q] = "idle"
  BY AtIssue DEF JobInvariant, IssueStatements
<1>2. ~InIssue(q)
  BY DEF InIssue, Posting
<1> QED BY <1>1, <1>2, IdleHolds

LEMMA OthersWait ==
    ASSUME JobInvariant, LocksInvariant, NEW q \in Workers, SameRun(q), LocksApart(q),
           epc'[q] = epc[q], call'[q] = call[q]
    PROVE  WaitsAfter(q)
<1> SUFFICES ASSUME NEW v \in Wallets, NEW d \in ScoredWeeks, RunWaits(q, v, d)'
             PROVE  /\ call[q].wallet \in Wallets
                    /\ Paid(v, d)
                    /\ RunWaits(q, v, d)
  BY DEF WaitsAfter
<1>1. RunWaits(q, v, d)
  BY DEF RunWaits, SameRun, LocksApart
<1> QED BY <1>1, RunWaitsPaid DEF RunWaits

(* A run comes to the account lock from a first look that found nothing.   *)
LEMMA ComesToLock ==
    ASSUME JobInvariant, NEW p \in Workers,
           StartRun(p) \/ RunStep(p) \/ IssueFails(p) \/ RunDies(p) \/ Staff(p),
           epc'[p] = "lockWallet", job'[p] # Null
    PROVE  JobFindEvent(p) /\ event[call[p].key] = Null /\ job[p] # Null
<1> USE DEF JobInvariant, EventsInvariant, Typed
<1>1. ~Staff(p)
  <2>1. SUFFICES ASSUME Staff(p)
                 PROVE  FALSE
    OBVIOUS
  <2>2. job[p] = Null /\ job' = Watched(job)
    BY <2>1 DEF Staff, StaffStep
  <2> QED BY <2>2, WatchedRuns
<1>2. ~StartRun(p) /\ ~NextStudent(p)
  BY DEF StartRun, NextStudent, Considering, evars
<1>3. ~CountDays(p)
  BY DEF CountDays, Considering, Continue, evars
<1>4. \A a : ~Answer(p, a)
  BY DEF Answer, Continue
<1>5. ~IssueFails(p) /\ ~FinishRun(p) /\ ~RunDies(p)
  BY <1>4 DEF IssueFails, FinishRun, RunDies
<1>6. Issuing(p)
  BY <1>1, <1>2, <1>3, <1>5 DEF RunStep
<1>7. \A a : ~EndSession(p, a) /\ ~Returns(p)
  BY <1>4 DEF EndSession, Returns
<1>8. \A s : Continue(p, s) => s = "lockWallet"
  BY DEF Continue
<1>9. ~LockWallet(p) /\ ~JobFindAgain(p)
  BY <1>7, <1>8 DEF LockWallet, JobFindAgain, FindAgain
<1>10. ~CheckDaily(p) /\ ~CheckWeekly(p)
  BY <1>7, <1>8 DEF CheckDaily, CheckWeekly, CheckLimit
<1>11. ~InsertEvent(p) /\ ~Raced(p)
  BY <1>7, <1>8 DEF InsertEvent, Raced
<1>12. ~CallEarn(p)
  BY <1>7 DEF CallEarn, evars
<1>13. ~Post(p) /\ ~CommitEvent(p)
  BY <1>4, <1>8 DEF Post, CommitEvent
<1> QED BY <1>6, <1>7, <1>9, <1>10, <1>11, <1>12, <1>13 DEF Issuing, JobFindEvent

LEMMA OwnWait ==
    ASSUME JobInvariant, LocksInvariant, NEW p \in Workers,
           StartRun(p) \/ RunStep(p) \/ IssueFails(p) \/ RunDies(p) \/ Staff(p)
    PROVE  WaitsAfter(p)
<1> SUFFICES ASSUME NEW v \in Wallets, NEW d \in ScoredWeeks, RunWaits(p, v, d)'
             PROVE  /\ call'[p] = call[p] /\ call[p].wallet \in Wallets
                    /\ Paid(v, d) /\ ~Paid(call[p].wallet, d)
  BY DEF WaitsAfter
<1>1. JobFindEvent(p) /\ event[call[p].key] = Null /\ job[p] # Null
  BY ComesToLock DEF RunWaits
<1>2. UNCHANGED vars /\ call' = call /\ epc[p] = "findEvent"
  BY <1>1 DEF JobFindEvent, Returns
<1>3. accountLock[v] = p
  BY <1>2 DEF RunWaits, vars, locks
<1>4. Frame(p)
  BY StartRunFrame, NextStudentFrame, CountDaysFrame, IssuingFrame,
     RollsBackFrame, StaffFrame DEF RunStep
<1>5. job[p].week = d
  BY <1>1, <1>4 DEF Frame, RunWaits, LocksInvariant, Holding, AtStatement
<1>6. job[p] # Null /\ Paid(v, d) /\ call[p].wallet \in Wallets
  BY <1>2, <1>3, <1>5, RunWaitsPaid
<1>7. call[p].key = BonusKey[call[p].wallet][d]
  <2>1. call[p] # Null /\ JobOK(p)
    BY <1>2, AtIssue DEF JobInvariant, IssueStatements
  <2>2. call[p] = BonusCall(job[p].student, job[p].week)
    BY <1>1, <2>1 DEF JobOK
  <2> QED BY <1>5, <2>2 DEF BonusCall
<1> QED BY <1>1, <1>2, <1>6, <1>7 DEF Paid

LEMMA OrderKept ==
    ASSUME JobInvariant, LocksInvariant, EventsGrow, Ordered,
           \A q \in Workers : WaitsAfter(q)
    PROVE  Ordered'
<1> SUFFICES ASSUME NEW d \in ScoredWeeks
             PROVE  (\E rank \in [Wallets -> Nat], n \in Nat : InOrder(d, rank, n))'
  BY DEF Ordered
<1>1. PICK rank \in [Wallets -> Nat], n \in Nat : InOrder(d, rank, n)
  BY DEF Ordered
<1> DEFINE next == [w \in Wallets |->
                      IF Paid(w, d) THEN rank[w]
                      ELSE IF event'[BonusKey[w][d]] # Null THEN n ELSE n + 1]
<1>2. next \in [Wallets -> Nat]
  BY <1>1
<1>3. PICK later \in [Wallets -> Nat] :
        \A w \in Wallets : later[w] = IF Paid(w, d) THEN rank[w]
                                      ELSE IF event'[BonusKey[w][d]] # Null
                                           THEN n ELSE n + 1
  BY <1>2
<1>4. PICK m \in Nat : m = n + 1
  BY <1>1
<1>5. ASSUME NEW w \in Wallets
      PROVE  /\ Paid(w, d) => event'[BonusKey[w][d]] # Null
             /\ Paid(w, d) <=> rank[w] < n
  <2>1. BonusKey[w][d] \in Keys
    BY BonusAssumption DEF ScoredWeeks
  <2> QED BY <1>1, <2>1 DEF InOrder, Paid, EventsGrow
<1>6. ASSUME NEW w \in Wallets
      PROVE  Paid(w, d)' <=> later[w] < m
  <2>1. Paid(w, d)' <=> event'[BonusKey[w][d]] # Null
    BY DEF Paid
  <2>2. rank[w] \in Nat
    BY <1>1
  <2> QED BY <1>3, <1>4, <1>5, <2>1, <2>2
<1>7. ASSUME NEW q \in Workers, NEW v \in Wallets, RunWaits(q, v, d)'
      PROVE  later[v] < later[call'[q].wallet]
  <2>1. /\ call'[q] = call[q] /\ call[q].wallet \in Wallets /\ Paid(v, d)
        /\ Paid(call[q].wallet, d) => RunWaits(q, v, d)
    BY <1>7 DEF WaitsAfter
  <2>2. PICK w \in Wallets : w = call[q].wallet
    BY <2>1
  <2>3. Paid(w, d) => rank[v] < rank[w]
    BY <1>1, <2>1, <2>2 DEF InOrder
  <2>4. rank[v] \in Nat /\ rank[w] \in Nat /\ rank[v] < n /\ later[v] = rank[v]
    BY <1>1, <1>3, <1>5, <2>1
  <2>5. later[v] < later[w]
    BY <1>3, <2>3, <2>4
  <2> QED BY <2>1, <2>2, <2>5
<1>8. InOrder(d, later, m)'
  BY <1>6, <1>7 DEF InOrder
<1> QED BY <1>8

LEMMA OrderStep ==
    ASSUME OneUsePerKey, JobInvariant, JobInvariant', LocksInvariant, Ordered,
           [BNext]_bvars
    PROVE  Ordered'
<1>1. ASSUME NEW p \in Workers,
             StartRun(p) \/ RunStep(p) \/ IssueFails(p) \/ RunDies(p) \/ Staff(p)
      PROVE  Ordered'
  <2>1. Frame(p) /\ OthersLocks(p) /\ EventsGrow
    BY <1>1, SessionHolds DEF Keeps, Frame
  <2>2. WaitsAfter(p)
    BY <1>1, OwnWait
  <2>3. \A q \in Workers \ {p} : WaitsAfter(q)
    BY <2>1, OthersWait DEF Frame, Elsewhere, OthersLocks
  <2> QED BY <2>1, <2>2, <2>3, OrderKept
<1>2. ASSUME \/ UNCHANGED bvars
             \/ \E w \in Wallets : FreezeWallet(w) /\ job' = Watched(job)
      PROVE  Ordered'
  <2>1. /\ EventsGrow /\ \A q \in Workers : SameRun(q) /\ LocksApart(q)
        /\ UNCHANGED <<epc, call>>
    BY <1>2, NoSessionStep, FreezeKeeps
  <2> QED BY <2>1, OthersWait, OrderKept
<1> QED BY <1>1, <1>2 DEF BNext

-----------------------------------------------------------------------------
(* The theorems.                                                           *)

LEMMA LocksInit ==
    ASSUME BInit
    PROVE  LocksInvariant
<1>1. \A p \in Workers : pc[p] = "idle" /\ epc[p] = "none" /\ row[p] = Null
                         /\ job[p] = Null /\ req[p] = Null
  BY DEF BInit
<1>2. /\ \A w \in Wallets : accountLock[w] = Null
      /\ \A k \in Keys : txLock[k] = Null /\ eventLock[k] = Null
  BY DEF BInit
<1>3. ASSUME NEW k \in Keys, ledger[k] # Null
      PROVE  ledger[k] \in TxRecord /\ OneSided(ledger[k])
  <2>1. /\ event[k] # Null /\ event[k].status = "posted"
        /\ ledger[k] = [type |-> "earn", debit |-> "rewards_pool",
                        credit |-> event[k].wallet,
                        amount |-> TokenAmount[event[k].rule],
                        status |-> "posted", reverses |-> Null]
    BY <1>3 DEF BInit, EarnedRow
  <2>2. event \in [Keys -> EventType \cup {Null}] /\ TokenAmount[event[k].rule] # 0
    BY <2>1, BonusAssumption DEF BInit
  <2>3. event[k].wallet \in Wallets /\ event[k].rule \in Rules
    BY <2>1, <2>2 DEF EventType
  <2>4. TokenAmount[event[k].rule] \in Nat \ {0}
    BY <2>2, <2>3, EarningAssumption, AmountsAssumption
  <2>5. "rewards_pool" \in Accounts /\ "rewards_pool" \notin Wallets
    BY AccountsAssumption DEF Accounts, SystemAccounts
  <2> QED BY <2>1, <2>3, <2>4, <2>5 DEF TxRecord, Ops, Accounts, OneSided
<1>4. RowsTyped
  <2>1. ledger \in [Keys -> TxRecord \cup {Null}]
    <3>1. ledger = [k \in Keys |-> ledger[k]]
      BY DEF BInit
    <3> QED BY <1>3, <3>1
  <2>2. /\ accountLock \in [Wallets -> Workers \cup {Null}]
        /\ txLock \in [Keys -> Workers \cup {Null}]
        /\ row \in [Workers -> TxRecord \cup {Null}]
    BY DEF BInit
  <2> QED BY <1>1, <1>2, <1>3, <2>1, <2>2 DEF RowsTyped
<1>5. ASSUME NEW p \in Workers
      PROVE  Holding(p)
  <2>1. p # Null /\ ~Requesting(p) /\ ~InIssue(p) /\ epc[p] \notin Posting
    BY <1>1, NoNullWorker DEF Requesting, InIssue, Posting
  <2> QED BY <1>1, <1>2, <2>1 DEF Holding, AccountsHeld, RowsHeld, AtStatement
<1> QED BY <1>4, <1>5 DEF LocksInvariant

LEMMA OrderInit ==
    ASSUME BInit
    PROVE  Ordered
<1> SUFFICES ASSUME NEW d \in ScoredWeeks
             PROVE  \E rank \in [Wallets -> Nat], n \in Nat : InOrder(d, rank, n)
  BY DEF Ordered
<1> DEFINE rank == [w \in Wallets |-> IF Paid(w, d) THEN 0 ELSE 1]
<1>1. rank \in [Wallets -> Nat] /\ 1 \in Nat
  OBVIOUS
<1>2. \A w \in Wallets : Paid(w, d) <=> rank[w] < 1
  OBVIOUS
<1>3. \A p \in Workers, v \in Wallets : ~RunWaits(p, v, d)
  BY DEF BInit, RunWaits
<1>4. InOrder(d, rank, 1)
  <2> HIDE DEF rank
  <2> QED BY <1>2, <1>3 DEF InOrder
<1> QED BY <1>1, <1>4

(* Who holds what: a session that posts for a student holds the account,   *)
(* a reversal its original and a decision its event; whatever else a       *)
(* session has locked belongs to students a run found paid                 *)
(* (earning_service.py, lines 49 and 58; ledger_service.py, lines 215 and  *)
(* 337).                                                                   *)
THEOREM LocksAccountedFor == ASSUME OneUsePerKey PROVE BSpec => []LocksInvariant
<1>1. BInit => LocksInvariant
  BY LocksInit
<1>2. JobInvariant /\ JobInvariant' /\ LocksInvariant /\ [BNext]_bvars
        => LocksInvariant'
  BY LocksStep
<1> QED BY <1>1, <1>2, JobInvariance, PTL DEF BSpec

(* Nobody redeems.  Redemptions lock the rows of items, which are not in   *)
(* this module, and with the reversal of a redemption they do wait in a    *)
(* circle (RedemptionService).                                             *)
NoRedemptions == \A r \in Requests : r.op # "redeem"

(* Still runs, issues, decisions, adjustments and reversals (not of        *)
(* redemptions) never wait for each other in a circle, however many there  *)
(* are: a run keeps the lock of a student it found paid (issue_reward      *)
(* returns with its transaction open, earning_service.py, line 58), but    *)
(* whoever it waits for next is paid later, so that the waits follow the   *)
(* order of payment.                                                       *)
THEOREM RunsNeverDeadlock ==
    ASSUME OneUsePerKey, NoRedemptions
    PROVE  BSpec => []NeverDeadlocked
<1>1. BInit => Ordered
  BY OrderInit
<1>2. JobInvariant /\ JobInvariant' /\ LocksInvariant /\ Ordered /\ [BNext]_bvars
        => Ordered'
  BY OrderStep
<1>3. JobInvariant /\ LocksInvariant /\ Ordered => NeverDeadlocked
  BY NoCycle
<1> QED BY <1>1, <1>2, <1>3, JobInvariance, LocksAccountedFor, PTL DEF BSpec
-----------------------------------------------------------------------------
(* Balances.                                                               *)

(* What a step of p does to the ledger: nothing, a rollback, a statement,  *)
(* or it locks an account or begins an earn ahead of it.                   *)
EarnBegins(p) ==
    /\ pc[p] = "idle"
    /\ \E r \in Requests : r.op = "earn" /\ req' = [req EXCEPT ![p] = r]
    /\ Goto(p, "existingKey") /\ outcome' = [outcome EXCEPT ![p] = "none"]
    /\ UNCHANGED <<store, active, locks, creditSum, row>>

MovesLedger(p) ==
    \/ UNCHANGED vars
    \/ \E answer \in Outcomes : Rollback(p, answer)
    \/ Step(p) \/ Begin(p) \/ LockWallet(p) \/ EarnBegins(p)

LEMMA CallEarnMoves ==
    ASSUME JobInvariant, NEW p \in Workers, CallEarn(p)
    PROVE  MovesLedger(p)
<1>1. CASE EndSession(p, "refused")
  BY <1>1 DEF EndSession, MovesLedger, Outcomes
<1>2. CASE ~EndSession(p, "refused")
  <2> DEFINE r == EarnCall(call[p])
  <2>1. /\ epc[p] = "post" /\ pc[p] = "idle" /\ req' = [req EXCEPT ![p] = r]
        /\ Goto(p, "existingKey") /\ outcome' = [outcome EXCEPT ![p] = "none"]
        /\ UNCHANGED <<store, active, locks, creditSum, row>>
    BY <1>2 DEF CallEarn
  <2>2. r \in Requests /\ r.op = "earn"
    BY <2>1, EarnTyped DEF JobInvariant, Posting
  <2> HIDE DEF r
  <2>3. EarnBegins(p)
    BY <2>1, <2>2 DEF EarnBegins
  <2> QED BY <2>3 DEF MovesLedger
<1> QED BY <1>1, <1>2

LEMMA IssueMoves ==
    ASSUME JobInvariant, NEW p \in Workers,
           \/ FindEvent(p) \/ FindAgain(p) \/ CheckDaily(p) \/ CheckWeekly(p)
           \/ InsertEvent(p) \/ Raced(p) \/ LockEvent(p) \/ LockWallet(p)
           \/ JobFindEvent(p) \/ JobFindAgain(p)
    PROVE  MovesLedger(p)
<1>1. ASSUME NEW a, EndSession(p, a) \/ Rollback(p, "none")
      PROVE  MovesLedger(p)
  BY <1>1 DEF EndSession, MovesLedger, Outcomes
<1>2. CASE FindEvent(p)
  BY <1>1, <1>2 DEF FindEvent, MovesLedger
<1>3. CASE FindAgain(p)
  BY <1>1, <1>3 DEF FindAgain, MovesLedger
<1>4. CASE CheckDaily(p) \/ CheckWeekly(p)
  BY <1>1, <1>4 DEF CheckDaily, CheckWeekly, CheckLimit, MovesLedger
<1>5. CASE InsertEvent(p) \/ Raced(p)
  BY <1>1, <1>5 DEF InsertEvent, Raced, MovesLedger
<1>6. CASE LockEvent(p)
  BY <1>1, <1>6 DEF LockEvent, MovesLedger
<1>7. CASE LockWallet(p)
  BY <1>7 DEF MovesLedger
<1>8. CASE JobFindEvent(p)
  BY <1>8 DEF JobFindEvent, Returns, MovesLedger
<1>9. CASE JobFindAgain(p)
  BY <1>3, <1>9 DEF JobFindAgain, Returns, MovesLedger
<1> QED BY <1>2, <1>3, <1>4, <1>5, <1>6, <1>7, <1>8, <1>9

LEMMA PostMoves ==
    ASSUME NEW p \in Workers,
           Post(p) \/ CommitEvent(p) \/ PlainLedger(p) \/ CommitLedger(p)
    PROVE  MovesLedger(p)
<1>1. "none" \in Outcomes
  BY DEF Outcomes
<1>2. CASE Post(p)
  BY <1>2 DEF Post, Step, MovesLedger
<1>3. CASE CommitEvent(p)
  BY <1>1, <1>3 DEF CommitEvent, Step, MovesLedger
<1>4. CASE PlainLedger(p) \/ CommitLedger(p)
  BY <1>4 DEF PlainLedger, CommitLedger, Step, MovesLedger
<1> QED BY <1>2, <1>3, <1>4

LEMMA BonusMovesLedger ==
    ASSUME JobInvariant, [BNext]_bvars
    PROVE  \/ \E p \in Workers : MovesLedger(p)
           \/ UNCHANGED vars
           \/ \E w \in Wallets : SetWalletStatus(w)
<1>1. ASSUME NEW p \in Workers, CallStep(p)
      PROVE  MovesLedger(p)
  BY <1>1, CallEarnMoves, IssueMoves, PostMoves DEF CallStep
<1>2. ASSUME NEW p \in Workers, StartRun(p) \/ RunStep(p) \/ IssueFails(p) \/ RunDies(p)
      PROVE  MovesLedger(p)
  <2>1. CASE Issuing(p)
    BY <2>1, CallEarnMoves, IssueMoves, PostMoves DEF Issuing
  <2>2. CASE StartRun(p) \/ NextStudent(p) \/ CountDays(p)
    BY <2>2 DEF StartRun, NextStudent, CountDays, MovesLedger
  <2>3. CASE FinishRun(p) \/ IssueFails(p) \/ RunDies(p)
    BY <2>3 DEF FinishRun, IssueFails, RunDies, MovesLedger, Outcomes
  <2> QED BY <1>2, <2>1, <2>2, <2>3 DEF RunStep
<1>3. ASSUME NEW p \in Workers, Staff(p)
      PROVE  MovesLedger(p)
  <2>1. CASE CallStep(p)
    BY <1>1, <2>1
  <2>2. CASE StartCall(p) \/ StartLedgerCall(p) \/ Dies(p)
    BY <2>2 DEF StartCall, StartLedgerCall, Dies, MovesLedger, Outcomes
  <2> QED BY <1>3, <2>1, <2>2 DEF Staff, StaffStep
<1>4. CASE BNext
  BY <1>2, <1>3, <1>4 DEF BNext, FreezeWallet
<1>5. CASE UNCHANGED bvars
  BY <1>5 DEF bvars
<1> QED BY <1>4, <1>5

(* The lock of an account taken ahead of the ledger, and an earn begun.    *)
LEMMA WalletLockBalances ==
    ASSUME JobInvariant, BalanceInvariant, NEW p \in Workers, LockWallet(p)
    PROVE  BalanceInvariant'
<1> DEFINE w == call[p].wallet
<1>1. /\ TypeOK
      /\ accountLock' = [accountLock EXCEPT ![w] = p]
      /\ UNCHANGED <<store, active, txLock, local>>
      /\ epc[p] = "lockWallet" /\ EWaitsFor(p) = {}
  BY DEF LockWallet, BalanceInvariant
<1>2. /\ call[p] # Null /\ call[p] \in CallType
      /\ pc[p] = "idle" /\ row[p] = Null /\ req[p] = Null
  BY <1>1 DEF JobInvariant, EventsInvariant, Ready, Typed, BalanceInvariant,
     TypeOK, RowPending, Posting
<1>3. w \in Wallets
  BY <1>2 DEF CallType
<1>4. \A q \in Workers \ {p} : accountLock[w] # q /\ ~SharesAccount(q, w)
  BY <1>1 DEF EWaitsFor
<1> HIDE DEF w
<1>5. /\ pc' = pc /\ req' = req /\ row' = row /\ creditSum' = creditSum
      /\ txLock' = txLock /\ UNCHANGED store
  BY <1>1 DEF local
<1>6. TypeOK'
  BY <1>1, <1>3 DEF TypeOK, store, local
<1>7. (LockedReadStands(p) /\ OriginalFound(p) /\ RowPending(p))'
  BY <1>2, <1>5 DEF LockedReadStands, OriginalFound, RowPending
<1>8. \A v \in Wallets :
         \/ accountLock'[v] = accountLock[v]
         \/ /\ accountLock'[v] = p
            /\ \A q \in Workers \ {p} :
                  accountLock[v] # q /\ ~SharesAccount(q, v)
  BY <1>1, <1>3, <1>4 DEF TypeOK
<1>9. /\ \A v \in Wallets : ~SharesAccount(p, v)'
      /\ \A k \in Keys : ~HoldsKey(p, k)'
  BY <1>2, <1>5 DEF SharesAccount, HoldsKey
<1> QED BY <1>5, <1>6, <1>7, <1>8, <1>9, StatementStep

LEMMA EarnBalances ==
    ASSUME BalanceInvariant, NEW p \in Workers, EarnBegins(p)
    PROVE  BalanceInvariant'
<1>1. PICK r \in Requests : r.op = "earn" /\ req' = [req EXCEPT ![p] = r]
  BY DEF EarnBegins
<1>2. /\ TypeOK /\ row[p] = Null
      /\ pc[p] = "idle" /\ pc' = [pc EXCEPT ![p] = "existingKey"]
      /\ outcome' = [outcome EXCEPT ![p] = "none"]
      /\ UNCHANGED <<store, active, accountLock, txLock, creditSum, row>>
  BY DEF EarnBegins, Goto, locks, BalanceInvariant, TypeOK, RowPending
<1>3. pc'[p] = "existingKey" /\ req'[p] = r /\ row'[p] = Null
  BY <1>1, <1>2 DEF TypeOK
<1>4. r # Null
  BY RequestsAssumption, NullAssumption
<1>5. \A q \in Workers \ {p} :
        pc'[q] = pc[q] /\ req'[q] = req[q] /\ row'[q] = row[q] /\ creditSum'[q] = creditSum[q]
  BY <1>1, <1>2 DEF TypeOK
<1>6. TypeOK'
  BY <1>1, <1>2, <1>4 DEF TypeOK, store, Statements, Outcomes
<1>7. LockedReadStands(p)'
  BY <1>1, <1>3, AccountsAssumption DEF LockedReadStands, DebitAccount, SystemAccounts
<1>8. OriginalFound(p)' /\ RowPending(p)'
  BY <1>1, <1>3 DEF OriginalFound, RowPending
<1>9. /\ \A v \in Wallets : ~SharesAccount(p, v)'
      /\ \A k \in Keys : ~HoldsKey(p, k)'
  BY <1>3 DEF SharesAccount, HoldsKey
<1> QED BY <1>2, <1>5, <1>6, <1>7, <1>8, <1>9, StatementStep

LEMMA BonusBalancesStep ==
    ASSUME JobInvariant, BalanceInvariant, [BNext]_bvars
    PROVE  BalanceInvariant'
<1>1. ASSUME [Next]_vars PROVE BalanceInvariant'
  BY <1>1, InvariantStep
<1>2. ASSUME NEW p \in Workers, MovesLedger(p) PROVE BalanceInvariant'
  <2>1. CASE UNCHANGED vars
    BY <1>1, <2>1
  <2>2. CASE \E answer \in Outcomes : Rollback(p, answer)
    BY <2>2, RollbackStep
  <2>3. CASE Step(p) \/ Begin(p)
    BY <1>1, <2>3 DEF Next
  <2>4. CASE LockWallet(p)
    BY <2>4, WalletLockBalances
  <2>5. CASE EarnBegins(p)
    BY <2>5, EarnBalances
  <2> QED BY <1>2, <2>1, <2>2, <2>3, <2>4, <2>5 DEF MovesLedger
<1>3. ASSUME NEW w \in Wallets, SetWalletStatus(w) PROVE BalanceInvariant'
  BY <1>1, <1>3 DEF Next
<1> QED BY <1>1, <1>2, <1>3, BonusMovesLedger

(* The balances of a history are the sums of its posted events.            *)
LEMMA BonusBalancesInit ==
    ASSUME BInit
    PROVE  BalanceInvariant
<1> DEFINE side(a) == {k \in Keys : ledger[k] # Null /\ ledger[k].credit = a}
           other(a) == {k \in Keys : ledger[k] # Null /\ ledger[k].debit = a}
<1>1. /\ event \in Histories /\ event \in [Keys -> EventType \cup {Null}]
      /\ ledger = [k \in Keys |-> EarnedRow(k, event[k])]
      /\ IsFiniteSet({k \in Keys : event[k] # Null})
  BY BonusAssumption DEF BInit
<1>2. ASSUME NEW k \in Keys
      PROVE  \/ ledger[k] = Null
             \/ /\ event[k] # Null
                /\ ledger[k] \in TxRecord
                /\ ledger[k].debit = "rewards_pool"
  <2>1. ledger[k] = EarnedRow(k, event[k])
    BY <1>1
  <2>2. CASE event[k] = Null \/ event[k].status # "posted"
    BY <2>1, <2>2 DEF EarnedRow
  <2>3. CASE event[k] # Null /\ event[k].status = "posted"
    <3>1. event[k].wallet \in Wallets /\ event[k].rule \in Rules
      BY <1>1, <2>3 DEF EventType
    <3>2. TokenAmount[event[k].rule] \in Nat \ {0}
      BY <1>1, <2>3, <3>1, BonusAssumption, EarningAssumption, AmountsAssumption
    <3>3. EarnedRow(k, event[k]) \in TxRecord
          /\ EarnedRow(k, event[k]).debit = "rewards_pool"
      BY <2>3, <3>1, <3>2 DEF EarnedRow, TxRecord, Ops, Accounts, SystemAccounts
    <3> QED BY <2>1, <2>3, <3>3
  <2> QED BY <2>2, <2>3
<1>3. ASSUME NEW S, S \subseteq {k \in Keys : ledger[k] # Null}
      PROVE  TotalAmount(ledger, S) \in Nat
  <2>1. S \subseteq {k \in Keys : event[k] # Null}
    BY <1>2, <1>3
  <2>2. IsFiniteSet(S)
    BY <1>1, <2>1, FS_Subset
  <2>3. Priced(ledger, S)
    BY <1>2, <1>3, RowTyped DEF Priced
  <2> QED BY <2>2, <2>3, TotalTyped
<1>4. \A a \in Accounts : TotalAmount(ledger, side(a)) \in Nat
  BY <1>3
<1>5. \A a \in Accounts : TotalAmount(ledger, other(a)) \in Nat
  BY <1>3
<1>6. /\ credited = [a \in Accounts |-> TotalAmount(ledger, side(a))]
      /\ debited = [a \in Accounts |-> TotalAmount(ledger, other(a))]
  BY DEF BInit
<1>7. NonNegative
  <2> SUFFICES ASSUME NEW w \in Wallets PROVE debited[w] <= credited[w]
    BY DEF NonNegative
  <2>1. w \in Accounts /\ w # "rewards_pool"
    BY AccountsAssumption DEF Accounts, SystemAccounts
  <2>2. other(w) = {}
    BY <1>2, <2>1
  <2>3. debited[w] = 0
    BY <1>6, <2>1, <2>2, TotalEmpty
  <2>4. credited[w] \in Nat
    BY <1>4, <1>6, <2>1
  <2> QED BY <2>3, <2>4
<1>8. TypeOK
  <2>1. ledger \in [Keys -> TxRecord \cup {Null}]
    BY <1>1, <1>2
  <2>2. credited \in [Accounts -> Nat] /\ debited \in [Accounts -> Nat]
    BY <1>4, <1>5, <1>6
  <2>3. /\ backing \in [Keys -> {"none", "completed", "reversed"}]
        /\ active \in [Wallets -> BOOLEAN]
        /\ accountLock \in [Wallets -> Workers \cup {Null}]
        /\ txLock \in [Keys -> Workers \cup {Null}]
        /\ pc = [p \in Workers |-> "idle"]
        /\ req = [p \in Workers |-> Null]
        /\ creditSum \in [Workers -> Nat]
        /\ row \in [Workers -> TxRecord \cup {Null}]
        /\ outcome \in [Workers -> Outcomes]
    BY DEF BInit, Outcomes
  <2> QED BY <2>1, <2>2, <2>3 DEF TypeOK, Statements
<1>9. /\ \A p \in Workers : pc[p] = "idle" /\ req[p] = Null /\ row[p] = Null
      /\ \A k \in Keys : txLock[k] = Null
  BY DEF BInit
<1>10. /\ \A p \in Workers : LockedReadStands(p) /\ OriginalFound(p) /\ RowPending(p)
       /\ LocksExclude
  BY <1>9 DEF LockedReadStands, OriginalFound, RowPending, LocksExclude,
     SharesAccount, HoldsKey
<1> QED BY <1>7, <1>8, <1>10 DEF BalanceInvariant

(* No student is overdrawn beside the bonus job either: its runs take the  *)
(* account of a student ahead of the ledger and keep it across calls       *)
(* (earning_service.py, lines 49 and 58), and start from any history.      *)
THEOREM BonusSolvent == BSpec => []NonNegative
<1>1. JobInvariant /\ BalanceInvariant /\ [BNext]_bvars => BalanceInvariant'
  BY BonusBalancesStep
<1>2. BInit => BalanceInvariant
  BY BonusBalancesInit
<1>3. BalanceInvariant => NonNegative
  BY DEF BalanceInvariant
<1> QED BY <1>1, <1>2, <1>3, JobInvariance, PTL DEF BSpec
=============================================================================
