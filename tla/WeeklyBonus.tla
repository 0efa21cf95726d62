---------------------------- MODULE WeeklyBonus ----------------------------
(***************************************************************************)
(* The weekly perfect-attendance job (app/workers/tasks.py) beside the     *)
(* calls of EarningService.  On Mondays it scores the week that has ended: *)
(* for every student it counts the days with a posted attendance event and *)
(* issues the bonus through EarningService.issue_reward, in one database   *)
(* session for the whole batch.  Celery may deliver the task more than     *)
(* once and may lose a run, so runs overlap and stop anywhere.             *)
(*                                                                         *)
(* There are two calendars.  The week is one of UTC, and an event is in it *)
(* by the UTC date of its created_at; the days that count are those of the *)
(* campus.  A date of either is a number, and 0 is a Monday in both.  The  *)
(* clock stands still while the runs of one day last.                      *)
(***************************************************************************)
EXTENDS EarningService

CONSTANTS
    AttendanceRule, \* the rule with attendance_rule_code
    BonusRule,      \* the rule with perfect_attendance_rule_code
    RequiredDays,   \* required_attendance_days_per_week
    BonusKey,       \* the stored key of the bonus of a wallet for a week
    PlainKey,       \* the same key as the job looks it up, without the issuer
    Histories,      \* earning events by key as the job may find them
    UTCToday,       \* date.today() of the job
    UTCDate,        \* the UTC date of created_at of the event under a key
    Ahead           \* how many days the UTC date may be ahead of the campus

(* owed is not in the program: the students who have deserved the bonus    *)
(* ever since the run began.  Weeks are named by their first day.          *)
Run == [week: Days,                 \* the scored week
        todo: SUBSET Wallets,       \* students not yet considered
        student: Wallets \cup {Null},
        seen: [Wallets -> BOOLEAN] \cup {Null}, \* wallet status as listed
        owed: SUBSET Wallets]

(* A history has finitely many events.  One that is posted carries its own *)
(* transaction, which is not of zero tokens (post_transaction refuses      *)
(* those).  The ledger takes the earn of any event.  The campus is on UTC, *)
(* or west or east of it; an event that is not in the history is created   *)
(* on the day of the run.                                                  *)
ASSUME BonusAssumption ==
    /\ {AttendanceRule, BonusRule} \subseteq Rules
    /\ RequiredDays \in 1..WeekLength
    /\ UTCToday \in Days
    /\ UTCDate \in [Keys -> Days]
    /\ Ahead \in {{0}, {0, 1}, {-1, 0}}
    /\ BonusKey \in [Wallets -> [Days -> Keys]]
    /\ PlainKey \in [Wallets -> [Days -> Keys]]
    /\ Histories \subseteq [Keys -> EventType \cup {Null}]
    /\ \A h \in Histories : IsFiniteSet({k \in Keys : h[k] # Null})
    /\ \A h \in Histories, k \in Keys : h[k] # Null =>
          /\ <<h[k].tx, h[k].status>> \in {<<Null, "pending">>, <<k, "posted">>}
          /\ h[k].status = "posted" => TokenAmount[h[k].rule] # 0
          /\ UTCDate[k] <= UTCToday /\ UTCDate[k] - h[k].day \in Ahead
    /\ \A h \in Histories, k \in Keys : h[k] = Null => UTCDate[k] = UTCToday
    /\ \A k \in Keys, w \in Wallets, r \in Rules : EarnOf(k, w, r) \in Requests
    /\ Null \notin Run

VARIABLE job  \* the run a worker is executing

bvars == <<vars, evars, job>>

(* Types; a run issues at most one bonus, and its worker serves no one.    *)
BTypeOK ==
    /\ ETypeOK
    /\ job \in [Workers -> Run \cup {Null}]
    /\ \A p \in Workers : job[p] # Null =>
        /\ call[p] # Null =>
             /\ job[p].student # Null
             /\ call[p].wallet = job[p].student
             /\ call[p].key = BonusKey[job[p].student][job[p].week]
        /\ pc[p] # "idle" => call[p] # Null

EarnedRow(k, e) ==
    IF e = Null \/ e.status # "posted" THEN Null
    ELSE [type |-> "earn", debit |-> "rewards_pool", credit |-> e.wallet,
          amount |-> TokenAmount[e.rule], status |-> "posted",
          reverses |-> Null]

(* One day, after a week has ended (a Monday, unless the run is repeated   *)
(* later): events of that week and since are recorded, the posted ones in  *)
(* the ledger.                                                             *)
BInit ==
    /\ event \in Histories
    /\ today \in {d \in Days : UTCToday - d \in Ahead}
    /\ \A k \in Keys : event[k] # Null => event[k].day <= today
    /\ ledger = [k \in Keys |-> EarnedRow(k, event[k])]
    /\ backing = [k \in Keys |-> IF ledger[k] = Null THEN "none"
                                                     ELSE "completed"]
    /\ credited = [a \in Accounts |-> TotalAmount(ledger,
                     {k \in Keys : ledger[k] # Null /\ ledger[k].credit = a})]
    /\ debited = [a \in Accounts |-> TotalAmount(ledger,
                     {k \in Keys : ledger[k] # Null /\ ledger[k].debit = a})]
    /\ active = [w \in Wallets |-> TRUE]
    /\ accountLock = [w \in Wallets |-> Null]
    /\ txLock = [k \in Keys |-> Null]
    /\ pc = [p \in Workers |-> "idle"]
    /\ req = [p \in Workers |-> Null]
    /\ creditSum = [p \in Workers |-> 0]
    /\ row = [p \in Workers |-> Null]
    /\ outcome = [p \in Workers |-> "none"]
    /\ eventLock = [k \in Keys |-> Null]
    /\ epc = [p \in Workers |-> "none"]
    /\ call = [p \in Workers |-> Null]
    /\ startDay = [p \in Workers |-> 0]
    /\ sawActive = [p \in Workers |-> TRUE]
    /\ reply = [p \in Workers |-> "none"]
    /\ job = [p \in Workers |-> Null]

-----------------------------------------------------------------------------
(* Scoring.                                                                *)

(* created_at of the event under k is in the week of UTC. *)
InWeek(k, week) == UTCDate[k] >= week /\ UTCDate[k] < week + WeekLength

(* Mutant: the days are those of UTC (func.date). *)
AttendanceDaysUTC(w, week) ==
    { UTCDate[k] : k \in
        {j \in Keys : /\ event[j] # Null
                      /\ event[j].wallet = w /\ event[j].rule = AttendanceRule
                      /\ event[j].status = "posted"
                      /\ InWeek(j, week)} }

(* The distinct campus days of the posted attendance events of the week.   *)
(* They may be days of another campus week.                                *)
AttendanceDays(w, week) ==
    { event[k].day : k \in
        {j \in Keys : /\ event[j] # Null
                      /\ event[j].wallet = w /\ event[j].rule = AttendanceRule
                      /\ event[j].status = "posted"
                      /\ InWeek(j, week)} }

Deserving ==
    [week \in Days |->
        {w \in Wallets :
            /\ active[w]
            /\ ledger[PlainKey[w][week]] = Null
            /\ Cardinality(AttendanceDays(w, week)) >= RequiredDays}]

(* Everybody who no longer deserves the bonus is dropped from owed. *)
Watched(j) ==
    [p \in Workers |->
        IF j[p] = Null THEN Null
        ELSE [j[p] EXCEPT !.owed = @ \cap Deserving'[j[p].week]]]

-----------------------------------------------------------------------------
(* A run.                                                                  *)

(* The students are listed with their wallets, in no particular order. *)
StartRun(p) ==
    /\ job[p] = Null /\ epc[p] = "none" /\ pc[p] = "idle"
    /\ LET week == WeekStart(UTCToday) - WeekLength IN
        /\ week >= 0
        /\ job' = [job EXCEPT ![p] =
                     [week |-> week, todo |-> Wallets, student |-> Null,
                      seen |-> active,
                      owed |-> Deserving[week]]]
    /\ UNCHANGED <<vars, evars>>

Considering(p) == job[p] # Null /\ epc[p] = "none"

(* The next student, unless the bonus is found under the plain key. *)
NextStudent(p) ==
    /\ Considering(p) /\ job[p].student = Null
    /\ \E w \in job[p].todo :
        job' = [job EXCEPT ![p].todo = @ \ {w},
                           ![p].student =
                               IF ledger[PlainKey[w][job[p].week]] # Null
                               THEN Null ELSE w]
    /\ UNCHANGED <<vars, evars>>

BonusCall(w, week) ==
    [kind |-> "issue", key |-> BonusKey[w][week], wallet |-> w,
     rule |-> BonusRule]

(* The days are counted, and issue_reward is called if they suffice. *)
CountDays(p) ==
    LET w == job[p].student week == job[p].week IN
    /\ Considering(p) /\ w # Null
    /\ \/ /\ Cardinality(AttendanceDays(w, week)) < RequiredDays
          /\ job' = [job EXCEPT ![p].student = Null]
          /\ UNCHANGED evars
       \/ /\ Cardinality(AttendanceDays(w, week)) >= RequiredDays
          /\ call' = [call EXCEPT ![p] = BonusCall(w, week)]
          /\ startDay' = [startDay EXCEPT ![p] = today]
          /\ Continue(p, "findEvent")
          /\ UNCHANGED <<event, eventLock, today, sawActive, reply, job>>
    /\ UNCHANGED vars

(* issue_reward answers with the event it found: nothing ends the          *)
(* transaction of the session, which keeps its account lock.               *)
Returns(p) == Answer(p, "event") /\ UNCHANGED <<vars, event, today>>

(* The wallet is the one listed, until a commit or a rollback has expired  *)
(* it.                                                                     *)
JobFindEvent(p) ==
    /\ epc[p] = "findEvent"
    /\ \/ event[call[p].key] # Null /\ Returns(p)
       \/ /\ event[call[p].key] = Null
          /\ sawActive' = [sawActive EXCEPT ![p] =
                             IF job[p].seen = Null THEN active[call[p].wallet]
                             ELSE job[p].seen[call[p].wallet]]
          /\ Continue(p, "lockWallet")
          /\ UNCHANGED <<vars, event, eventLock, today, call, startDay, reply>>

JobFindAgain(p) ==
    /\ epc[p] = "findAgain"
    /\ \/ event[call[p].key] # Null /\ Returns(p)
       \/ event[call[p].key] = Null /\ FindAgain(p)

(* The run after a statement of issue_reward: unless it returned an event  *)
(* it found, a commit or the job's rollback has ended the transaction.     *)
AfterIssue(p) ==
    IF call'[p] # Null THEN job[p]
    ELSE IF epc[p] \in {"findEvent", "findAgain"}
         THEN [job[p] EXCEPT !.student = Null]
         ELSE [job[p] EXCEPT !.student = Null, !.seen = Null]

Issuing(p) ==
    /\ job[p] # Null /\ call[p] # Null
    /\ \/ JobFindEvent(p) \/ LockWallet(p) \/ JobFindAgain(p) \/ CheckDaily(p)
       \/ CheckWeekly(p) \/ InsertEvent(p) \/ Raced(p) \/ CallEarn(p)
       \/ Post(p) \/ CommitEvent(p)
    /\ job' = Watched([job EXCEPT ![p] = AfterIssue(p)])

(* Mutant: the exception leaves the loop. *)
IssueFailsAborts(p) ==
    /\ job[p] # Null /\ call[p] # Null
    /\ Rollback(p, "lost") /\ Answer(p, "lost")
    /\ job' = [job EXCEPT ![p].student = Null, ![p].seen = Null,
                          ![p].todo = {},
                          ![p].owed = @ \ {job[p].student}]
    /\ UNCHANGED <<event, today>>

(* The database refuses a statement (a deadlock, a lost connection): the   *)
(* job rolls back and goes on with the next student.                       *)
IssueFails(p) ==
    /\ job[p] # Null /\ call[p] # Null
    /\ Rollback(p, "lost") /\ Answer(p, "lost")
    /\ job' = [job EXCEPT ![p].student = Null, ![p].seen = Null,
                          ![p].owed = @ \ {job[p].student}]
    /\ UNCHANGED <<event, today>>

(* Mutant: the session is not closed. *)
FinishRunOpen(p) ==
    /\ Considering(p) /\ job[p].student = Null /\ job[p].todo = {}
    /\ job' = [job EXCEPT ![p] = Null]
    /\ UNCHANGED <<vars, evars>>

FinishRun(p) ==
    /\ Considering(p) /\ job[p].student = Null /\ job[p].todo = {}
    /\ Rollback(p, "none") /\ Answer(p, "none")
    /\ job' = [job EXCEPT ![p] = Null]
    /\ UNCHANGED <<event, today>>

(* The Celery worker dies; nothing runs the rest of the batch. *)
RunDies(p) ==
    /\ job[p] # Null
    /\ Rollback(p, "lost") /\ Answer(p, "lost")
    /\ job' = [job EXCEPT ![p] = Null]
    /\ UNCHANGED <<event, today>>

RunStep(p) == NextStudent(p) \/ CountDays(p) \/ Issuing(p) \/ FinishRun(p)

-----------------------------------------------------------------------------
(* The staff beside it.                                                    *)

StaffStep(p) ==
    /\ job[p] = Null
    /\ CallStep(p)
    /\ job' = Watched(job)

Staff(p) ==
    \/ StaffStep(p)
    \/ /\ job[p] = Null
       /\ StartCall(p) \/ StartLedgerCall(p) \/ Dies(p)
       /\ job' = Watched(job)

BNext ==
    \/ \E p \in Workers : StartRun(p) \/ RunStep(p) \/ IssueFails(p)
                          \/ RunDies(p) \/ Staff(p)
    \/ \E w \in Wallets : FreezeWallet(w) /\ job' = Watched(job)

BSpec == BInit /\ [][BNext]_bvars

-----------------------------------------------------------------------------
(* Properties.                                                             *)

(* A bonus for a week of UTC is paid only to a student whose attendance    *)
(* events of that week fall on enough distinct days of the campus and were *)
(* really posted (a reversal may come later): two events of one campus day *)
(* on two UTC dates count once, pending ones and those of the next week of *)
(* UTC not at all.                                                         *)
BonusEarned ==
    \A w \in Wallets, week \in Days :
        event[BonusKey[w][week]] # Null =>
            Cardinality({event[k].day : k \in
                {j \in Keys : /\ event[j] # Null
                              /\ event[j].wallet = w
                              /\ event[j].rule = AttendanceRule
                              /\ event[j].status \in {"posted", "reversed"}
                              /\ InWeek(j, week)}}) >= RequiredDays

(* A run that gets to its end has paid everybody who deserved the bonus    *)
(* all along, whoever else failed or was paid by another run meanwhile.    *)
(* (A bonus rule without limits.)                                          *)
BatchIsolated ==
    [][\A p \in Workers :
            Considering(p) /\ job[p].student = Null /\ job[p].todo = {} =>
                \A w \in job[p].owed :
                    event[BonusKey[w][job[p].week]] # Null]_bvars

(* A run keeps the lock of a student it found paid by another run while it *)
(* goes on to the next: still runs, reversals and approvals never wait for *)
(* each other in a circle.  (Without redemptions, which lock items too.)   *)
NeverDeadlocked ==
    LET waits == [p \in Workers |-> EWaitsFor(p)]
    IN \A p \in Workers : ~OnCycle(p, waits)
=============================================================================
