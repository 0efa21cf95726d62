# PTC Campus Rewards: a formal model

The backend keeps a closed-loop wallet of PTC Credits for a college: staff issue
credits under earning rules, vendors redeem them against single-use QR sessions,
administrators adjust, reverse, freeze. Every balance is derived from a
double-entry ledger in PostgreSQL. This directory models the part of the program
that moves credits, at the level of the SQL statements that concurrent requests
interleave, checks it with TLC and proves the safety properties with TLAPS, for any
number of workers, wallets, keys, users and items.
Source paths below are relative to `src/`.

## 1. The system

### How it runs

FastAPI handlers run in a thread pool, each with its own SQLAlchemy session
(`app/core/database.py`: `autocommit=False, autoflush=False`, default isolation
READ COMMITTED). `get_current_user` reads the user first, so a request's database
transaction begins before its handler does anything. Services share nothing but
the database. A Celery worker runs periodic jobs against the same database. The
only synchronisation is therefore PostgreSQL's: row locks (`FOR UPDATE`, the
`FOR KEY SHARE` lock a foreign key takes on the row it refers to, the lock of an
uncommitted `UPDATE`), waits on uncommitted duplicates of a unique key, and the
atomic commit.

### Inventory

| Component | State | Operations | What makes it correct |
|---|---|---|---|
| **Ledger** `services/ledger_service.py`, `repositories/ledger*.py`, `models/ledger*.py` | `ledger_transactions` (unique key, type, status), `ledger_entries`, `ledger_accounts` | earn, redeem, adjustment, reverse_transaction, post_transaction, account_balance | no student wallet below zero; a key posts once; balance = credits − debits of all posted or reversed transactions; a transaction is reversed once, with its money; a retry gets its own result |
| **Redemption** `services/redemption_service.py`, `repositories/{redemption,qr_session,reward_item}.py` | `qr_sessions` (used_at, expires_at), `redemptions`, `reward_items.inventory_count` | create_qr_session, scan_session (read only), redeem, purge job | a QR session pays at most once; stock is neither oversold nor lost; a receipt exists exactly when its debit does and shows the balance it left |
| **Earning** `services/earning_service.py`, `repositories/earning_event.py` | `earning_events` (unique key, status), `earning_rules` limits | issue_reward, approve_event, reject_event | limits hold against concurrent staff; an event posts once; a decision stands |
| **Admin** `services/admin_service.py` | `wallets.status`, `audit_logs` | update_wallet_status, apply_adjustment, apply_reversal | frozen wallets do not move; the audit log tells what happened |
| **Auth** `services/auth_service.py`, `api/deps.py`, `core/security.py` | `oauth_refresh_tokens`, `users.password_changed_at` | login, refresh, change_password, logout, self_register | a refresh token is spent once; a password change ends every older session |
| **User administration** `services/user_admin_service.py`, `student_service.py`, `staff_service.py` | users, profiles, wallets, their ledger accounts | self_register, register_user, create_admin, POST /students, update_user_status | every user has exactly what the role needs, an approved one a profile; nothing exists twice |
| **System accounts** `services/system_accounts_service.py` | singleton ledger accounts | ensure_system_accounts, ensure_vendor_account | one pool, one adjustment account, one account per vendor |
| **Catalogue** `services/catalog_service.py` | rules, items, stock | create, update | the count accounts for every unit; edits keep what they do not name; a sale charges a price that was offered |
| **Weekly bonus** `workers/tasks.py` | none of its own | run_weekly_perfect_attendance_bonus | a bonus only for enough campus days among the posted events of the UTC week; one failing student costs nobody else the bonus |
| **Other jobs** `workers/tasks.py` | `admin_metrics` | daily summary, metrics snapshots | – (aggregates nobody reads back in a decision) |
| **Reports, wallet views** `reports_service.py`, `wallet_service.py` | none | read only | – |
| **Audit** `audit_service.py` | `audit_logs` | record | committed with what it describes |
| **API, infrastructure** `api/`, `main.py`, `core/`, `schemas/` | rate limits | validation, routing | – |

### How they interact, and what is hard

Redemption and Earning call the ledger *inside* their own transaction; a reversal
reaches back and marks the earning event or redemption that carried the original,
and returns stock. What is hard to test:

* **Interleaving.** A balance is read some statements before the entries that rely
  on it are committed; the check holds only because of a row lock that other
  operations must also respect (earn never takes it, it is stopped by the key share
  lock of its own foreign key).
* **Lock order.** redeem: item → QR session → redemption key → account → ledger key. reversal:
  transaction → account → key → item. adjustment: account → key. issue: account →
  event key → ledger key. These orders conflict. The bonus job keeps the lock of a student it
  has passed over while it goes on to the next.
* **Retries.** Every mutating call has an idempotency key; a retry may arrive
  while the first attempt is still in flight, wait on any of its locks and wake
  up in the middle of its own control flow. Celery may run a task twice at once.
* **Stale reads.** The ORM keeps what it loaded: a price, a status, a user's password
  time are used some statements after somebody else has changed them.
* **Clocks.** Tokens are stamped in whole seconds, password changes exactly; an event is
  dated by the start of its transaction and counted by the time of the query.
* **Crashes.** A worker dies between two statements; a QR session expires or is
  purged; a wallet is frozen halfway.

## 2. The modules

```
AtomicLedger           what the ledger promises, one step per posting
     ^ refined by (TLAPS and TLC)
LedgerService          sessions, statements, locks, commits
     ^ EXTENDS, and refined by (TLAPS and TLC)       ^ EXTENDS
RedemptionService      QR sessions, stock,       EarningService   events, limits, approval
                       receipts                      ^ EXTENDS
                                                 WeeklyBonus      the batch beside the staff

TokenChain             chains of single-use tokens
     ^ refined by (TLAPS and TLC)
AuthSessions           login, refresh, password change, logout, access tokens

Accounts               users, profiles, wallets, ledger accounts under unique indexes
Catalogue              items and rules edited while units are sold

LedgerProofs <- ReversalProofs <- RedemptionProofs, EarningProofs;
WeeklyBonusProofs, AuthProofs, AccountsProofs, CatalogueProofs   theorems
MCLedgerService, MCRedemptionService, MCEarningService, MCWeeklyBonus,
MCAuthSessions, MCAccounts, MCCatalogue                          TLC instances
```

In all of them a worker is an API thread or the Celery worker with one database
session. Its control state is the statement it executes next, its uncommitted rows are
its own, and a commit makes them visible in one step. Every early return and every
`raise` is a disjunct that rolls back, and a worker may die between any two statements.

**LedgerService.** `pc` is the SQL statement a worker executes
next, `req` the call it serves. Committed rows are `ledger` (by unique key, with the two
entries inlined), `credited`/`debited` (the two SUMs of `account_balance`, per
account) and `backing` (the status of the earning event or redemption a
transaction carries). A worker's own uncommitted transaction is `row`. Locks are
`accountLock` and `txLock`; the waits on uncommitted keys and on key share locks
are computed from the sessions (`Blockers`). The actions are the statements in the
order of the code: `RequireActive`, `LockAccount`, `SumCredits`, `SumDebits`,
`ReversalKey`, `LockOriginal`, `ExistingKey`, `InsertRow`, `InsertEntries`,
`Commit`. `Crash` and `DeadlockVictim` end a session at any point, `SetWalletStatus`
is the administrator. All vendors share one revenue account, because no operation reads
it. Amounts are whole cents: the schema admits finer ones and `NUMERIC(18,2)`
rounds them, which can only round a covered debit to a covered debit; the zero
that a rule's amount may be rounded to is in the instances.

**AtomicLedger** has no sessions: a posting or a reversal is one step that checks
the balance and books its entries.

**RedemptionService** EXTENDS the ledger. `rpc` is the statement of `redeem`; from
`lockSession` on the worker also has a ledger request, whose statements run
*unchanged* as the `Debit` step. The module adds the locks of item and session
rows, the redemption row (`pending`, then `receipt`), the stock, the two reads of
the balance, the race on the redemption key with its rollback and second look
(`Raced`), the stock returned by a reversal, the purge job and expiry.

**EarningService** EXTENDS the ledger. `issue_reward` takes the account lock
*before* the ledger is entered, so this module is not a refinement of the ledger
specification step by step; it reuses the ledger's statements and adds the double look
at the event key, the two counts, the event row, approval and rejection under the
event's lock, and the day. `created_at` defaults to `now()`, which in PostgreSQL is the
start of the transaction; the counts use the clock at the time of the query.
The model keeps both (`startDay`, `today`). The week is a whole number of days.

**WeeklyBonus** EXTENDS EarningService with `job`, the run a worker executes: the week it
scores, the students still to consider, the wallets as it listed them (`seen`). Its steps
are `StartRun`, `NextStudent` (with the look-up under the unscoped key), `CountDays`, the
statements of `issue_reward` (`Issuing`), `IssueFails` (the `except` that rolls back and
continues) and `FinishRun`; `RunDies` loses the rest of the batch. What sets it apart from
a staff call is the one session for the whole batch: when `issue_reward` returns an event it
found, nothing ends the transaction, so the account lock stays with the run
(`Returns`), and the wallet status is the listed one until a commit or rollback
expires it. The module begins on the day of the runs, with the events of one of
the given `Histories` in the tables.

The job uses two calendars and so does the module. `day` of an event and `today` are days of the
campus, as in `EarningService`. `UTCDate` gives the UTC date of `created_at` of each
event and `UTCToday` what `date.today()` returns (hosts run on UTC). The scored week and the events in it are
chosen by UTC dates (`InWeek`, `tasks.py:119-130` and `152-158`), the days that are counted are
those of the campus (`AttendanceDays`, `tasks.py:161-164`). The two dates of an event differ
by what the time zone allows (`Ahead`: none on UTC, {0, 1} west of it, {-1, 0} east of it);
an event that is created beside a run is of the UTC date of the run. These are constants
because the clock stands still in this module.

**AuthSessions.** `user` and `token` are the committed rows, `session` the
statement, the presented token and the rows a worker has written and locked. An access token
is not stored; it is known by the refresh token it was handed out with. `Consume` is
the conditional UPDATE of `revoke_if_active`, `VerifyPassword` takes the stamp and the
snapshot of `revoke_all_for_user`, `RevokeAll` waits for its rows and skips what was
revoked meanwhile, `CommitChange` writes password and stamp. `clock` runs in ticks of
which `SecondTicks` make the second that `iat` is cut to (`Accepted`). `since` and
`late` are history: the password that began a chain, and whether a pair was handed out
in a transaction that overlapped a change of it. A call that its first SELECT refuses has
no effect and is left out. **TokenChain** is what this implements: a login opens a chain, a
refresh replaces its one good token, anything may close chains, nothing reopens one.

**Accounts.** `rows` counts the committed rows per key of a unique index, so that a
second row would show; `user` has role and status. The calls are `self_register` and
`register_user` (one operation with different roles and statuses), `create_admin`,
`POST /students`, `update_user_status` and `ensure_system_accounts`, each a sequence of
SELECTs and INSERTs; `Insert` waits for another session's uncommitted duplicate and
fails on a committed one. `FirstStep` says what provisioning a role begins with. The status
is written only if it differs from the *loaded* one, as the ORM does.
Registrations from before profiles were required (`Legacy`) are users without a
profile in the initial state: `update_user_status` has code for them.

**Catalogue.** An edit loads the row (`LoadForEdit`) and its UPDATE writes the named
fields that differ from what was loaded (`Changes`). A sale loads the item, reserves by
the conditional UPDATE and pays the loaded price; `Return` is `restore_inventory`.
Creating a rule looks its code up and inserts under the unique index; an item has no
unique field. `base`, `moved` and `offers` are history variables. Of a redemption only
what it does to its item is here; the rest is in RedemptionService, where in turn no item
is edited.

Definitions named in a comment as "Mutant" are not used by the specifications: each
is a plausible mistake in the definition after it, and a run must notice it.

## 3. The runs

| Run | Instance | Question | Distinct states |
|---|---|---|---|
| `ledger_own` | 3 workers, 1 wallet, 7 requests, each key one meaning per type, two administrators reversing one redemption | is the ledger right when callers scope their keys? solvency, single reversals, domain rows that explain the balance, answers that match requests, refinement of `AtomicLedger` | 103 000 |
| `ledger_shared` | 2 workers, 8 requests that share keys across types and originals | what still holds without scoping: the inductive invariant, hence solvency; and every request is answered although two lock orders conflict | 38 000 |
| `redeem` | 2 workers, 2 tokens, an item with two units and one with one, 4 calls (each key with both tokens, each token under both keys), an earn and a reversal | stock, single use, receipts, the ledger's specification; every call is answered although item and account rows are locked in both orders | 142 000 |
| `earn_issue` | 2 staff, 2 students, 3 issues of a rule with weekly limit 1, a reversal, 2 days | limits, single posting, retries | 713 000 |
| `earn_approve` | 2 workers, 3 issues of two rules with daily limit 1, approve, reject, a reversal | decisions, limits with pending events, single posting, every call is answered | 17 000 |
| `auth_sessions` | 1 user, 2 workers, 3 tokens, 2 password changes, 3 ticks of which 2 make a second, lifetimes of one tick | single use, chains, what a password change ends and what it must not end | 892 000 |
| `accounts` | 2 workers, 12 calls over one new email (in every role), two legacy registrations and one student number | nobody half provisioned, nothing twice, approvals leave a profile, every call ends | 195 000 |
| `catalogue` | 2 workers, an item and a rule, 7 request bodies, counts to 3, 2 sales in force | counts add up, edits keep other fields, sales charge an offered price | 210 000 |
| `weekly_bonus` | 2 workers (two runs, or a run beside staff), 2 students, a campus east of UTC, a week of 2 days, two histories, an approval, a reversal, freezes | only bonuses earned by campus days of the UTC week, an isolated batch, no circle of waits | 640 000 |
| `ledger_f2`, `ledger_f3`, `earn_midnight` | smallest instances | the disagreements of section 5 | – |

**Bounds.** Two or three workers: each hazard is a conflict of two sessions over
one row; the third lets two of them race for what a third has just committed. One
wallet: operations on different wallets meet only through keys, and `earn_issue` and
`weekly_bonus` have two wallets for that. Keys are as many as the requests need, so a key is reused only
where a run means it. Amounts 0..2 with a balance of at most 2: enough for one of two debits to be
covered, or neither. The ledger only grows until all keys are used, so the state
spaces of the credit modules are finite without any other bound, except `LastDay` in
`EarningService` (days 0..1 of a week of two; 0..4 in `weekly_bonus`, where the week 2..3 of UTC
is scored on Monday 4. Its histories have two campus days on one UTC date, of which one is
already the campus Monday of the next week, two UTC dates on one campus day, and an event on the
UTC Monday). In `redeem`, i1 needs two units: a reversal returns one
while a call holds the row for the other, which is the deadlock; i2 has one, so that two
calls race for the last. Items without a count appear in `catalogue`.
`AuthSessions` is cut off by `MaxTokens` (3: a token, its successor and a second chain),
`MaxChanges` (2: stamps in one order, commits in the other) and `LastTick` (2: two
ticks of one second and one of the next); the room for a token or a change is reserved when
its call begins, so no call gets stuck on a bound. `Catalogue` has `MaxCount`, one
more than is ever written, and `MaxSales`.

**Deadlock** is checked in every run: idle workers can always begin something, or an
administrator changes a status. That calls which wait get on is the business of the liveness
properties and of `NeverDeadlocked`; in `Catalogue` and `AuthSessions` a call that waits
holds nothing another one waits for (the rows of one UPDATE of `change_password` are taken
together: PostgreSQL scans them in the same order for every session of the user).

**Symmetry** permutes workers (and users) and is used in safety runs only. `redeem`,
the liveness runs of ledger and earning, and `weekly_bonus` use a
**VIEW** that drops the answer a worker was last given: no guard or other variable
reads it.

**Fairness.** `Step(p)` (all statements of a worker; `CallStep(p)` in the other modules)
is strongly fair: a handler is straight line code without loops that runs to its end, and
PostgreSQL queues the waiters of a row or a key so
that a session is not overtaken for ever. `DeadlockVictim(p)` is weakly fair: the
deadlock detector runs after `deadlock_timeout` in every wait, and aborts a
session on a cycle. Starting a request, crashing, and the passage of time are not
fair. `EarningService` and `Accounts` need no deadlock victim: `EveryCallAnswered` and
`EveryCallEnds` there say that their waits never close a circle, in `Accounts` because
all calls insert in one order of tables. For the bonus job no liveness is
claimed, since Celery may lose it; `NeverDeadlocked` says the part that locks can spoil.

## 4. What is proved

Each theorem holds for every value of the constants that satisfies the named
assumptions of its module: amounts are naturals, requests are
well typed, wallets are not system accounts, bounds are naturals, `Null` is none of the
values it stands beside, the ledger accepts the earn of every issue that staff may make
(beside the bonus job, of every event), a history the job may find is finite, and its UTC dates
and campus days differ as in one time zone.
Colliding keys are included, unless a theorem says otherwise. `PROJECT.json` lists all of
them; the invariants behind them are these.

| Module | Inductive invariant | Hence |
|---|---|---|
| `LedgerProofs` | `BalanceInvariant` (`Invariance`) | `TypeCorrect`; `Solvent`: no student wallet below zero |
| `ReversalProofs` | with `ReversalInvariance` | under `ScopedKeys`: `ReversesOnce`, `AnswersMatch`, and `LedgerIsAtomic`: `Spec => ImplementsAtomicLedger` |
| | `BackingInvariant` | under `ScopedKeys` and `ReversalsFinal`: `BackingExplains` |
| `RedemptionProofs` | `ShopInvariant` (`ShopInvariance`), beside the ledger's | `ShopImplementsLedger`, `ShopSolvent`, `ShopTypeCorrect`, `StockAddsUp`, `SessionsPayOnce`, `ReceiptsBacked`, `ReceiptsShowBalance` |
| `EarningProofs` | `EarnInvariant` (`EarnInvariance`), which contains the ledger's | `EarnSolvent`; `DecisionsStand`, `RetriesAnswered`; under `KeysApart` `EventsPostedOnce`; for histories with `NoIssueAcrossBoundary` `LimitsHold` |
| `WeeklyBonusProofs` | `JobInvariant` (`JobInvariance`) | `BonusTypeCorrect`; under `BonusKeysOwn` `BonusesEarned`; with `BatchInvariant`, under `BonusUnhindered` `NobodyPassedOver`; with the ledger's `BalanceInvariant`, `BonusSolvent` |
| | `LocksInvariant` (`LocksAccountedFor`), under `OneUsePerKey` | `RunsNeverDeadlock` |
| `AuthProofs` | `ChainInvariant` | `AuthTypeCorrect`, `RefreshSpendsOnce`, `OneGoodToken`, `SessionsImplementChains`: the refinement of `TokenChain` |
| | `PasswordInvariant` (`PasswordInvariance`) | `OldChainsEnd`, `OldAccessRefused`, `FreshAccess` |
| `AccountsProofs` | `AccInvariant` (`AccInvariance`) | `AccTypeCorrect`, `UsersProvisioned`, `RowsUnique`, `ApprovalsProvision` |
| `CatalogueProofs` | `CatInvariant`, with `OffersOK` | `CatTypeCorrect`, `CountsAddUp`, `EditsLast`, `SoldAtOffer` |

**The ledger.** `NonNegative` is not inductive. What makes it so is `BalanceInvariant`, which spells out
the protocol: *what a session has read under the lock of an account stays true
until it commits* (`LockedReadStands`: past the check, the session holds the lock and
the balance covers its amount; between the two SUMs the first is still right). It
needs that entries of a session that is about to commit never touch an account
somebody else has locked (`LocksExclude`, which is where the key share lock of the
foreign key enters; without that lock `ledger_shared` fails), that a reversal past its lookup has an
original (`OriginalFound`), and that uncommitted rows are under unused keys
(`RowPending`). `UndisturbedStep` shows that a worker's part survives any step of
another that leaves its variables, its locks and its locked sums alone; each
action then has one lemma, and `InvariantStep` puts them together. TLC
checks `BalanceInvariant` in `ledger_shared`.

**Reversals, and the atomic ledger.** `ReversalInvariant` adds the other lock: whoever holds a
transaction is a reversal of it past the status check, and the transaction is in force
(`HeldToReverse`); a reversal that will post holds its original (`OriginalHeld`); the row
a session has inserted is still the one its request describes (`RowAsAsked`); a commit
without a row of its own has found one of its type (`Replays`); and every committed row
was asked for by some request (`Recorded`). All of this holds whatever keys collide.
From there to "reversed once" one needs that the row found under the key of a request is
the one it asked for. That is `ScopedKeys`: among the requests of one type a key has one
meaning, which is what `ledger_service.py:74` expects of the callers. `ledger_own`
satisfies it; `ledger_f3` shows that `ReversedOnce` is false without it (section 5, 2). The refinement then
maps every commit with a row to `Post` or `Reverse` of `AtomicLedger` (the locked balance
is the balance at the commit), and every other statement to a stutter.

`BackingExplains` compares the ledger with the tables that refer to it: a wallet holds
what its events and redemptions in force explain. Each of them says what the status of its
transaction says (`BackingAgrees`), which needs that nobody reverses a reversal
(`ReversalsFinal`; `ledger_f2` shows the property fail without it, section 5, 1). A commit
adds one transaction to those in force or takes the original of a reversal out of them, so
each sum changes by one amount. That needs a theory of sums over finite sets
(`TotalAdds`, `TotalDrops`), and there are only ever finitely many transactions
(`FinitelyPosted`). The library's induction on finite sets takes an operator as a
parameter and cannot be cited; the section on sums does its induction by
choosing a smallest counterexample (`SmallestSet`), which exists because strict inclusion of
finite sets is well-founded.

**Redemption.** A redemption is a sequence of ledger statements or none at each step, so the ledger's
invariants carry over. `ShopInvariant` is the lock discipline of `redeem`, per statement: from the reservation on the
call holds the row of its item and there is a unit (`HoldsUnit`), from the session lock on it
holds an unused QR session (`HoldsSession`), from the insert on nobody has committed its
key and nobody else has inserted it (`KeyFree`, `OneInserter`), and the balance it is
about to print is the one its commit leaves (`BalanceSeen`; this is where the account lock
of the ledger enters). For the tables: a session is used exactly when a receipt names it, and
no two do (`UsedIsPaid`, `PaidOnce`), every receipt is carried by its transaction
(`ReceiptsCarried`), and the units of an item that are out are the receipts in force. No
scoping of keys is needed: a redemption's key and its ledger key are written by one commit.

**Earning.** Of an issue: from its second look at the key on it holds the account of its student
(`HoldsWallet`), and the event it has not found stays absent (`EventFree`: anyone else who would insert it
waits for the same account, or for the uncommitted key if the key was reused for another
student). Of a decision: it holds the event, still pending. The request a session makes of the
ledger is that of its call at every statement (`CallSound`), and every event was asked for
(`EventsSound`). That a posted event has exactly one earn needs more: the earn of an event
is never found under its key but posted anew (`EarnsNew`). An approval posts under
`earning-approval-{event id}`, an issue under `issue:{staff}:{key}`; `KeysApart` says
that the first kind names one event and is never one of the second, which the two prefixes and
the uuid ensure. Both instances satisfy it. For the limits, `InForce` says that an issue past a check still
has room under that limit, because only an issue to the same student takes any, and that one
waits for the account. `NoIssueAcrossBoundary` excludes the histories in which a
day (or a week, for a weekly limit) ends under an open issue that it is counted for;
`earn_midnight` shows that the limit does fail there. Days may pass at any other time, also
under open decisions, reversals and issues of rules without limits.

**The token chains.** `SpentOnce` says nothing about a refresh that has consumed its token and not
committed yet, and nothing about the rest of the chain. `ChainInvariant` adds both:
`Sound` (what a session presents is a stored token; from `mint` on a refresh holds exactly
the token it presented; what a session holds is still good) and `OneLive` (of the tokens of one family at most one is good). The row lock
makes it inductive: `AuthTypeOK` says that no row has two uncommitted writers, so the
good token of a family cannot be spent or revoked by another session between `Consume` and
`CommitToken`. The refinement follows by showing which step each action is: `CommitToken` of
a login is `Open`, of a refresh `Rotate`, `CommitChange` and `RevokeOne` are `Close`, the
others leave the chains alone.

**Passwords.** `PasswordInvariant` relates times that are taken at different moments. `TokenTimely`: a good token
is of the password in force or marked `late`; one of an older password was issued no later
than the last change, one of the password in force no earlier. `ChangeTimely`: a change under way
either will revoke a good token of its user or the token is late; the stamp and the
snapshot of good tokens belong to one step (`VerifyPassword`), and a pair handed out between that step and
the commit is marked late. `MintTimely`: what a session is about to hand out
is of the password in force or marked late. What remains for access tokens is rounding:
`Second` is monotone (`SecondsAdvance`), so a token of an older password is refused
but in the very second of the change, and one of the new password never.

**Accounts.** `AccInvariant` says, statement by statement, which rows the open transaction has
inserted (`Inserted`): all for one user, and at the commit exactly what its role needs. With
the unique indexes (`SessionOK`: what is inserted is neither committed nor inserted by
another) each commit makes a whole user (`UserWhole`). That each student has a number of
its own is a count over the tables (`NumbersMatch`): both sets grow together.

**The catalogue.** `CatInvariant` is `SessionsOK` (a session's body fits the row it edits; a
session that has counted a unit down holds the row alone and there is a unit; one inserter
per rule), `RowsOK` and `StockAccounted` itself. A sale takes its unit from the row as
it is at the commit, which the lock keeps as it was at the UPDATE, and an edit of the
count waits for that lock. `SoldAtOffer` adds that a session which has found its item active
and goes on to pay knows an offer of that price (`OffersOK`).

**The weekly bonus.** `JobInvariant` says that the call a run has under way is the bonus of the student and
the week it has counted (`BonusCall`), and that the student has earned it (`Earned`: enough campus
days among the posted events of the week of UTC). The count was made
some statements earlier, so this needs that nothing takes a counted day away: every
step of the staff and of other runs leaves an event where it is, with its wallet, rule and
day, and a posted one at least reversed (`EventsGrow`, `EarnedLasts`). The histories a run
may find are not initial states of `EarningService`, so the module states the
part of the earning invariant it uses anew (`EventsInvariant`). `BonusKeysOwn` says that nobody
else issues under the stored key of a bonus and that no two bonuses share one: the key is
`issue:{user of the student}:perfect-attendance-{student}-{year}-W{week}` (`tasks.py:143`,
`earning_service.py:40`), and a student does not issue rewards.
`BatchInvariant` is for the batch. A student owed the bonus deserves it now, was listed
active, and is still to come, or being served, or paid (`OwedOK`); and the key of a bonus is free in the ledger
as long as it is free among the events (`KeysFree`). So the issue of one who is owed it ends
with the event: there is no limit, the wallet it loaded was active, an event found under the
key or lost the race to is the bonus, and `post_transaction` finds nothing under the key.
`BonusUnhindered` says that the rule has no limits and an amount, and that
no adjustment, redemption or approval posts under the key of a bonus.

`LocksInvariant` says who holds which lock: a session that posts holds the account of
its student, a reversal its original, a decision its event; and *whatever else a session has locked
belongs to students a run found paid*. The latter is how runs come to hold several accounts:
`issue_reward` returns an event it finds under its second look with the lock still
taken (`earning_service.py:58`), and the run goes on to the next student. `RunsNeverDeadlock` concludes that
bonus runs, issues, decisions, adjustments and reversals never wait in a circle. Redemptions are excluded
by `NoRedemptions`: the rows of items are not in this module, and a redemption (item, then
account) does deadlock with the reversal of another (account, then item), as `redeem`
shows, where the detector has to break the circle. Only runs hold one account and wait for another. A student a run waits for is
paid after all whose accounts it holds, or is not paid yet (`InOrder`): in a circle, each run would wait for a
student who was paid before the one the next run waits for, all the way round. Every other wait ends,
directly or after one more, at such a run or at a session that waits for nobody. `OneUsePerKey` excludes that one key is used
for two wallets, two originals or two kinds of call, where an uncommitted key would add waits
that follow no order: the prefixes `redeem:`, `issue:` and `earning-approval-` keep the kinds
apart, and staff and administrators choose a new key for each use.

`BonusSolvent` is the ledger's solvency beside the job. `BalanceInvariant` survives the two things the job
and `issue_reward` add: an account locked before the ledger's own statements begin, and
one that stays locked across calls. Initially it holds because the balances of a
history are the sums of its posted events.

**Only model-checked:** liveness (`EveryRequestAnswered`, `EveryCallAnswered`, `EveryCallEnds`), which is out of the
prover's reach. Every other property of the passing runs is stated by a theorem. The hypotheses
that theorems name (`ScopedKeys`, `OneUsePerKey` and the like) are about the
constants: they are what the callers owe the ledger.

## 5. Where the code and its comments disagree

Three of these are runs that expect a violation; the trace is the demonstration.

1. **`ledger_f2`** A reversal can itself be reversed: the student is debited again, but the
   redemption stays reversed and the stock stays returned, so the domain rows no longer
   "reflect" the ledger (`ledger_service.py:283`).
2. **`ledger_f3`** Two reversals of different transactions race under one key: both
   pass the first lookup, the second one finds the other's reversal in
   `post_transaction` and marks *its* original reversed with no entries behind it.
3. **`earn_midnight`** A request that begins before midnight and gets the lock after it counts
   the new day's events and inserts one dated the day before: a daily limit of
   one lets two events of one day through.

Others are visible in the modules and have no run of their own:

* Administrators' keys are not scoped (`admin_service.py:62`), though
  `ledger_service.py:74` says callers scope keys: an adjustment of another amount under
  a used key is answered with the old transaction. The instance of `ledger_own` scopes them.
* A reversal retried while its first attempt is in flight waits on the row lock and then
  gets "Transaction already reversed" (`ledger_service.py:239`), although
  `tests/test_ledger.py:190` expects a retry to get the original result: the
  key is looked up before the lock and not again after it. The same holds for a redemption,
  refused for its used QR session (`redemption_service.py:114`, against the comment at
  line 94).
* `ensure_system_accounts` means to survive a lost race (`system_accounts_service.py:43`),
  but `accounts.create` flushes outside the `try` (line 50), so the IntegrityError escapes
  (`EnsurePool`, `EnsureAdjustment`: the call fails, nothing exists twice).
* The bonus job looks its key up unscoped (`tasks.py:144`) while `issue_reward` stores it
  scoped by issuer, so the look-up finds nothing and repeats go through
  `issue_reward` (`NextStudent`).
* The bonus job scores "the PREVIOUS, fully-completed week" (`tasks.py:115`) of UTC and counts
  days "in the CAMPUS timezone" (`tasks.py:148`), which differ at the ends of the week
  (`.env.production.example:27` sets America/New_York). There an evening of Sunday counts for the next
  week; east of UTC a morning of Monday counts for the week before and is missing from its own, so that a
  student with enough days in the campus week may get no bonus. `BonusEarned` therefore speaks
  of campus days in a week of UTC, which is what the code ensures.
* A refresh that overlaps `change_password` may hand out a pair that outlives it
  (`late` in `AuthSessions`): the snapshot of `revoke_all_for_user` does not contain the new
  token. `LiveIsCurrent` and `OldAccessEnds` hold for all others.

## 6. Not modelled

Reports, wallet views and list endpoints (read only); the daily summary and metrics jobs
(aggregates that nobody reads back in a decision); HTTP, validation,
rate limits, hashing and JWT encoding (no state that the properties need); audit
rows (insert-only, committed with what they record; the separate commit of a login's
audit row has no effect on any other row); connection pools; migrations, seeding and
deployment, whose unique indexes are part of the modules. In the modelled parts:
`vendor.status` and user status are read once at the start of a
credit call and only refuse it; accounts are found (`Accounts` provisions them);
frozen and closed wallets are one value; the clock stands still beside the bonus job;
`StaffService.create_staff` is called from nowhere; PostgreSQL, not the SQLite of the tests,
is the database.

Hazards that no property covers: a retried adjustment is checked against the balance
before its key is looked up (`ledger_service.py:317`) and `balance_before` is read without
a lock (`redemption_service.py:125`), both modelled, neither promised otherwise; a wallet
frozen between check and commit (`redemption_service.py:120`), modelled, and the code
promises only the check. Two more happen in the code (section 5): `AnswerMatchesRequest` holds where
the callers scope their keys, which administrators' calls do not (`admin_service.py:62`), and
`LiveIsCurrent` for tokens not handed out across a password change (`auth_service.py:107`). A
key that overflows its column once prefixed (`schemas/ledger.py:34`) is refused by the
database before anything is written.

## 7. Plan

1. *Done:* `LedgerService`, `AtomicLedger`, `RedemptionService`, `EarningService`; solvency proved.
2. *Done:* `AuthSessions` with `TokenChain`, proved to refine it; `Accounts`; `Catalogue`, its counts
   proved; `WeeklyBonus`.
3. *Done, proofs:* every safety property of redemption, reversals, accounts, passwords, catalogue edits
   and the refinement of `AtomicLedger`; single posting, decisions and limits of earning;
   that bonuses are earned and nobody is passed over; that balances are explained by events
   and redemptions; that bonus runs never deadlock with the staff.
4. **Models next**: items edited in `RedemptionService` itself; bonus runs beside redemptions, with their item rows.

## 8. Running it

```
tlc -workers 2 -config MCLedgerService_own.cfg MCLedgerService
tlapm LedgerProofs.tla
```

The configuration of a run is `MC<module>.cfg`, or `MC<module>_y.cfg` for a run `x_y` of a
module with several; `PROJECT.json` lists them all,
with the source lines of every definition.
