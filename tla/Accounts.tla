------------------------------ MODULE Accounts ------------------------------
(***************************************************************************)
(* Who exists: users, their student, vendor or staff profiles, wallets and *)
(* ledger accounts (app/services/user_admin_service.py, auth_service.py,   *)
(* student_service.py, wallet_service.py, system_accounts_service.py).     *)
(* Every call is one transaction of SELECTs that look before it leaps and  *)
(* of INSERTs under unique indexes, which have the last word.              *)
(***************************************************************************)
EXTENDS Integers, FiniteSets

CONSTANTS
    Workers,
    Emails,      \* a user is known by its email, which is unique
    Numbers,     \* student numbers
    Calls,       \* the calls that may be made
    Legacy,      \* registrations from before profiles were required
    LegacyRole,  \* their roles
    Null

Roles == {"student", "vendor", "staff", "admin"}
Statuses == {"active", "pending", "suspended"}

Pool == <<"system", "rewards_pool">>
Adjustment == <<"system", "system_adjustment">>

(* A row that a unique index knows, by the table and what is unique in it. *)
Rows == ({"user", "student", "vendor", "staff", "wallet", "account"} \X Emails)
          \cup ({"number"} \X Numbers) \cup {Pool, Adjustment}

(* student is POST /students; full says whether the fields of the role     *)
(* came with the call, status is what it registers or sets.                *)
CallType == [op: {"register", "student", "status", "ensure"}, user: Emails,
             role: Roles, number: Numbers, full: BOOLEAN, status: Statuses]

UserType == [role: Roles, status: Statuses]

ASSUME AccountsAssumption ==
    /\ Calls \subseteq CallType
    /\ \A c \in Calls : c.op = "student" => c.role = "student" /\ c.full
    /\ Legacy \subseteq Emails
    /\ LegacyRole \in [Legacy -> Roles \ {"admin"}]
    /\ Null \notin CallType \cup UserType \cup Statuses

VARIABLES
    rows,     \* how many committed rows there are
    user,     \* role and status of the committed users
    session   \* what a worker's database session is doing

accVars == <<rows, user, session>>

Statements == {"idle", "findUser", "insertUser", "findNumber", "findProfile",
               "insertProfile", "insertWallet", "findAccount", "insertAccount",
               "loadUser", "findPool", "insertPool", "findAdjustment",
               "insertAdjustment", "commit", "failed"}

(* loaded is the users row an update read, added the rows inserted and not *)
(* committed.                                                              *)
SessionType == [at: Statements, call: CallType \cup {Null},
                loaded: UserType \cup {Null}, added: SUBSET Rows]

Idle == [at |-> "idle", call |-> Null, loaded |-> Null, added |-> {}]

AccInit ==
    /\ rows = [k \in Rows |-> IF k \in {"user"} \X Legacy THEN 1 ELSE 0]
    /\ user = [u \in Emails |->
                 IF u \in Legacy THEN [role |-> LegacyRole[u],
                                       status |-> "pending"]
                 ELSE Null]
    /\ session = [p \in Workers |-> Idle]

Call(p) == session[p].call
At(p, s) == session[p].at = s

Goto(p, s) ==
    /\ session' = [session EXCEPT ![p].at = s]
    /\ UNCHANGED <<rows, user>>

(* Mutant: the transaction is left open. *)
EndCallOpen(p) ==
    /\ session' = [session EXCEPT ![p] = [Idle EXCEPT !.added = session[p].added]]
    /\ UNCHANGED <<rows, user>>

(* The transaction is rolled back and the caller gets an error. *)
EndCall(p) ==
    /\ session' = [session EXCEPT ![p] = Idle]
    /\ UNCHANGED <<rows, user>>

(* An exception nobody expects: its transaction is over. *)
Fail(p) ==
    /\ session' = [session EXCEPT ![p].at = "failed", ![p].added = {}]
    /\ UNCHANGED <<rows, user>>

AnswerError(p) ==
    /\ At(p, "failed")
    /\ EndCall(p)

Exists(k) == rows[k] > 0

(* A row that another session has inserted and not committed. *)
Awaited(p, k) == \E q \in Workers \ {p} : k \in session[q].added

(* Mutant: no unique index. *)
InsertUnchecked(p, K, next) ==
    /\ session' = [session EXCEPT ![p].added = @ \cup K, ![p].at = next]
    /\ UNCHANGED <<rows, user>>

(* Mutant: the insert does not wait for the transaction of a duplicate. *)
InsertAtOnce(p, K, next) ==
    \/ /\ \E k \in K : Exists(k)
       /\ Fail(p)
    \/ /\ \A k \in K : ~Exists(k)
       /\ session' = [session EXCEPT ![p].added = @ \cup K, ![p].at = next]
       /\ UNCHANGED <<rows, user>>

(* An INSERT waits for whoever has inserted the same key; a key that is    *)
(* taken raises IntegrityError, which none of these calls survives.        *)
Insert(p, K, next) ==
    /\ \A k \in K : ~Awaited(p, k)
    /\ \/ /\ \E k \in K : Exists(k)
          /\ Fail(p)
       \/ /\ \A k \in K : ~Exists(k)
          /\ session' = [session EXCEPT ![p].added = @ \cup K, ![p].at = next]
          /\ UNCHANGED <<rows, user>>

-----------------------------------------------------------------------------
(* Registration: by oneself, by an administrator, create_admin.            *)

Begin(p) ==
    /\ At(p, "idle")
    /\ \E c \in Calls :
        session' = [session EXCEPT ![p].call = c, ![p].at =
            CASE c.op = "status" -> "loadUser"
              [] c.op = "ensure" -> "findPool"
              [] OTHER -> "findUser"]
    /\ UNCHANGED <<rows, user>>

(* get_by_email.  POST /students looks for the number first. *)
FindUser(p) ==
    /\ At(p, "findUser")
    /\ \/ Exists(<<"user", Call(p).user>>) /\ EndCall(p)
       \/ /\ ~Exists(<<"user", Call(p).user>>)
          /\ Goto(p, IF Call(p).op = "student" THEN "findNumber"
                                               ELSE "insertUser")

(* What provisions a role. *)
FirstStep(role) ==
    CASE role = "admin" -> "commit"
      [] role = "student" -> "findNumber"
      [] OTHER -> "insertProfile"

(* Fields that are missing are noticed with the user already inserted. *)
InsertUser(p) ==
    /\ At(p, "insertUser")
    /\ \/ ~Call(p).full /\ EndCall(p)
       \/ /\ Call(p).full
          /\ Insert(p, {<<"user", Call(p).user>>},
                    IF Call(p).op = "student" THEN "insertProfile"
                                              ELSE FirstStep(Call(p).role))

FindNumber(p) ==
    /\ At(p, "findNumber")
    /\ \/ Exists(<<"number", Call(p).number>>) /\ EndCall(p)
       \/ /\ ~Exists(<<"number", Call(p).number>>)
          /\ Goto(p, IF Call(p).op = "student" THEN "insertUser"
                                               ELSE "insertProfile")

(* The role of the user that is being provisioned. *)
RoleOf(p) == IF session[p].loaded = Null THEN Call(p).role
                                         ELSE session[p].loaded.role

(* Mutant: a student's wallet is left for later. *)
InsertProfileOnly(p) ==
    /\ At(p, "insertProfile")
    /\ \/ /\ RoleOf(p) = "student"
          /\ Insert(p, {<<"student", Call(p).user>>, <<"number", Call(p).number>>},
                    "commit")
       \/ /\ RoleOf(p) = "vendor"
          /\ Insert(p, {<<"vendor", Call(p).user>>}, "findAccount")
       \/ /\ RoleOf(p) = "staff"
          /\ Insert(p, {<<"staff", Call(p).user>>}, "commit")

(* create_student, provision_vendor, provision_staff. *)
InsertProfile(p) ==
    /\ At(p, "insertProfile")
    /\ \/ /\ RoleOf(p) = "student"
          /\ Insert(p, {<<"student", Call(p).user>>, <<"number", Call(p).number>>},
                    "insertWallet")
       \/ /\ RoleOf(p) = "vendor"
          /\ Insert(p, {<<"vendor", Call(p).user>>}, "findAccount")
       \/ /\ RoleOf(p) = "staff"
          /\ Insert(p, {<<"staff", Call(p).user>>}, "commit")

(* The student is new, so it has no wallet yet. *)
InsertWallet(p) ==
    /\ At(p, "insertWallet")
    /\ Insert(p, {<<"wallet", Call(p).user>>}, "insertAccount")

(* ensure_vendor_account. *)
FindAccount(p) ==
    /\ At(p, "findAccount")
    /\ Goto(p, IF Exists(<<"account", Call(p).user>>) THEN "commit"
                                                      ELSE "insertAccount")

InsertAccount(p) ==
    /\ At(p, "insertAccount")
    /\ Insert(p, {<<"account", Call(p).user>>}, "commit")

-----------------------------------------------------------------------------
(* update_user_status.                                                     *)

LoadUser(p) ==
    /\ At(p, "loadUser")
    /\ \/ user[Call(p).user] = Null /\ EndCall(p)
       \/ /\ user[Call(p).user] # Null
          /\ session' = [session EXCEPT
                ![p].loaded = user[Call(p).user],
                ![p].at = IF /\ Call(p).status = "active"
                             /\ user[Call(p).user].status = "pending"
                             /\ user[Call(p).user].role # "admin"
                          THEN "findProfile" ELSE "commit"]
          /\ UNCHANGED <<rows, user>>

(* Mutant: a registration is approved as it is. *)
FindProfileSkipped(p) ==
    /\ At(p, "findProfile")
    /\ Goto(p, "commit")

(* A pending user is approved with a profile, its own or a new one. *)
FindProfile(p) ==
    /\ At(p, "findProfile")
    /\ LET profile == <<RoleOf(p), Call(p).user>>
       IN \/ Exists(profile) /\ Goto(p, "commit")
          \/ ~Exists(profile) /\ ~Call(p).full /\ EndCall(p)
          \/ ~Exists(profile) /\ Call(p).full /\ Goto(p, FirstStep(RoleOf(p)))

-----------------------------------------------------------------------------
(* ensure_system_accounts.  The IntegrityError of a lost race comes out of *)
(* accounts.create, before the try that would look the account up again.   *)

EnsurePool(p) ==
    \/ /\ At(p, "findPool")
       /\ Goto(p, IF Exists(Pool) THEN "findAdjustment" ELSE "insertPool")
    \/ /\ At(p, "insertPool")
       /\ Insert(p, {Pool}, "findAdjustment")

EnsureAdjustment(p) ==
    \/ /\ At(p, "findAdjustment")
       /\ Goto(p, IF Exists(Adjustment) THEN "commit" ELSE "insertAdjustment")
    \/ /\ At(p, "insertAdjustment")
       /\ Insert(p, {Adjustment}, "commit")

-----------------------------------------------------------------------------
(* The end of a call.                                                      *)

(* An UPDATE of the status is sent only if it differs from what was        *)
(* loaded; registrations store the user they inserted.                     *)
UserAfter(p) ==
    LET c == Call(p)
        u == c.user
    IN CASE c.op = "ensure" -> user
         [] c.op = "status" /\ c.status = session[p].loaded.status -> user
         [] c.op = "status" /\ c.status # session[p].loaded.status ->
              [user EXCEPT ![u].status = c.status]
         [] OTHER -> [user EXCEPT ![u] = [role |-> c.role, status |-> c.status]]

(* The audit row is flushed with everything else. *)
Commit(p) ==
    /\ At(p, "commit")
    /\ rows' = [k \in Rows |-> IF k \in session[p].added THEN rows[k] + 1
                                                         ELSE rows[k]]
    /\ user' = UserAfter(p)
    /\ session' = [session EXCEPT ![p] = Idle]

Dies(p) ==
    /\ ~At(p, "idle")
    /\ EndCall(p)

CallStep(p) ==
    \/ FindUser(p) \/ InsertUser(p) \/ FindNumber(p) \/ InsertProfile(p)
    \/ InsertWallet(p) \/ FindAccount(p) \/ InsertAccount(p) \/ LoadUser(p)
    \/ FindProfile(p) \/ EnsurePool(p) \/ EnsureAdjustment(p)
    \/ Commit(p) \/ AnswerError(p)

AccNext == \E p \in Workers : Begin(p) \/ CallStep(p) \/ Dies(p)

AccSpec == AccInit /\ [][AccNext]_accVars

AccFairSpec == AccSpec /\ \A p \in Workers : SF_accVars(CallStep(p))

-----------------------------------------------------------------------------
(* Properties.                                                             *)

(* Types; no key is inserted by two open transactions, nor if it is taken. *)
AccTypeOK ==
    /\ rows \in [Rows -> Nat]
    /\ user \in [Emails -> UserType \cup {Null}]
    /\ session \in [Workers -> SessionType]
    /\ \A p \in Workers :
        /\ At(p, "idle") <=> session[p] = Idle
        /\ \A k \in session[p].added : ~Exists(k) /\ ~Awaited(p, k)

Profiles(u) == {r \in Roles \ {"admin"} : Exists(<<r, u>>)}

(* Whoever exists is whole, whatever calls met, failed or died: one        *)
(* profile, of the user's role (none only for an administrator or a legacy *)
(* registration), and what belongs to it and to nobody else: a wallet and  *)
(* its account for a student, a revenue account for a vendor.              *)
Provisioned ==
    \A u \in Emails :
        LET has(t) == rows[<<t, u>>]
        IN /\ has("user") = (IF user[u] = Null THEN 0 ELSE 1)
           /\ user[u] = Null => Profiles(u) = {}
           /\ user[u] # Null =>
                /\ Profiles(u) \subseteq {user[u].role}
                /\ user[u].role # "admin" /\ u \notin Legacy => Profiles(u) # {}
           /\ \A r \in Profiles(u) : has(r) = 1
           /\ has("wallet") = has("student")
           /\ has("account") = has("student") + has("vendor")

(* A student number is one student's, and there is one account of each     *)
(* system type, between which balances would otherwise be split.           *)
NothingTwice ==
    /\ \A n \in Numbers : rows[<<"number", n>>] <= 1
    /\ Cardinality({n \in Numbers : Exists(<<"number", n>>)})
         = Cardinality({u \in Emails : Exists(<<"student", u>>)})
    /\ rows[Pool] <= 1 /\ rows[Adjustment] <= 1

(* An approval leaves a user with a profile, also when it races with       *)
(* another approval, a rejection, or a second thought about either.        *)
ApprovedHasProfile ==
    [][\A p \in Workers :
            /\ At(p, "commit") /\ user' # user
            /\ Call(p).op = "status" /\ Call(p).status = "active"
            /\ session[p].loaded.status = "pending"
            /\ session[p].loaded.role # "admin"
            /\ session'[p] = Idle
            => rows'[<<session[p].loaded.role, Call(p).user>>] > 0]_accVars

(* Every call ends: inserts that wait for each other's keys never wait in  *)
(* a circle.                                                               *)
EveryCallEnds == \A p \in Workers : ~At(p, "idle") ~> At(p, "idle")
=============================================================================
