--------------------------- MODULE AccountsProofs ---------------------------
(***************************************************************************)
(* Registrations, approvals and the set-up of the system accounts leave    *)
(* whole users behind, each with the profile of its role and what belongs  *)
(* to it, for any number of workers, emails, numbers and calls.            *)
(***************************************************************************)
EXTENDS Accounts, FiniteSetTheorems, TLAPS

USE AccountsAssumption

(* The role a session provisions, and the calls that create their user.    *)
Provides(s) == IF s.loaded = Null THEN s.call.role ELSE s.loaded.role
Creates(c) == c.op \in {"register", "student"}

(* The rows of a user, of its profile, and what belongs to the profile.    *)
UserRow(c) == IF Creates(c) THEN {<<"user", c.user>>} ELSE {}
ProfileRows(role, c) ==
    CASE role = "student" -> {<<"student", c.user>>, <<"number", c.number>>}
      [] role = "vendor" -> {<<"vendor", c.user>>}
      [] role = "staff" -> {<<"staff", c.user>>}
      [] OTHER -> {}
Belongings(role, c) ==
    CASE role = "student" -> {<<"wallet", c.user>>, <<"account", c.user>>}
      [] role = "vendor" -> {<<"account", c.user>>}
      [] OTHER -> {}

Provisioning == {"findNumber", "insertProfile", "insertWallet", "findAccount",
                 "insertAccount"}
Ensuring == {"findPool", "insertPool", "findAdjustment", "insertAdjustment"}

(* Which calls run which statements, and what an update has loaded: the    *)
(* role of a user is never updated.                                        *)
RunsFor(s) ==
    /\ s.at # "idle" => s.call \in Calls
    /\ s.at \in {"findUser", "insertUser"} => Creates(s.call)
    /\ s.at \in {"loadUser", "findProfile"} => s.call.op = "status"
    /\ s.at \in Provisioning => Creates(s.call) \/ s.call.op = "status"
    /\ s.at \in Ensuring => s.call.op = "ensure"
    /\ s.at \in Provisioning \cup {"findProfile"} => Provides(s) # "admin"
    /\ s.at = "findNumber" => Provides(s) = "student"
    /\ s.at = "loadUser" => s.loaded = Null
    /\ s.at \notin {"idle", "loadUser", "failed"} =>
          (s.loaded # Null <=> s.call.op = "status")
    /\ s.at # "idle" /\ s.loaded # Null =>
          user[s.call.user] # Null /\ user[s.call.user].role = s.loaded.role

(* What it has inserted by then, all of it for its user; an approval finds *)
(* a profile or has inserted one.                                          *)
Inserted(s) ==
    LET c == s.call
        role == Provides(s)
    IN /\ s.at \notin Provisioning \cup Ensuring \cup {"commit"} => s.added = {}
       /\ s.at = "findNumber" =>
            s.added = IF c.op = "student" THEN {} ELSE UserRow(c)
       /\ s.at = "insertProfile" => s.added = UserRow(c)
       /\ s.at = "insertWallet" =>
            role = "student" /\ s.added = UserRow(c) \cup ProfileRows(role, c)
       /\ s.at = "findAccount" =>
            role = "vendor" /\ s.added = UserRow(c) \cup ProfileRows(role, c)
       /\ s.at = "insertAccount" =>
            /\ role \in {"student", "vendor"}
            /\ s.added = UserRow(c) \cup ProfileRows(role, c)
                          \cup (Belongings(role, c) \ {<<"account", c.user>>})
       /\ s.at \in Ensuring => s.added \subseteq {Pool, Adjustment}
       /\ s.at = "commit" /\ c.op = "ensure" => s.added \subseteq {Pool, Adjustment}
       /\ s.at = "commit" /\ Creates(c) =>
            s.added = UserRow(c) \cup ProfileRows(role, c) \cup Belongings(role, c)
       /\ s.at = "commit" /\ c.op = "status" =>
            \/ /\ s.added = ProfileRows(role, c) \cup Belongings(role, c)
               /\ role # "admin"
            \/ /\ s.added = {}
               /\ c.status = "active" /\ s.loaded.status = "pending"
                      /\ role # "admin" => Exists(<<role, c.user>>)

(* Provisioned, one user at a time.                                        *)
UserWhole(u) ==
    /\ rows[<<"user", u>>] = (IF user[u] = Null THEN 0 ELSE 1)
    /\ \A r \in Roles \ {"admin"} :
          Exists(<<r, u>>) => user[u] # Null /\ user[u].role = r
    /\ user[u] # Null /\ user[u].role # "admin" /\ u \notin Legacy =>
          Exists(<<user[u].role, u>>)
    /\ rows[<<"wallet", u>>] = rows[<<"student", u>>]
    /\ rows[<<"account", u>>] = rows[<<"student", u>>] + rows[<<"vendor", u>>]

Numbered == {n \in Numbers : Exists(<<"number", n>>)}
Students == {u \in Emails : Exists(<<"student", u>>)}

NumbersMatch ==
    /\ IsFiniteSet(Numbered) /\ IsFiniteSet(Students)
    /\ Cardinality(Numbered) = Cardinality(Students)

SessionOK(p) ==
    /\ RunsFor(session[p]) /\ Inserted(session[p])
    /\ At(p, "idle") <=> session[p] = Idle
    /\ \A k \in session[p].added : ~Exists(k) /\ ~Awaited(p, k)

(* The inductive invariant.                                                *)
AccInvariant ==
    /\ rows \in [Rows -> {0, 1}]
    /\ user \in [Emails -> UserType \cup {Null}]
    /\ session \in [Workers -> SessionType]
    /\ \A p \in Workers : SessionOK(p)
    /\ \A u \in Emails : UserWhole(u)
    /\ NumbersMatch

-----------------------------------------------------------------------------
(* Helpers.                                                                *)

LEMMA AccNullFacts ==
    /\ Null \notin CallType /\ Null \notin Statuses
    /\ \A c \in Calls : c \in CallType /\ c # Null
OBVIOUS

(* A role is one of those that exist, so no session loads Null.            *)
LEMMA IdleOK == /\ Idle \in SessionType /\ Idle.at = "idle" /\ Idle.added = {}
                /\ RunsFor(Idle) /\ Inserted(Idle)
BY DEF Idle, SessionType, Statements, RunsFor, Inserted, Provisioning, Ensuring

LEMMA RowsOfCalls ==
    ASSUME NEW c \in CallType, NEW role
    PROVE  /\ UserRow(c) \subseteq Rows
           /\ ProfileRows(role, c) \subseteq Rows
           /\ Belongings(role, c) \subseteq Rows
           /\ Pool \in Rows /\ Adjustment \in Rows
<1>1. c.user \in Emails /\ c.number \in Numbers
  BY DEF CallType
<1>2. UserRow(c) \subseteq Rows
  BY <1>1 DEF UserRow, Rows
<1>3. ProfileRows(role, c) \subseteq Rows
  BY <1>1 DEF ProfileRows, Rows
<1>4. Belongings(role, c) \subseteq Rows
  BY <1>1 DEF Belongings, Rows
<1> QED BY <1>2, <1>3, <1>4 DEF Rows

(* One session moves on; nothing is committed.                             *)
LEMMA AccSessionStep ==
    ASSUME AccInvariant, NEW p \in Workers, NEW s \in SessionType,
           session' = [session EXCEPT ![p] = s], UNCHANGED <<rows, user>>,
           RunsFor(s), Inserted(s), s.at = "idle" <=> s = Idle,
           \A k \in s.added : ~Exists(k) /\ ~Awaited(p, k)
    PROVE  AccInvariant'
<1>1. /\ session'[p] = s
      /\ \A q \in Workers \ {p} : session'[q] = session[q]
      /\ session' \in [Workers -> SessionType]
  BY DEF AccInvariant
<1>2. \A k : Exists(k)' <=> Exists(k)
  BY DEF Exists
<1>3. ASSUME NEW q \in Workers PROVE SessionOK(q)'
  <2>1. RunsFor(session[q])' /\ Inserted(session[q])'
    BY <1>1, <1>2 DEF AccInvariant, SessionOK, RunsFor, Inserted
  <2>2. At(q, "idle")' <=> session'[q] = Idle
    BY <1>1 DEF AccInvariant, SessionOK, At
  <2>3. ASSUME NEW k \in session'[q].added PROVE ~Exists(k)' /\ ~Awaited(q, k)'
    <3>1. CASE q = p
      BY <1>1, <1>2, <2>3, <3>1 DEF Awaited
    <3>2. CASE q # p
      <4>1. k \in session[q].added /\ ~Exists(k) /\ ~Awaited(q, k)
        BY <1>1, <2>3, <3>2 DEF AccInvariant, SessionOK
      <4>2. k \notin s.added
        BY <3>2, <4>1 DEF Awaited
      <4> QED BY <1>1, <1>2, <3>2, <4>1, <4>2 DEF Awaited
    <3> QED BY <3>1, <3>2
  <2> QED BY <2>1, <2>2, <2>3 DEF SessionOK
<1>4. \A u \in Emails : UserWhole(u)'
  BY <1>2 DEF AccInvariant, UserWhole
<1>5. NumbersMatch'
  BY <1>2 DEF AccInvariant, NumbersMatch, Numbered, Students
<1> QED BY <1>1, <1>3, <1>4, <1>5 DEF AccInvariant

LEMMA AccEndCall ==
    ASSUME AccInvariant, NEW p \in Workers, EndCall(p)
    PROVE  AccInvariant'
BY AccSessionStep, IdleOK DEF EndCall

LEMMA AccFail ==
    ASSUME AccInvariant, NEW p \in Workers, ~At(p, "idle"), Fail(p)
    PROVE  AccInvariant'
<1> DEFINE s == [session[p] EXCEPT !.at = "failed", !.added = {}]
<1>1. session[p] \in SessionType /\ RunsFor(session[p]) /\ session[p].at # "idle"
  BY DEF AccInvariant, SessionOK, At
<1>2. /\ s \in SessionType /\ s.at = "failed" /\ s.added = {}
      /\ s.call = session[p].call /\ s.loaded = session[p].loaded
  BY <1>1 DEF SessionType, Statements
<1>3. session' = [session EXCEPT ![p] = s] /\ UNCHANGED <<rows, user>>
  BY DEF Fail
<1>4. RunsFor(s) /\ Inserted(s) /\ s # Idle
  BY <1>1, <1>2, IdleOK DEF RunsFor, Inserted, Provisioning, Ensuring
<1> QED BY <1>2, <1>3, <1>4, AccSessionStep

(* A SELECT that lets the call go on.                                      *)
LEMMA AccGoto ==
    ASSUME AccInvariant, NEW p \in Workers, ~At(p, "idle"),
           NEW next \in Statements \ {"idle"}, Goto(p, next),
           RunsFor([session[p] EXCEPT !.at = next]),
           Inserted([session[p] EXCEPT !.at = next])
    PROVE  AccInvariant'
<1> DEFINE s == [session[p] EXCEPT !.at = next]
<1>1. session[p] \in SessionType
  BY DEF AccInvariant
<1>2. /\ s \in SessionType /\ s.at = next /\ s.added = session[p].added
  BY <1>1 DEF SessionType
<1>3. session' = [session EXCEPT ![p] = s] /\ UNCHANGED <<rows, user>>
  BY DEF Goto
<1>4. \A k \in s.added : ~Exists(k) /\ ~Awaited(p, k)
  BY <1>2 DEF AccInvariant, SessionOK
<1>5. s # Idle
  BY <1>2, IdleOK
<1> HIDE DEF s
<1> QED BY <1>2, <1>3, <1>4, <1>5, AccSessionStep DEF s

(* An INSERT, lost or won.                                                 *)
LEMMA AccInsert ==
    ASSUME AccInvariant, NEW p \in Workers, ~At(p, "idle"),
           NEW K \in SUBSET Rows,
           NEW next \in Statements \ {"idle"}, Insert(p, K, next),
           LET s == [session[p] EXCEPT !.added = @ \cup K, !.at = next]
           IN RunsFor(s) /\ Inserted(s)
    PROVE  AccInvariant'
<1> DEFINE s == [session[p] EXCEPT !.added = @ \cup K, !.at = next]
<1>1. CASE Fail(p)
  BY <1>1, AccFail
<1>2. CASE ~Fail(p)
  <2>1. /\ session' = [session EXCEPT ![p] = s] /\ UNCHANGED <<rows, user>>
        /\ \A k \in K : ~Exists(k) /\ ~Awaited(p, k)
    BY <1>2 DEF Insert
  <2>2. session[p] \in SessionType
    BY DEF AccInvariant
  <2>3. s \in SessionType /\ s.at = next /\ s.added = session[p].added \cup K
    BY <2>2 DEF SessionType
  <2>4. \A k \in s.added : ~Exists(k) /\ ~Awaited(p, k)
    BY <2>1, <2>3 DEF AccInvariant, SessionOK
  <2>5. s # Idle
    BY <2>3, IdleOK
  <2>6. RunsFor(s) /\ Inserted(s)
    OBVIOUS
  <2> HIDE DEF s
  <2> QED BY <2>1, <2>3, <2>4, <2>5, <2>6, AccSessionStep DEF s
<1> QED BY <1>1, <1>2

-----------------------------------------------------------------------------
(* One lemma for the statements of each kind of call.                      *)

LEMMA AccCallFacts ==
    ASSUME AccInvariant, NEW p \in Workers, session[p].at # "idle"
    PROVE  /\ session[p] \in SessionType /\ ~At(p, "idle")
           /\ RunsFor(session[p]) /\ Inserted(session[p])
           /\ Call(p) \in Calls /\ Call(p) \in CallType /\ Call(p) = session[p].call
           /\ Call(p).op \in {"register", "student", "status", "ensure"}
           /\ RoleOf(p) = Provides(session[p]) /\ RoleOf(p) \in Roles
<1>1. session[p] \in SessionType /\ RunsFor(session[p]) /\ Inserted(session[p])
  BY DEF AccInvariant, SessionOK
<1>2. Call(p) \in Calls /\ Call(p) \in CallType
  BY <1>1 DEF RunsFor, Call
<1>3. RoleOf(p) \in Roles
  BY <1>1, <1>2 DEF RoleOf, SessionType, UserType, CallType, Call
<1> QED BY <1>1, <1>2, <1>3 DEF At, Call, RoleOf, Provides, CallType

(* The session after a statement.                                          *)
LEMMA Advanced ==
    ASSUME NEW s \in SessionType, NEW next
    PROVE  LET t == [s EXCEPT !.at = next]
           IN /\ t.at = next /\ t.call = s.call /\ t.loaded = s.loaded
              /\ t.added = s.added /\ Provides(t) = Provides(s)
BY DEF SessionType, Provides

LEMMA AdvancedInserting ==
    ASSUME NEW s \in SessionType, NEW next, NEW K
    PROVE  LET t == [s EXCEPT !.added = @ \cup K, !.at = next]
           IN /\ t.at = next /\ t.call = s.call /\ t.loaded = s.loaded
              /\ t.added = s.added \cup K /\ Provides(t) = Provides(s)
BY DEF SessionType, Provides

LEMMA BeginKeeps ==
    ASSUME AccInvariant, NEW p \in Workers, Begin(p)
    PROVE  AccInvariant'
<1>1. PICK c \in Calls :
        session' = [session EXCEPT ![p].call = c, ![p].at =
            CASE c.op = "status" -> "loadUser"
              [] c.op = "ensure" -> "findPool"
              [] OTHER -> "findUser"]
  BY DEF Begin
<1> DEFINE next == CASE c.op = "status" -> "loadUser"
                     [] c.op = "ensure" -> "findPool"
                     [] OTHER -> "findUser"
           s == [Idle EXCEPT !.call = c, !.at = next]
<1>2. session[p] = Idle
  BY DEF Begin, AccInvariant, SessionOK
<1>3. session' = [session EXCEPT ![p] = s] /\ UNCHANGED <<rows, user>>
  BY <1>1, <1>2 DEF AccInvariant, Begin
<1>4. c \in CallType /\ c.op \in {"register", "student", "status", "ensure"}
  BY DEF CallType
<1>5. /\ s \in SessionType /\ s.at = next /\ s.call = c /\ s.loaded = Null /\ s.added = {}
      /\ s.at # "idle"
  BY <1>4 DEF Idle, SessionType, Statements
<1>6. RunsFor(s) /\ Inserted(s)
  BY <1>4, <1>5 DEF RunsFor, Inserted, Provisioning, Ensuring, Creates
<1>7. s # Idle
  BY <1>5, IdleOK
<1> HIDE DEF s
<1> QED BY <1>3, <1>5, <1>6, <1>7, AccSessionStep

LEMMA FindUserKeeps ==
    ASSUME AccInvariant, NEW p \in Workers, FindUser(p)
    PROVE  AccInvariant'
<1>1. CASE EndCall(p)
  BY <1>1, AccEndCall
<1>2. CASE ~EndCall(p)
  <2> DEFINE next == IF Call(p).op = "student" THEN "findNumber" ELSE "insertUser"
             s == [session[p] EXCEPT !.at = next]
  <2>1. Goto(p, next) /\ session[p].at = "findUser"
    BY <1>2 DEF FindUser, At
  <2>2. next \in Statements \ {"idle"}
    BY DEF Statements
  <2>3. /\ s.at = next /\ s.call = session[p].call /\ s.loaded = session[p].loaded
        /\ s.added = session[p].added /\ Provides(s) = Provides(session[p])
    BY <2>1, AccCallFacts, Advanced
  <2>4. session[p].loaded = Null /\ Creates(Call(p)) /\ session[p].added = {}
    BY <2>1, AccCallFacts DEF RunsFor, Inserted, Creates, Provisioning, Ensuring
  <2>5. Call(p).op = "student" => Provides(s) = "student"
    BY <2>1, <2>3, <2>4, AccCallFacts DEF Provides
  <2> HIDE DEF s
  <2>6. RunsFor(s) /\ Inserted(s)
    BY <2>1, <2>3, <2>4, <2>5, AccCallFacts
    DEF RunsFor, Inserted, Provisioning, Ensuring, Creates
  <2> QED BY <2>1, <2>2, <2>6, AccGoto, AccCallFacts DEF s
<1> QED BY <1>1, <1>2

LEMMA InsertUserKeeps ==
    ASSUME AccInvariant, NEW p \in Workers, InsertUser(p)
    PROVE  AccInvariant'
<1>1. CASE EndCall(p)
  BY <1>1, AccEndCall
<1>2. CASE ~EndCall(p)
  <2> DEFINE K == {<<"user", Call(p).user>>}
             next == IF Call(p).op = "student" THEN "insertProfile"
                     ELSE FirstStep(Call(p).role)
             s == [session[p] EXCEPT !.added = @ \cup K, !.at = next]
  <2>1. Insert(p, K, next) /\ session[p].at = "insertUser"
    BY <1>2 DEF InsertUser, At
  <2>2. next \in Statements \ {"idle"} /\ K \in SUBSET Rows
    BY <2>1, AccCallFacts, RowsOfCalls DEF Statements, FirstStep, CallType, Rows
  <2> HIDE DEF K, next
  <2>3. /\ s.at = next /\ s.call = session[p].call /\ s.loaded = session[p].loaded
        /\ s.added = session[p].added \cup K /\ Provides(s) = Provides(session[p])
    <3>1. session[p] \in SessionType
      BY <2>1, AccCallFacts
    <3> QED BY <3>1, AdvancedInserting
  <2>4. session[p].loaded = Null /\ Creates(Call(p)) /\ session[p].added = {}
    BY <2>1, AccCallFacts DEF RunsFor, Inserted, Creates, Provisioning, Ensuring
  <2>5. Provides(s) = Call(p).role /\ Call(p).role \in Roles
        /\ (Call(p).op = "student" => Call(p).role = "student")
    BY <2>1, <2>3, <2>4, AccCallFacts DEF Provides, CallType
  <2>6. s.added = UserRow(s.call)
    BY <2>1, <2>3, <2>4, AccCallFacts DEF UserRow, K
  <2>7. /\ next = "commit" => s.call.op # "student" /\ Provides(s) = "admin"
        /\ next = "findNumber" => s.call.op # "student" /\ Provides(s) = "student"
        /\ next \in {"commit", "findNumber", "insertProfile"}
        /\ next = "insertProfile" => Provides(s) # "admin"
    BY <2>1, <2>3, <2>5, AccCallFacts DEF FirstStep, next
  <2>8. Creates(s.call) /\ s.loaded = Null /\ s.call \in Calls /\ s.call.op # "status"
        /\ s.call.op # "ensure"
    BY <2>1, <2>3, <2>4, AccCallFacts DEF Creates
  <2>9. ProfileRows("admin", s.call) = {} /\ Belongings("admin", s.call) = {}
    BY DEF ProfileRows, Belongings
  <2> HIDE DEF s
  <2>10. RunsFor(s)
    BY <2>3, <2>7, <2>8 DEF RunsFor, Provisioning, Ensuring
  <2>11. Inserted(s)
    BY <2>3, <2>6, <2>7, <2>8, <2>9 DEF Inserted, Provisioning, Ensuring
  <2> QED BY <2>1, <2>2, <2>10, <2>11, AccInsert, AccCallFacts DEF s
<1> QED BY <1>1, <1>2

LEMMA FindNumberKeeps ==
    ASSUME AccInvariant, NEW p \in Workers, FindNumber(p)
    PROVE  AccInvariant'
<1>1. CASE EndCall(p)
  BY <1>1, AccEndCall
<1>2. CASE ~EndCall(p)
  <2> DEFINE next == IF Call(p).op = "student" THEN "insertUser" ELSE "insertProfile"
             s == [session[p] EXCEPT !.at = next]
  <2>1. Goto(p, next) /\ session[p].at = "findNumber"
    BY <1>2 DEF FindNumber, At
  <2>2. next \in Statements \ {"idle"}
    BY DEF Statements
  <2>3. /\ s.at = next /\ s.call = session[p].call /\ s.loaded = session[p].loaded
        /\ s.added = session[p].added /\ Provides(s) = Provides(session[p])
    BY <2>1, AccCallFacts, Advanced
  <2> HIDE DEF s
  <2>4. /\ s.added = IF s.call.op = "student" THEN {} ELSE UserRow(s.call)
        /\ Creates(s.call) \/ s.call.op = "status"
        /\ Provides(s) = "student"
    <3>1. /\ session[p].added = IF Call(p).op = "student" THEN {} ELSE UserRow(Call(p))
          /\ Creates(Call(p)) \/ Call(p).op = "status"
          /\ Provides(session[p]) = "student"
      BY <2>1, AccCallFacts DEF RunsFor, Inserted, Provisioning
    <3> QED BY <2>1, <2>3, <3>1, AccCallFacts
  <2>5. RunsFor(s)
    BY <2>1, <2>3, <2>4, AccCallFacts DEF RunsFor, Provisioning, Ensuring, Creates
  <2>6. Inserted(s)
    BY <2>1, <2>3, <2>4, AccCallFacts DEF Inserted, Provisioning, Ensuring, UserRow, Creates
  <2> QED BY <2>1, <2>2, <2>5, <2>6, AccGoto, AccCallFacts DEF s
<1> QED BY <1>1, <1>2

(* The session p is in once it has inserted K and gone on.                 *)
Lands(p, s, next, K) ==
    /\ s \in SessionType /\ s.at = next /\ s.call = Call(p)
    /\ s.loaded = session[p].loaded /\ s.added = session[p].added \cup K
    /\ Provides(s) = RoleOf(p)
LandsWell(p, next, K) ==
    \A s : Lands(p, s, next, K) => RunsFor(s) /\ Inserted(s)

(* An INSERT of K by a session that has inserted some rows already.        *)
LEMMA InsertAdvances ==
    ASSUME AccInvariant, NEW p \in Workers, session[p].at # "idle",
           NEW K \in SUBSET Rows, NEW next \in Statements \ {"idle"},
           Insert(p, K, next),
           LandsWell(p, next, K)
    PROVE  AccInvariant'
<1> DEFINE s == [session[p] EXCEPT !.added = @ \cup K, !.at = next]
<1>1. session[p] \in SessionType
  BY AccCallFacts
<1>2. /\ s.at = next /\ s.call = Call(p) /\ s.loaded = session[p].loaded
      /\ s.added = session[p].added \cup K /\ Provides(s) = RoleOf(p)
  <2>1. /\ s.at = next /\ s.call = session[p].call /\ s.loaded = session[p].loaded
        /\ s.added = session[p].added \cup K /\ Provides(s) = Provides(session[p])
    BY <1>1 DEF SessionType, Provides
  <2> HIDE DEF s
  <2> QED BY <2>1, AccCallFacts
<1>3. s \in SessionType
  BY <1>1 DEF SessionType
<1> HIDE DEF s
<1>4. RunsFor(s) /\ Inserted(s)
  BY <1>2, <1>3 DEF LandsWell, Lands
<1> QED BY <1>4, AccInsert, AccCallFacts DEF s

LEMMA GotoAdvances ==
    ASSUME AccInvariant, NEW p \in Workers, session[p].at # "idle",
           NEW next \in Statements \ {"idle"}, Goto(p, next),
           LandsWell(p, next, {})
    PROVE  AccInvariant'
<1> DEFINE s == [session[p] EXCEPT !.at = next]
<1>1. session[p] \in SessionType
  BY AccCallFacts
<1>2. /\ s.at = next /\ s.call = Call(p) /\ s.loaded = session[p].loaded
      /\ s.added = session[p].added /\ Provides(s) = RoleOf(p)
  BY <1>1, Advanced, AccCallFacts
<1>3. s \in SessionType
  BY <1>1 DEF SessionType
<1> HIDE DEF s
<1>4. RunsFor(s) /\ Inserted(s)
  <2>1. session[p].added = session[p].added \cup {}
    OBVIOUS
  <2> QED BY <1>2, <1>3, <2>1 DEF LandsWell, Lands
<1> QED BY <1>4, AccGoto, AccCallFacts DEF s

(* What the statements that provision a role know.                         *)
LEMMA ProvisioningFacts ==
    ASSUME AccInvariant, NEW p \in Workers, session[p].at \in Provisioning
    PROVE  /\ session[p].at # "idle"
           /\ Creates(Call(p)) \/ Call(p).op = "status"
           /\ ~(Creates(Call(p)) /\ Call(p).op = "status")
           /\ Call(p).op # "ensure"
           /\ Call(p).op = "status" => UserRow(Call(p)) = {}
           /\ session[p].loaded # Null <=> Call(p).op = "status"
           /\ session[p].loaded # Null =>
                /\ user[Call(p).user] # Null
                /\ user[Call(p).user].role = session[p].loaded.role
           /\ RoleOf(p) \in Roles \ {"admin"}
           /\ Call(p) \in Calls /\ Call(p).user \in Emails
<1>1. session[p].at \notin {"idle", "loadUser", "failed"}
  BY DEF Provisioning
<1>2. RunsFor(session[p]) /\ Call(p) \in CallType
  BY <1>1, AccCallFacts
<1>3. RoleOf(p) # "admin"
  BY <1>1, <1>2, AccCallFacts DEF RunsFor
<1> QED BY <1>1, <1>2, <1>3, AccCallFacts DEF RunsFor, Creates, UserRow, CallType

LEMMA InsertProfileKeeps ==
    ASSUME AccInvariant, NEW p \in Workers, InsertProfile(p)
    PROVE  AccInvariant'
<1> DEFINE c == Call(p)
<1>1. session[p].at = "insertProfile" /\ session[p].at \in Provisioning
  BY DEF InsertProfile, At, Provisioning
<1>2. session[p].added = UserRow(c)
  BY <1>1, AccCallFacts DEF Inserted
<1>3. c \in CallType
  BY <1>1, AccCallFacts
<1>4. CASE RoleOf(p) = "student"
  <2>1. Insert(p, ProfileRows("student", c), "insertWallet")
    BY <1>4 DEF InsertProfile, ProfileRows
  <2>2. ASSUME NEW s, Lands(p, s, "insertWallet", ProfileRows("student", c))
        PROVE  RunsFor(s) /\ Inserted(s)
    <3> HIDE DEF c
    <3> QED BY <1>1, <1>2, <1>4, <2>2, ProvisioningFacts
            DEF c, Lands, RunsFor, Inserted, Provisioning, Ensuring
  <2>3. "insertWallet" \in Statements \ {"idle"}
    BY DEF Statements
  <2> QED BY <1>1, <1>3, <2>1, <2>2, <2>3, RowsOfCalls, InsertAdvances DEF LandsWell
<1>5. CASE RoleOf(p) = "vendor"
  <2>1. Insert(p, ProfileRows("vendor", c), "findAccount")
    BY <1>5 DEF InsertProfile, ProfileRows
  <2>2. ASSUME NEW s, Lands(p, s, "findAccount", ProfileRows("vendor", c))
        PROVE  RunsFor(s) /\ Inserted(s)
    <3> HIDE DEF c
    <3> QED BY <1>1, <1>2, <1>5, <2>2, ProvisioningFacts
            DEF c, Lands, RunsFor, Inserted, Provisioning, Ensuring
  <2>3. "findAccount" \in Statements \ {"idle"}
    BY DEF Statements
  <2> QED BY <1>1, <1>3, <2>1, <2>2, <2>3, RowsOfCalls, InsertAdvances DEF LandsWell
<1>6. CASE RoleOf(p) = "staff"
  <2>1. Insert(p, ProfileRows("staff", c), "commit")
    BY <1>6 DEF InsertProfile, ProfileRows
  <2>2. ASSUME NEW s, Lands(p, s, "commit", ProfileRows("staff", c))
        PROVE  RunsFor(s) /\ Inserted(s)
    <3>1. Belongings("staff", c) = {}
      BY DEF Belongings
    <3>2. RunsFor(s)
      BY <1>1, <1>2, <1>6, <2>2, ProvisioningFacts
      DEF Lands, RunsFor, Provisioning, Ensuring
    <3> HIDE DEF c
    <3>3. Inserted(s)
      BY <1>1, <1>2, <1>6, <2>2, <3>1, ProvisioningFacts
      DEF c, Lands, Inserted, Provisioning, Ensuring
    <3> QED BY <3>2, <3>3
  <2>3. "commit" \in Statements \ {"idle"}
    BY DEF Statements
  <2> QED BY <1>1, <1>3, <2>1, <2>2, <2>3, RowsOfCalls, InsertAdvances DEF LandsWell
<1> QED BY <1>4, <1>5, <1>6 DEF InsertProfile

LEMMA InsertWalletKeeps ==
    ASSUME AccInvariant, NEW p \in Workers, InsertWallet(p)
    PROVE  AccInvariant'
<1> DEFINE c == Call(p)
           K == {<<"wallet", c.user>>}
<1>1. session[p].at = "insertWallet" /\ session[p].at \in Provisioning
      /\ Insert(p, K, "insertAccount")
  BY DEF InsertWallet, At, Provisioning
<1>2. RoleOf(p) = "student" /\ session[p].added = UserRow(c) \cup ProfileRows("student", c)
  BY <1>1, AccCallFacts DEF Inserted
<1>3. Belongings("student", c) \ {<<"account", c.user>>} = K
  BY DEF Belongings
<1>4. K \in SUBSET Rows /\ "insertAccount" \in Statements \ {"idle"}
  BY <1>1, ProvisioningFacts DEF Rows, Statements
<1>5. ASSUME NEW s, Lands(p, s, "insertAccount", K)
      PROVE  RunsFor(s) /\ Inserted(s)
  <2> HIDE DEF c, K
  <2> QED BY <1>1, <1>2, <1>3, <1>5, ProvisioningFacts
          DEF c, Lands, RunsFor, Inserted, Provisioning, Ensuring
<1> HIDE DEF K
<1> QED BY <1>1, <1>4, <1>5, InsertAdvances, AccCallFacts DEF LandsWell

LEMMA InsertAccountKeeps ==
    ASSUME AccInvariant, NEW p \in Workers, InsertAccount(p)
    PROVE  AccInvariant'
<1> DEFINE c == Call(p)
           K == {<<"account", c.user>>}
<1>1. session[p].at = "insertAccount" /\ session[p].at \in Provisioning
      /\ Insert(p, K, "commit")
  BY DEF InsertAccount, At, Provisioning
<1>2. /\ RoleOf(p) \in {"student", "vendor"}
      /\ session[p].added = UserRow(c) \cup ProfileRows(RoleOf(p), c)
                              \cup (Belongings(RoleOf(p), c) \ K)
  BY <1>1, AccCallFacts DEF Inserted
<1>3. Belongings(RoleOf(p), c) = (Belongings(RoleOf(p), c) \ K) \cup K
  BY <1>2 DEF Belongings
<1>4. K \in SUBSET Rows /\ "commit" \in Statements \ {"idle"}
  BY <1>1, ProvisioningFacts DEF Rows, Statements
<1>5. ASSUME NEW s, Lands(p, s, "commit", K)
      PROVE  RunsFor(s) /\ Inserted(s)
  <2> HIDE DEF c, K
  <2>1. s.added = UserRow(c) \cup ProfileRows(RoleOf(p), c) \cup Belongings(RoleOf(p), c)
    BY <1>2, <1>3, <1>5 DEF Lands
  <2>2. RunsFor(s)
    BY <1>1, <1>5, ProvisioningFacts DEF c, Lands, RunsFor, Provisioning, Ensuring
  <2>3. Inserted(s)
    BY <1>1, <1>5, <2>1, ProvisioningFacts
    DEF c, Lands, Inserted, Provisioning, Ensuring
  <2> QED BY <2>2, <2>3
<1> HIDE DEF K
<1> QED BY <1>1, <1>4, <1>5, InsertAdvances, AccCallFacts DEF LandsWell

(* A vendor without a profile has no account.                              *)
LEMMA FindAccountKeeps ==
    ASSUME AccInvariant, NEW p \in Workers, FindAccount(p)
    PROVE  AccInvariant'
<1> DEFINE c == Call(p)
           u == c.user
<1>1. session[p].at = "findAccount" /\ session[p].at \in Provisioning
  BY DEF FindAccount, At, Provisioning
<1>2. RoleOf(p) = "vendor" /\ session[p].added = UserRow(c) \cup ProfileRows("vendor", c)
  BY <1>1, AccCallFacts DEF Inserted
<1>3. ~Exists(<<"account", u>>)
  <2>1. u \in Emails /\ UserWhole(u)
    BY <1>1, ProvisioningFacts DEF AccInvariant
  <2>2. \A t \in {"user", "student", "vendor", "account"} : rows[<<t, u>>] \in {0, 1}
    BY <2>1 DEF AccInvariant, Rows
  <2>3. ~Exists(<<"vendor", u>>)
    BY <1>2 DEF AccInvariant, SessionOK, ProfileRows
  <2>4. ~Exists(<<"student", u>>)
    <3>1. CASE Creates(c)
      <4>1. ~Exists(<<"user", u>>)
        BY <1>2, <3>1 DEF AccInvariant, SessionOK, UserRow
      <4>2. user[u] = Null
        BY <2>1, <4>1 DEF UserWhole, Exists
      <4> QED BY <2>1, <4>2 DEF UserWhole, Roles
    <3>2. CASE c.op = "status"
      <4>1. user[u].role = "vendor"
        BY <1>1, <1>2, <3>2, ProvisioningFacts DEF RoleOf
      <4> QED BY <2>1, <4>1 DEF UserWhole, Roles
    <3> QED BY <1>1, <3>1, <3>2, ProvisioningFacts
  <2> QED BY <2>1, <2>2, <2>3, <2>4 DEF UserWhole, Exists
<1>4. Goto(p, "insertAccount")
  BY <1>3 DEF FindAccount
<1>5. ASSUME NEW s, Lands(p, s, "insertAccount", {})
      PROVE  RunsFor(s) /\ Inserted(s)
  <2>1. Belongings("vendor", c) \ {<<"account", c.user>>} = {}
    BY DEF Belongings
  <2>2. s.added = UserRow(c) \cup ProfileRows("vendor", c)
                   \cup (Belongings("vendor", c) \ {<<"account", c.user>>})
    BY <1>2, <1>5, <2>1 DEF Lands
  <2> HIDE DEF c
  <2>3. RunsFor(s)
    BY <1>1, <1>5, ProvisioningFacts DEF c, Lands, RunsFor, Provisioning, Ensuring
  <2>4. Inserted(s)
    BY <1>2, <1>5, <2>2 DEF c, Lands, Inserted, Provisioning, Ensuring
  <2> QED BY <2>3, <2>4
<1>6. "insertAccount" \in Statements \ {"idle"}
  BY DEF Statements
<1> QED BY <1>1, <1>4, <1>5, <1>6, GotoAdvances, AccCallFacts DEF LandsWell

LEMMA LoadUserKeeps ==
    ASSUME AccInvariant, NEW p \in Workers, LoadUser(p)
    PROVE  AccInvariant'
<1>1. CASE EndCall(p)
  BY <1>1, AccEndCall
<1>2. CASE ~EndCall(p)
  <2> DEFINE c == Call(p)
             r == user[c.user]
             next == IF c.status = "active" /\ r.status = "pending" /\ r.role # "admin"
                     THEN "findProfile" ELSE "commit"
             s == [session[p] EXCEPT !.loaded = r, !.at = next]
  <2>1. /\ session[p].at = "loadUser" /\ r # Null
        /\ session' = [session EXCEPT ![p] = s] /\ UNCHANGED <<rows, user>>
    BY <1>2 DEF LoadUser, At
  <2>2. /\ session[p] \in SessionType /\ c \in CallType /\ c \in Calls
        /\ c.op = "status" /\ session[p].added = {} /\ session[p].call = c
    BY <2>1, AccCallFacts DEF RunsFor, Inserted, Provisioning, Ensuring
  <2>3. r \in UserType
    BY <2>1, <2>2 DEF AccInvariant, CallType
  <2>4. next \in {"findProfile", "commit"}
    OBVIOUS
  <2>5. /\ s \in SessionType /\ s.at = next /\ s.call = c /\ s.loaded = r /\ s.added = {}
    BY <2>2, <2>3, <2>4 DEF SessionType, Statements
  <2> HIDE DEF s
  <2>6. Provides(s) = r.role
    BY <2>1, <2>5 DEF Provides
  <2>7. RunsFor(s)
    BY <2>1, <2>2, <2>5, <2>6 DEF RunsFor, Provisioning, Ensuring
  <2>8. Inserted(s)
    BY <2>2, <2>5, <2>6 DEF Inserted, Provisioning, Ensuring, Creates
  <2>9. s # Idle
    BY <2>4, <2>5, IdleOK
  <2> QED BY <2>1, <2>4, <2>5, <2>7, <2>8, <2>9, AccSessionStep
<1> QED BY <1>1, <1>2

LEMMA FindProfileKeeps ==
    ASSUME AccInvariant, NEW p \in Workers, FindProfile(p)
    PROVE  AccInvariant'
<1> DEFINE c == Call(p)
<1>1. session[p].at = "findProfile"
  BY DEF FindProfile, At
<1>2. /\ c.op = "status" /\ session[p].added = {} /\ session[p].loaded # Null
      /\ user[c.user] # Null /\ user[c.user].role = session[p].loaded.role
      /\ RoleOf(p) \in Roles \ {"admin"} /\ c \in Calls
      /\ ~Creates(c) /\ UserRow(c) = {}
  BY <1>1, AccCallFacts
  DEF RunsFor, Inserted, Provisioning, Ensuring, Creates, UserRow
<1>3. CASE EndCall(p)
  BY <1>3, AccEndCall
<1>4. CASE Exists(<<RoleOf(p), c.user>>) /\ ~EndCall(p)
  <2>1. Goto(p, "commit")
    BY <1>4 DEF FindProfile
  <2>2. ASSUME NEW s, Lands(p, s, "commit", {})
        PROVE  RunsFor(s) /\ Inserted(s)
    <3> HIDE DEF c
    <3>1. RunsFor(s)
      BY <1>2, <2>2 DEF c, Lands, RunsFor, Provisioning, Ensuring
    <3>2. Inserted(s)
      BY <1>2, <1>4, <2>2 DEF c, Lands, Inserted, Provisioning, Ensuring
    <3> QED BY <3>1, <3>2
  <2>3. "commit" \in Statements \ {"idle"}
    BY DEF Statements
  <2> QED BY <1>1, <2>1, <2>2, <2>3, GotoAdvances DEF LandsWell
<1>5. CASE ~Exists(<<RoleOf(p), c.user>>) /\ ~EndCall(p)
  <2> DEFINE next == FirstStep(RoleOf(p))
  <2>1. Goto(p, next)
    BY <1>5 DEF FindProfile
  <2>2. /\ next \in {"findNumber", "insertProfile"}
        /\ next = "findNumber" => RoleOf(p) = "student"
    BY <1>2 DEF FirstStep, Roles
  <2> HIDE DEF next
  <2>3. ASSUME NEW s, Lands(p, s, next, {})
        PROVE  RunsFor(s) /\ Inserted(s)
    <3> HIDE DEF c
    <3>1. RunsFor(s)
      BY <1>2, <2>2, <2>3 DEF c, Lands, RunsFor, Provisioning, Ensuring
    <3>2. Inserted(s)
      BY <1>2, <2>2, <2>3 DEF c, Lands, Inserted, Provisioning, Ensuring
    <3> QED BY <3>1, <3>2
  <2>4. next \in Statements \ {"idle"}
    BY <2>2 DEF Statements
  <2> QED BY <1>1, <2>1, <2>3, <2>4, GotoAdvances DEF LandsWell
<1> QED BY <1>3, <1>4, <1>5

(* ensure_system_accounts inserts the system accounts and nothing else.    *)
LEMMA EnsureKeeps ==
    ASSUME AccInvariant, NEW p \in Workers, EnsurePool(p) \/ EnsureAdjustment(p)
    PROVE  AccInvariant'
<1>1. session[p].at \in Ensuring /\ session[p].at # "idle"
  BY DEF EnsurePool, EnsureAdjustment, At, Ensuring
<1>2. /\ Call(p) \in Calls /\ Call(p) \in CallType /\ Call(p).op = "ensure"
      /\ session[p].loaded = Null /\ session[p].added \subseteq {Pool, Adjustment}
  <2>1. RunsFor(session[p]) /\ Inserted(session[p]) /\ Call(p) = session[p].call
    BY <1>1, AccCallFacts
  <2>2. session[p].call.op = "ensure"
    BY <1>1, <2>1 DEF RunsFor, Ensuring, Provisioning
  <2>3. session[p].loaded = Null
    BY <1>1, <2>1, <2>2 DEF RunsFor, Ensuring
  <2>4. session[p].added \subseteq {Pool, Adjustment}
    BY <1>1, <2>1 DEF Inserted
  <2> QED BY <1>1, <2>1, <2>2, <2>3, <2>4, AccCallFacts
<1> DEFINE next == {"insertPool", "findAdjustment", "insertAdjustment", "commit"}
<1>3. ASSUME NEW s, NEW t \in next, NEW K \in SUBSET {Pool, Adjustment},
             Lands(p, s, t, K)
      PROVE  RunsFor(s) /\ Inserted(s)
  BY <1>2, <1>3 DEF Lands, RunsFor, Inserted, Provisioning, Ensuring, Creates
<1>4. Pool \in Rows /\ Adjustment \in Rows /\ next \subseteq Statements \ {"idle"}
  BY <1>2, RowsOfCalls DEF Statements
<1>5. CASE \E t \in next : Goto(p, t)
  <2>1. PICK t \in next : Goto(p, t)
    BY <1>5
  <2>2. t \in Statements \ {"idle"} /\ LandsWell(p, t, {})
    BY <1>3, <1>4 DEF LandsWell
  <2> QED BY <1>1, <2>1, <2>2, GotoAdvances
<1>6. CASE \E t \in next, K \in SUBSET {Pool, Adjustment} : Insert(p, K, t)
  <2>1. PICK t \in next, K \in SUBSET {Pool, Adjustment} : Insert(p, K, t)
    BY <1>6
  <2>2. K \in SUBSET Rows /\ t \in Statements \ {"idle"} /\ LandsWell(p, t, K)
    BY <1>3, <1>4 DEF LandsWell
  <2> QED BY <1>1, <2>1, <2>2, InsertAdvances
<1>7. {Pool} \in SUBSET {Pool, Adjustment} /\ {Adjustment} \in SUBSET {Pool, Adjustment}
  OBVIOUS
<1> QED BY <1>5, <1>6, <1>7 DEF EnsurePool, EnsureAdjustment

-----------------------------------------------------------------------------
(* The commit.                                                             *)

(* What a session brings to its commit: the user, with all that its role   *)
(* asks for, or nothing for any user.                                      *)
LEMMA CommitBrings ==
    ASSUME AccInvariant, NEW p \in Workers, At(p, "commit")
    PROVE  /\ Call(p) \in Calls /\ Call(p) \in CallType /\ session[p] \in SessionType
           /\ Call(p).user \in Emails /\ Call(p).number \in Numbers
           /\ RoleOf(p) \in Roles
           /\ \/ /\ session[p].added \subseteq {Pool, Adjustment}
                 /\ ~Creates(Call(p))
              \/ /\ session[p].added = UserRow(Call(p)) \cup ProfileRows(RoleOf(p), Call(p))
                                           \cup Belongings(RoleOf(p), Call(p))
                 /\ Call(p).op # "ensure"
                 /\ ~Creates(Call(p)) => RoleOf(p) # "admin"
           /\ Creates(Call(p)) => RoleOf(p) = Call(p).role
           /\ Call(p).op = "status" =>
                /\ session[p].loaded # Null /\ user[Call(p).user] # Null
                /\ user[Call(p).user].role = session[p].loaded.role
                /\ RoleOf(p) = session[p].loaded.role
<1>1. session[p].at = "commit" /\ session[p].at # "idle"
  BY DEF At
<1>2. /\ session[p] \in SessionType /\ RunsFor(session[p]) /\ Inserted(session[p])
      /\ Call(p) \in Calls /\ Call(p) \in CallType /\ Call(p) = session[p].call
      /\ RoleOf(p) = Provides(session[p]) /\ RoleOf(p) \in Roles
      /\ Call(p).op \in {"register", "student", "status", "ensure"}
  BY <1>1, AccCallFacts
<1>3. Call(p).user \in Emails /\ Call(p).number \in Numbers
  BY <1>2 DEF CallType
<1>4. session[p].loaded # Null <=> Call(p).op = "status"
  BY <1>1, <1>2 DEF RunsFor
<1>5. Call(p).op = "status" =>
        /\ user[Call(p).user] # Null
        /\ user[Call(p).user].role = session[p].loaded.role
  BY <1>1, <1>2, <1>4 DEF RunsFor
<1>6. Creates(Call(p)) <=> Call(p).op \in {"register", "student"}
  BY DEF Creates
<1>7. ~Creates(Call(p)) => UserRow(Call(p)) = {}
  BY DEF UserRow
<1>8. /\ Call(p).op = "ensure" => session[p].added \subseteq {Pool, Adjustment}
      /\ Creates(Call(p)) =>
           session[p].added = UserRow(Call(p)) \cup ProfileRows(RoleOf(p), Call(p))
                                \cup Belongings(RoleOf(p), Call(p))
      /\ Call(p).op = "status" =>
           \/ /\ session[p].added = ProfileRows(RoleOf(p), Call(p))
                                     \cup Belongings(RoleOf(p), Call(p))
              /\ RoleOf(p) # "admin"
           \/ session[p].added = {}
  BY <1>1, <1>2 DEF Inserted
<1>9. RoleOf(p) = IF session[p].loaded = Null THEN Call(p).role
                  ELSE session[p].loaded.role
  BY DEF RoleOf
<1> QED BY <1>2, <1>3, <1>4, <1>5, <1>6, <1>7, <1>8, <1>9

(* The rows and users after it.                                            *)
LEMMA CommitEffect ==
    ASSUME AccInvariant, NEW p \in Workers, Commit(p)
    PROVE  /\ rows' \in [Rows -> {0, 1}]
           /\ \A k \in Rows : rows'[k] = IF k \in session[p].added THEN 1 ELSE rows[k]
           /\ \A k \in session[p].added : rows[k] = 0 /\ k \in Rows
           /\ user' \in [Emails -> UserType \cup {Null}]
           /\ \A u \in Emails : u # Call(p).user => user'[u] = user[u]
           /\ Creates(Call(p)) => /\ user'[Call(p).user] # Null
                                 /\ user'[Call(p).user].role = Call(p).role
           /\ ~Creates(Call(p)) =>
                \A u \in Emails :
                   /\ user'[u] # Null <=> user[u] # Null
                   /\ user'[u] # Null => user'[u].role = user[u].role
<1> DEFINE K == session[p].added
           c == Call(p)
<1>1. At(p, "commit") /\ rows' = [k \in Rows |-> IF k \in K THEN rows[k] + 1 ELSE rows[k]]
      /\ user' = UserAfter(p)
  BY DEF Commit
<1>2. \A k \in K : k \in Rows /\ rows[k] = 0
  BY DEF AccInvariant, SessionOK, SessionType, Exists
<1>3. \A k \in Rows : rows[k] \in {0, 1}
  BY DEF AccInvariant
<1>4. /\ \A k \in Rows : rows'[k] = IF k \in K THEN 1 ELSE rows[k]
      /\ rows' \in [Rows -> {0, 1}]
  <2> HIDE DEF K
  <2> QED BY <1>1, <1>2, <1>3
<1>5. c \in CallType /\ c.user \in Emails /\ session[p] \in SessionType
  BY <1>1, CommitBrings
<1>6. user \in [Emails -> UserType \cup {Null}] /\ Null \notin UserType
  <2>1. Null \notin UserType
    OBVIOUS
  <2> QED BY <2>1 DEF AccInvariant
<1>7. CASE Creates(c)
  <2>1. user' = [user EXCEPT ![c.user] = [role |-> c.role, status |-> c.status]]
    BY <1>1, <1>7 DEF UserAfter, Creates
  <2>2. [role |-> c.role, status |-> c.status] \in UserType
    BY <1>5 DEF CallType, UserType
  <2> HIDE DEF K, c
  <2> QED BY <1>2, <1>4, <1>5, <1>6, <1>7, <2>1, <2>2 DEF c, K
<1>8. CASE ~Creates(c)
  <2>1. c.op \in {"status", "ensure"}
    BY <1>5, <1>8 DEF CallType, Creates
  <2>2. \/ user' = user
        \/ c.op = "status" /\ user' = [user EXCEPT ![c.user].status = c.status]
    BY <1>1, <2>1 DEF UserAfter
  <2>3. CASE user' = user
    BY <1>2, <1>4, <1>6, <1>8, <2>3
  <2>4. CASE c.op = "status" /\ user' = [user EXCEPT ![c.user].status = c.status]
    <3> DEFINE r == [user[c.user] EXCEPT !.status = c.status]
    <3>1. user[c.user] # Null /\ user[c.user] \in UserType
      BY <1>1, <1>5, <1>6, <2>4, CommitBrings
    <3>2. c.status \in Statuses
      BY <1>5 DEF CallType
    <3>3. r \in UserType /\ r.role = user[c.user].role
      BY <3>1, <3>2 DEF UserType
    <3>4. user' = [user EXCEPT ![c.user] = r]
      BY <2>4
    <3> HIDE DEF K, c, r
    <3> QED BY <1>2, <1>4, <1>5, <1>6, <1>8, <3>1, <3>3, <3>4 DEF c, K
  <2> QED BY <2>2, <2>3, <2>4
<1> QED BY <1>1, <1>2, <1>4, <1>7, <1>8

(* Who has rows among those a session commits.                             *)
LEMMA CommitsForItsUser ==
    ASSUME AccInvariant, NEW p \in Workers, Commit(p), NEW u \in Emails
    PROVE  u = Call(p).user \/ \A t \in {"user", "student", "vendor", "staff",
                                       "wallet", "account"} :
                                 <<t, u>> \notin session[p].added
<1>1. At(p, "commit")
  BY DEF Commit
<1> QED BY <1>1, CommitBrings DEF UserRow, ProfileRows, Belongings, Pool, Adjustment

(* The commit leaves every user whole.                                     *)
LEMMA CommitWhole ==
    ASSUME AccInvariant, NEW p \in Workers, Commit(p), NEW u \in Emails
    PROVE  UserWhole(u)'
<1> DEFINE c == Call(p)
           K == session[p].added
           role == RoleOf(p)
           tags == {"user", "student", "vendor", "staff", "wallet", "account"}
<1>1. At(p, "commit") /\ UserWhole(u)
  BY DEF Commit, AccInvariant
<1>2. /\ \A t \in tags : <<t, u>> \in Rows /\ rows[<<t, u>>] \in {0, 1}
      /\ \A t \in tags : rows'[<<t, u>>] = IF <<t, u>> \in K THEN 1 ELSE rows[<<t, u>>]
      /\ \A t \in tags : <<t, u>> \in K => rows[<<t, u>>] = 0
  <2>1. \A t \in tags : <<t, u>> \in Rows
    BY DEF Rows
  <2> HIDE DEF tags, K
  <2> QED BY <2>1, CommitEffect DEF AccInvariant, K
<1>3. Roles \ {"admin"} = {"student", "vendor", "staff"}
  BY DEF Roles
<1>4. CASE \A t \in tags : <<t, u>> \notin K
  <2>1. \A t \in tags : rows'[<<t, u>>] = rows[<<t, u>>]
    BY <1>2, <1>4
  <2>2. /\ user'[u] # Null <=> user[u] # Null
        /\ user'[u] # Null => user'[u].role = user[u].role
    <3>1. CASE u # c.user \/ ~Creates(c)
      BY <3>1, CommitEffect
    <3>2. CASE u = c.user /\ Creates(c)
      <4>1. <<"user", u>> \in K
        BY <1>1, <3>2, CommitBrings DEF UserRow
      <4> QED BY <1>4, <4>1
    <3> QED BY <3>1, <3>2
  <2>3. user[u] # Null => user[u].role \in Roles
    BY DEF AccInvariant, UserType
  <2>4. /\ rows'[<<"user", u>>] = (IF user'[u] = Null THEN 0 ELSE 1)
        /\ rows'[<<"wallet", u>>] = rows'[<<"student", u>>]
        /\ rows'[<<"account", u>>] = rows'[<<"student", u>>] + rows'[<<"vendor", u>>]
    BY <1>1, <2>1, <2>2 DEF UserWhole
  <2>5. \A r \in {"student", "vendor", "staff"} : Exists(<<r, u>>)' <=> Exists(<<r, u>>)
    BY <2>1 DEF Exists
  <2>6. \A r \in Roles \ {"admin"} :
           Exists(<<r, u>>)' => user'[u] # Null /\ user'[u].role = r
    BY <1>1, <1>3, <2>2, <2>5 DEF UserWhole
  <2>7. user'[u] # Null /\ user'[u].role # "admin" /\ u \notin Legacy =>
           Exists(<<user[u].role, u>>)'
    BY <1>1, <1>3, <2>2, <2>3, <2>5 DEF UserWhole, Exists
  <2> QED BY <2>4, <2>6, <2>7 DEF UserWhole
<1>5. CASE \E t \in tags : <<t, u>> \in K
  <2>1. /\ u = c.user /\ K = UserRow(c) \cup ProfileRows(role, c) \cup Belongings(role, c)
        /\ role \in Roles /\ (~Creates(c) => role # "admin" /\ c.op = "status")
    <3>1. u = c.user
      BY <1>5, CommitsForItsUser
    <3>2. ~(K \subseteq {Pool, Adjustment})
      BY <1>5 DEF Pool, Adjustment
    <3>3. c.op \in {"register", "student", "status", "ensure"}
      BY <1>1, CommitBrings DEF CallType
    <3> QED BY <1>1, <3>1, <3>2, <3>3, CommitBrings DEF Creates
  <2>2. /\ <<"user", u>> \in K <=> Creates(c)
        /\ <<"student", u>> \in K <=> role = "student"
        /\ <<"vendor", u>> \in K <=> role = "vendor"
        /\ <<"staff", u>> \in K <=> role = "staff"
        /\ <<"wallet", u>> \in K <=> role = "student"
        /\ <<"account", u>> \in K <=> role \in {"student", "vendor"}
    BY <2>1 DEF UserRow, ProfileRows, Belongings
  <2>3. user'[u] # Null /\ user'[u].role = role
    BY <1>1, <2>1, CommitBrings, CommitEffect
  <2>4. \A r \in {"student", "vendor", "staff"} : rows[<<r, u>>] = 0
    <3>1. CASE Creates(c)
      <4>1. user[u] = Null
        BY <1>1, <1>2, <2>2, <3>1 DEF UserWhole
      <4> QED BY <1>1, <1>2, <1>3, <4>1 DEF UserWhole, Exists
    <3>2. CASE ~Creates(c)
      <4>1. user[u].role = role
        BY <1>1, <2>1, <3>2, CommitBrings
      <4> QED BY <1>1, <1>2, <1>3, <2>2, <4>1 DEF UserWhole, Exists
    <3> QED BY <3>1, <3>2
  <2>5. user[u] # Null <=> ~Creates(c)
    BY <1>1, <1>2, <2>1, <2>2, CommitBrings DEF UserWhole
  <2>6. rows'[<<"user", u>>] = 1
    BY <1>1, <1>2, <2>2, <2>5 DEF UserWhole
  <2>7. \A r \in {"student", "vendor", "staff"} :
           rows'[<<r, u>>] = IF role = r THEN 1 ELSE 0
    BY <1>2, <2>2, <2>4
  <2>8. /\ rows'[<<"wallet", u>>] = IF role = "student" THEN 1 ELSE 0
        /\ rows'[<<"account", u>>] = IF role \in {"student", "vendor"} THEN 1 ELSE 0
    BY <1>1, <1>2, <2>2, <2>4 DEF UserWhole
  <2> HIDE DEF role
  <2> QED BY <1>3, <2>1, <2>3, <2>6, <2>7, <2>8 DEF UserWhole, Exists
<1> QED BY <1>4, <1>5

(* A student comes with a number.                                          *)
LEMMA CommitNumbers ==
    ASSUME AccInvariant, NEW p \in Workers, Commit(p)
    PROVE  NumbersMatch'
<1> DEFINE c == Call(p)
           K == session[p].added
<1>1. At(p, "commit") /\ NumbersMatch
  BY DEF Commit, AccInvariant
<1>2. \A k \in Rows : Exists(k)' <=> Exists(k) \/ k \in K
  BY CommitEffect DEF Exists, AccInvariant
<1>3. \A k \in K : ~Exists(k)
  BY DEF AccInvariant, SessionOK
<1>4. /\ \A n \in Numbers : <<"number", n>> \in Rows
      /\ \A u \in Emails : <<"student", u>> \in Rows
  BY DEF Rows
<1>5. /\ Numbered' = Numbered \cup {n \in Numbers : <<"number", n>> \in K}
      /\ Students' = Students \cup {u \in Emails : <<"student", u>> \in K}
  <2> HIDE DEF K
  <2> QED BY <1>2, <1>4 DEF Numbered, Students
<1>6. CASE <<"student", c.user>> \in K
  <2>1. K = UserRow(c) \cup ProfileRows("student", c) \cup Belongings("student", c)
    BY <1>1, <1>6, CommitBrings DEF UserRow, ProfileRows, Belongings, Pool, Adjustment
  <2>2. c.user \in Emails /\ c.number \in Numbers
    BY <1>1, CommitBrings
  <2>3. /\ {n \in Numbers : <<"number", n>> \in K} = {c.number}
        /\ {u \in Emails : <<"student", u>> \in K} = {c.user}
    BY <2>1, <2>2 DEF UserRow, ProfileRows, Belongings
  <2>4. c.number \notin Numbered /\ c.user \notin Students
    BY <1>3, <2>1 DEF Numbered, Students, ProfileRows
  <2>5. /\ IsFiniteSet(Numbered \cup {c.number}) /\ IsFiniteSet(Students \cup {c.user})
        /\ Cardinality(Numbered \cup {c.number}) = Cardinality(Numbered) + 1
        /\ Cardinality(Students \cup {c.user}) = Cardinality(Students) + 1
    BY <1>1, <2>4, FS_AddElement DEF NumbersMatch
  <2>6. Numbered' = Numbered \cup {c.number} /\ Students' = Students \cup {c.user}
    BY <1>5, <2>3
  <2> QED BY <1>1, <2>5, <2>6 DEF NumbersMatch
<1>7. CASE <<"student", c.user>> \notin K
  <2>1. /\ {n \in Numbers : <<"number", n>> \in K} = {}
        /\ {u \in Emails : <<"student", u>> \in K} = {}
    BY <1>1, <1>7, CommitBrings DEF UserRow, ProfileRows, Belongings, Pool, Adjustment
  <2>2. Numbered' = Numbered /\ Students' = Students
    BY <1>5, <2>1
  <2> QED BY <1>1, <2>2 DEF NumbersMatch
<1> QED BY <1>6, <1>7

(* The other sessions keep what they rely on.                              *)
LEMMA CommitSessions ==
    ASSUME AccInvariant, NEW p \in Workers, Commit(p), NEW q \in Workers
    PROVE  SessionOK(q)'
<1>1. /\ session' = [session EXCEPT ![p] = Idle] /\ session'[p] = Idle
      /\ \A r \in Workers \ {p} : session'[r] = session[r]
      /\ At(p, "commit")
  BY DEF Commit, AccInvariant
<1>2. \A k \in Rows : Exists(k)' <=> Exists(k) \/ k \in session[p].added
  BY CommitEffect DEF Exists, AccInvariant
<1>3. CASE q = p
  BY <1>1, <1>3, IdleOK DEF SessionOK, At, RunsFor, Inserted, Provisioning, Ensuring
<1>4. CASE q # p
  <2> DEFINE s == session[q]
  <2>1. session'[q] = s /\ s \in SessionType /\ SessionOK(q) /\ RunsFor(s) /\ Inserted(s)
    BY <1>1, <1>4 DEF AccInvariant, SessionOK
  <2>2. ASSUME NEW k \in s.added
        PROVE  ~Exists(k)' /\ ~Awaited(q, k)'
    <3>1. k \in Rows /\ ~Exists(k) /\ ~Awaited(q, k)
      BY <2>1 DEF SessionOK, SessionType
    <3>2. k \notin session[p].added
      BY <1>4, <3>1 DEF Awaited
    <3> QED BY <1>1, <1>2, <3>1, <3>2, IdleOK DEF Awaited
  <2>3. RunsFor(s)'
    <3>1. s.at # "idle" /\ s.loaded # Null =>
            user'[s.call.user] # Null /\ user'[s.call.user].role = s.loaded.role
      <4> SUFFICES ASSUME s.at # "idle", s.loaded # Null
                   PROVE  user'[s.call.user] # Null
                          /\ user'[s.call.user].role = s.loaded.role
        OBVIOUS
      <4> DEFINE u == s.call.user
      <4>1. user[u] # Null /\ user[u].role = s.loaded.role /\ u \in Emails
        BY <2>1 DEF RunsFor, CallType
      <4>2. CASE u # Call(p).user \/ ~Creates(Call(p))
        BY <4>1, <4>2, CommitEffect
      <4>3. CASE u = Call(p).user /\ Creates(Call(p))
        <5>1. <<"user", u>> \in session[p].added
          BY <1>1, <4>3, CommitBrings DEF UserRow
        <5>2. rows[<<"user", u>>] = 0
          BY <5>1, CommitEffect
        <5>3. UserWhole(u)
          BY <4>1 DEF AccInvariant
        <5>4. user[u] = Null
          BY <5>2, <5>3 DEF UserWhole
        <5> QED BY <4>1, <5>4
      <4> QED BY <4>2, <4>3
    <3> QED BY <2>1, <3>1 DEF RunsFor
  <2>4. Inserted(s)'
    <3>1. PICK t : t = session[q]
      OBVIOUS
    <3>2. /\ session'[q] = t /\ t \in SessionType /\ RunsFor(t) /\ Inserted(t)
      BY <2>1, <3>1
    <3>3. ASSUME t.at = "commit", t.call.op = "status", Provides(t) # "admin",
                 Exists(<<Provides(t), t.call.user>>)
          PROVE  Exists(<<Provides(t), t.call.user>>)'
      <4>1. t.call.user \in Emails /\ Provides(t) \in Roles
        BY <3>2, <3>3 DEF RunsFor, CallType, Provides, SessionType, UserType
      <4>2. <<Provides(t), t.call.user>> \in Rows
        BY <3>3, <4>1 DEF Roles, Rows
      <4> QED BY <1>2, <3>3, <4>2
    <3>4. Inserted(t)'
      BY <3>2, <3>3 DEF Inserted
    <3> QED BY <3>2, <3>4
  <2> QED BY <1>1, <1>4, <2>1, <2>2, <2>3, <2>4 DEF SessionOK, At
<1> QED BY <1>3, <1>4

LEMMA CommitKeeps ==
    ASSUME AccInvariant, NEW p \in Workers, Commit(p)
    PROVE  AccInvariant'
<1>1. session' \in [Workers -> SessionType]
  BY IdleOK DEF Commit, AccInvariant
<1> QED BY <1>1, CommitEffect, CommitSessions, CommitWhole, CommitNumbers DEF AccInvariant

-----------------------------------------------------------------------------
(* The theorems.                                                           *)

LEMMA AccInitHolds == AccInit => AccInvariant
<1> SUFFICES ASSUME AccInit PROVE AccInvariant
  OBVIOUS
<1>1. rows = [k \in Rows |-> IF k \in {"user"} \X Legacy THEN 1 ELSE 0]
      /\ rows \in [Rows -> {0, 1}]
  BY DEF AccInit
<1>2. ASSUME NEW u \in Emails
      PROVE  /\ user[u] = IF u \in Legacy
                          THEN [role |-> LegacyRole[u], status |-> "pending"]
                          ELSE Null
             /\ user[u] \in UserType \cup {Null}
             /\ user[u] = Null <=> u \notin Legacy
  <2>1. user[u] = IF u \in Legacy
                  THEN [role |-> LegacyRole[u], status |-> "pending"] ELSE Null
    BY DEF AccInit
  <2>2. CASE u \in Legacy
    <3>1. LegacyRole[u] \in Roles
      BY <2>2, AccountsAssumption
    <3>2. [role |-> LegacyRole[u], status |-> "pending"] \in UserType
      BY <3>1 DEF UserType, Statuses
    <3>3. Null \notin UserType
      BY AccountsAssumption
    <3> QED BY <2>1, <2>2, <3>2, <3>3
  <2>3. CASE u \notin Legacy
    BY <2>1, <2>3
  <2> QED BY <2>1, <2>2, <2>3
<1>3. user \in [Emails -> UserType \cup {Null}]
  BY <1>2 DEF AccInit
<1>4. \A p \in Workers : session[p] = Idle
  BY DEF AccInit
<1>5. session \in [Workers -> SessionType]
  BY IdleOK DEF AccInit
<1>6. \A p \in Workers : SessionOK(p)
  BY <1>4, IdleOK DEF SessionOK, At
<1>7. \A k \in Rows : k \notin {"user"} \X Legacy => rows[k] = 0
  BY <1>1
<1>8. /\ \A t \in {"student", "vendor", "staff", "wallet", "account"}, u \in Emails :
            <<t, u>> \in Rows /\ rows[<<t, u>>] = 0
      /\ \A n \in Numbers : <<"number", n>> \in Rows /\ rows[<<"number", n>>] = 0
      /\ \A u \in Emails : rows[<<"user", u>>] = IF u \in Legacy THEN 1 ELSE 0
  BY <1>1, <1>7 DEF Rows
<1>9. \A u \in Emails : UserWhole(u)
  <2> SUFFICES ASSUME NEW u \in Emails PROVE UserWhole(u)
    OBVIOUS
  <2>1. \A r \in Roles \ {"admin"} : ~Exists(<<r, u>>)
    BY <1>8 DEF Exists, Roles
  <2>2. rows[<<"user", u>>] = IF user[u] = Null THEN 0 ELSE 1
    BY <1>2, <1>8
  <2>3. user[u] # Null => u \in Legacy
    BY <1>2
  <2>4. /\ rows[<<"wallet", u>>] = 0 /\ rows[<<"student", u>>] = 0
        /\ rows[<<"account", u>>] = 0 /\ rows[<<"vendor", u>>] = 0
    BY <1>8
  <2> QED BY <2>1, <2>2, <2>3, <2>4 DEF UserWhole
<1>10. Numbered = {} /\ Students = {}
  BY <1>8 DEF Numbered, Students, Exists
<1>11. NumbersMatch
  BY <1>10, FS_EmptySet DEF NumbersMatch
<1> QED BY <1>1, <1>3, <1>5, <1>6, <1>9, <1>11 DEF AccInvariant

LEMMA AccStep == AccInvariant /\ [AccNext]_accVars => AccInvariant'
<1> SUFFICES ASSUME AccInvariant, [AccNext]_accVars PROVE AccInvariant'
  OBVIOUS
<1>1. ASSUME NEW p \in Workers, Begin(p) \/ CallStep(p) \/ Dies(p)
      PROVE  AccInvariant'
  BY <1>1, BeginKeeps, FindUserKeeps, InsertUserKeeps, FindNumberKeeps,
     InsertProfileKeeps, InsertWalletKeeps, FindAccountKeeps, InsertAccountKeeps,
     LoadUserKeeps, FindProfileKeeps, EnsureKeeps, CommitKeeps, AccEndCall
  DEF CallStep, AnswerError, Dies
<1>2. CASE UNCHANGED accVars
  <2>1. UNCHANGED <<rows, user, session>>
    BY <1>2 DEF accVars
  <2>2. \A k : Exists(k)' <=> Exists(k)
    BY <2>1 DEF Exists
  <2>3. \A p \in Workers : SessionOK(p)'
    BY <2>1, <2>2 DEF AccInvariant, SessionOK, At, Awaited, RunsFor, Inserted
  <2>4. \A u \in Emails : UserWhole(u)'
    BY <2>1, <2>2 DEF AccInvariant, UserWhole
  <2>5. NumbersMatch'
    BY <2>2 DEF AccInvariant, NumbersMatch, Numbered, Students
  <2> QED BY <2>1, <2>3, <2>4, <2>5 DEF AccInvariant
<1> QED BY <1>1, <1>2 DEF AccNext

(* At every moment every call is where its statements have brought it, and *)
(* what is committed is whole.                                             *)
THEOREM AccInvariance == AccSpec => []AccInvariant
BY AccInitHolds, AccStep, PTL DEF AccSpec

(* Rows, users and sessions keep their types, and no key is inserted by    *)
(* two open transactions or although it is taken (the unique indexes).     *)
THEOREM AccTypeCorrect == AccSpec => []AccTypeOK
<1>1. AccInvariant => AccTypeOK
  BY DEF AccInvariant, SessionOK, AccTypeOK
<1> QED BY <1>1, AccInvariance, PTL

(* Users have the profile of their role, and what belongs to it, and no    *)
(* other (user_admin_service.py, auth_service.py, student_service.py).     *)
THEOREM UsersProvisioned == AccSpec => []Provisioned
<1>1. ASSUME AccInvariant, NEW u \in Emails
      PROVE  LET has(t) == rows[<<t, u>>]
             IN /\ has("user") = (IF user[u] = Null THEN 0 ELSE 1)
                /\ user[u] = Null => Profiles(u) = {}
                /\ user[u] # Null =>
                     /\ Profiles(u) \subseteq {user[u].role}
                     /\ user[u].role # "admin" /\ u \notin Legacy => Profiles(u) # {}
                /\ \A r \in Profiles(u) : has(r) = 1
                /\ has("wallet") = has("student")
                /\ has("account") = has("student") + has("vendor")
  <2>1. UserWhole(u)
    BY <1>1 DEF AccInvariant
  <2>2. \A r \in Roles \ {"admin"} : rows[<<r, u>>] \in {0, 1}
    BY <1>1 DEF AccInvariant, Rows, Roles
  <2>3. user[u] # Null => user[u].role \in Roles
    BY <1>1 DEF AccInvariant, UserType
  <2>4. \A r \in Profiles(u) : rows[<<r, u>>] = 1
    BY <2>2 DEF Profiles, Exists
  <2> QED BY <2>1, <2>3, <2>4 DEF UserWhole, Profiles
<1>2. AccInvariant => Provisioned
  BY <1>1 DEF Provisioned
<1> QED BY <1>2, AccInvariance, PTL

(* No student number and no system account exists twice, and the numbers   *)
(* are those of the students (student_service.py, ensure_system_accounts). *)
THEOREM RowsUnique == AccSpec => []NothingTwice
<1>1. ASSUME AccInvariant PROVE NothingTwice
  <2>1. /\ \A n \in Numbers : rows[<<"number", n>>] <= 1
        /\ rows[Pool] <= 1 /\ rows[Adjustment] <= 1
    BY <1>1 DEF AccInvariant, Rows
  <2> QED BY <1>1, <2>1 DEF AccInvariant, NumbersMatch, Numbered, Students, NothingTwice
<1> QED BY <1>1, AccInvariance, PTL

(* The commit of an approval leaves a profile behind, found or inserted    *)
(* (update_user_status).                                                   *)
THEOREM ApprovalsProvision == AccSpec => ApprovedHasProfile
<1>1. ASSUME AccInvariant, [AccNext]_accVars, NEW p \in Workers,
             At(p, "commit"), user' # user,
             Call(p).op = "status", Call(p).status = "active",
             session[p].loaded.status = "pending", session[p].loaded.role # "admin",
             session'[p] = Idle
      PROVE  rows'[<<session[p].loaded.role, Call(p).user>>] > 0
  <2> DEFINE c == Call(p)
             role == session[p].loaded.role
  <2>1. Commit(p)
    <3>1. PICK q \in Workers : Begin(q) \/ CallStep(q) \/ Dies(q)
      BY <1>1 DEF AccNext, accVars
    <3>2. Commit(q)
      BY <1>1, <3>1
      DEF Begin, CallStep, Dies, FindUser, InsertUser, FindNumber, InsertProfile,
          InsertWallet, FindAccount, InsertAccount, LoadUser, FindProfile, EnsurePool,
          EnsureAdjustment, AnswerError, Insert, Fail, Goto, EndCall
    <3>3. q = p
      BY <1>1, <3>2, IdleOK DEF Commit, AccInvariant, At
    <3> QED BY <3>2, <3>3
  <2>2. /\ RoleOf(p) = role /\ Provides(session[p]) = role /\ c.user \in Emails
        /\ role \in Roles \ {"admin"} /\ session[p].call = c
    <3>1. session[p].at # "idle"
      BY <1>1 DEF At
    <3> QED BY <1>1, <3>1, CommitBrings, AccCallFacts
  <2>3. \/ session[p].added = ProfileRows(role, c) \cup Belongings(role, c)
        \/ Exists(<<role, c.user>>)
    <3>1. Inserted(session[p]) /\ session[p].at = "commit"
      BY <1>1 DEF AccInvariant, SessionOK, At
    <3> HIDE DEF role
    <3> QED BY <1>1, <2>2, <3>1 DEF Inserted, role
  <2>4. <<role, c.user>> \in Rows
    BY <2>2 DEF Rows, Roles
  <2>5. <<role, c.user>> \in ProfileRows(role, c)
    BY <2>2 DEF ProfileRows, Roles
  <2>6. rows'[<<role, c.user>>] = IF <<role, c.user>> \in session[p].added THEN 1
                                  ELSE rows[<<role, c.user>>]
    BY <1>1, <2>1, <2>4, CommitEffect
  <2>7. rows[<<role, c.user>>] \in {0, 1}
    BY <1>1, <2>4 DEF AccInvariant
  <2> HIDE DEF role, c
  <2>8. rows'[<<role, c.user>>] > 0
    BY <2>3, <2>5, <2>6, <2>7 DEF Exists
  <2> QED BY <2>8 DEF role, c
<1>2. AccInvariant /\ [AccNext]_accVars =>
        [\A p \in Workers :
            /\ At(p, "commit") /\ user' # user
            /\ Call(p).op = "status" /\ Call(p).status = "active"
            /\ session[p].loaded.status = "pending"
            /\ session[p].loaded.role # "admin"
            /\ session'[p] = Idle
            => rows'[<<session[p].loaded.role, Call(p).user>>] > 0]_accVars
  BY <1>1
<1> QED BY <1>2, AccInvariance, PTL DEF AccSpec, ApprovedHasProfile
=============================================================================
