---------------------------- MODULE AuthSessions ----------------------------
(***************************************************************************)
(* Logins, refresh rotation, password changes and logouts of users         *)
(* (app/services/auth_service.py, app/api/deps.py), each one session of a  *)
(* worker, statement by statement.  A login or refresh hands out a pair:   *)
(* an access token, which is not stored, and a refresh token, which is a   *)
(* row.  Both are known here by the row.  A call that its first SELECT     *)
(* refuses changes nothing and is left out.                                *)
(***************************************************************************)
EXTENDS Integers, FiniteSets

CONSTANTS
    Users,
    Workers,
    Null,
    MaxTokens,    \* bound: rows of oauth_refresh_tokens
    MaxChanges,   \* bound: password changes of a user
    LastTick,     \* bound: the clock runs over 0..LastTick
    SecondTicks,  \* ticks in a second, the resolution of iat
    AccessLife,   \* access_token_expire_minutes, in ticks
    RefreshLife   \* refresh_token_expire_days, in ticks

Tokens == 1..MaxTokens
Ticks == 0..LastTick

ASSUME AuthAssumption ==
    /\ MaxTokens \in Nat /\ MaxChanges \in Nat /\ LastTick \in Nat
    /\ SecondTicks \in Nat \ {0} /\ AccessLife \in Nat /\ RefreshLife \in Nat
    /\ Null \notin Users \cup Workers \cup Tokens \cup Ticks

VARIABLES
    user,     \* committed users rows
    token,    \* committed oauth_refresh_tokens rows, with what they came from
    clock,    \* datetime.now(UTC), the same for every worker
    session   \* what a worker's database session is doing

authVars == <<user, token, clock, session>>

(* A password is known by the number of changes that led to it. *)
UserType == [active: BOOLEAN, password: Nat, changedAt: Ticks \cup {Null}]

(* family is the token of the login a token descends from, since the       *)
(* password that login gave.  late marks a pair handed out by a session    *)
(* that overlapped a change of the password, or descended from one.        *)
TokenType == [user: Users, family: Tokens, parent: Tokens \cup {Null},
              issued: Ticks, revoked: BOOLEAN, since: Nat, late: BOOLEAN]

ASSUME RowAssumption == Null \notin TokenType

Minting == {"findUser", "consume", "mint", "commitToken"}
Changing == {"revoke", "commitChange"}
Statements == Minting \cup Changing
                \cup {"idle", "verify", "findToken", "revokeOne"}

(* given is the presented refresh token, targets what UPDATE ... WHERE     *)
(* revoked_at IS NULL found, holds the rows it has written and locked.     *)
SessionType == [at: Statements, user: Users \cup {Null},
                given: Tokens \cup {Null}, since: Nat, stamp: Ticks,
                targets: SUBSET Tokens, holds: SUBSET Tokens, late: BOOLEAN]

Idle == [at |-> "idle", user |-> Null, given |-> Null, since |-> 0,
         stamp |-> 0, targets |-> {}, holds |-> {}, late |-> FALSE]

AuthInit ==
    /\ user = [u \in Users |->
                 [active |-> TRUE, password |-> 0, changedAt |-> Null]]
    /\ token = [t \in Tokens |-> Null]
    /\ clock = 0
    /\ session = [p \in Workers |-> Idle]

Goto(p, s) == session' = [session EXCEPT ![p].at = s]

EndSession(p) ==
    /\ session' = [session EXCEPT ![p] = Idle]
    /\ UNCHANGED <<user, token, clock>>

Issued == {t \in Tokens : token[t] # Null}
Live == {t \in Issued : ~token[t].revoked}

(* A row that another session has written and not committed. *)
Locked(p, t) == \E q \in Workers \ {p} : t \in session[q].holds

(* The bound on rows, taken when a call starts so that none gets stuck. *)
Room == Cardinality(Issued)
          + Cardinality({q \in Workers : session[q].at \in Minting}) < MaxTokens

-----------------------------------------------------------------------------
(* login and refresh.                                                      *)

(* A caller with the password of an active user. *)
Login(p) ==
    /\ session[p].at = "idle" /\ Room
    /\ \E u \in Users :
        /\ user[u].active
        /\ session' = [session EXCEPT ![p] =
              [Idle EXCEPT !.at = "mint", !.user = u,
                           !.since = user[u].password]]
    /\ UNCHANGED <<user, token, clock>>

(* get_by_hash: a stored token that is neither revoked nor expired. *)
Refresh(p) ==
    /\ session[p].at = "idle" /\ Room
    /\ \E t \in Live :
        /\ token[t].issued + RefreshLife >= clock
        /\ session' = [session EXCEPT ![p] =
              [Idle EXCEPT !.at = "findUser", !.user = token[t].user,
                           !.given = t, !.since = token[t].since,
                           !.late = token[t].late]]
    /\ UNCHANGED <<user, token, clock>>

FindUser(p) ==
    /\ session[p].at = "findUser"
    /\ \/ /\ ~user[session[p].user].active
          /\ EndSession(p)
       \/ /\ user[session[p].user].active
          /\ Goto(p, "consume")
          /\ UNCHANGED <<user, token, clock>>

(* Mutant: the row is revoked whether or not it still was active. *)
ConsumeAny(p) ==
    /\ session[p].at = "consume"
    /\ ~Locked(p, session[p].given)
    /\ session' = [session EXCEPT ![p].at = "mint",
                                  ![p].holds = {session[p].given}]
    /\ UNCHANGED <<user, token, clock>>

(* Mutant: the UPDATE does not wait for another session's. *)
ConsumeUnlocked(p) ==
    /\ session[p].at = "consume"
    /\ \/ /\ token[session[p].given].revoked
          /\ EndSession(p)
       \/ /\ ~token[session[p].given].revoked
          /\ session' = [session EXCEPT ![p].at = "mint",
                                        ![p].holds = {session[p].given}]
          /\ UNCHANGED <<user, token, clock>>

(* revoke_if_active: the UPDATE waits for the row; no row found, no pair.  *)
Consume(p) ==
    /\ session[p].at = "consume"
    /\ ~Locked(p, session[p].given)
    /\ \/ /\ token[session[p].given].revoked
          /\ EndSession(p)
       \/ /\ ~token[session[p].given].revoked
          /\ session' = [session EXCEPT ![p].at = "mint",
                                        ![p].holds = {session[p].given}]
          /\ UNCHANGED <<user, token, clock>>

(* create_access_token and create_refresh_token read the clock. *)
Mint(p) ==
    /\ session[p].at = "mint"
    /\ session' = [session EXCEPT ![p].at = "commitToken", ![p].stamp = clock]
    /\ UNCHANGED <<user, token, clock>>

(* Some change of u's password has stamped its time and not committed. *)
BeingChanged(u) ==
    \E q \in Workers : session[q].at \in Changing /\ session[q].user = u

NewToken == Cardinality(Issued) + 1

(* The row of the pair p hands out. *)
Row(p) ==
    [user |-> session[p].user,
     family |-> IF session[p].given = Null THEN NewToken
                ELSE token[session[p].given].family,
     parent |-> session[p].given, issued |-> session[p].stamp,
     revoked |-> FALSE, since |-> session[p].since,
     late |-> session[p].late \/ BeingChanged(session[p].user)]

Revoking(p) ==
    [t \in Tokens |-> IF t \in session[p].holds
                      THEN [token[t] EXCEPT !.revoked = TRUE] ELSE token[t]]

(* Mutant: the consumed token is not revoked with it. *)
CommitTokenOnly(p) ==
    /\ session[p].at = "commitToken"
    /\ token' = [token EXCEPT ![NewToken] = Row(p)]
    /\ session' = [session EXCEPT ![p] = Idle]
    /\ UNCHANGED <<user, clock>>

(* One commit spends the old token and stores the new one.  The audit row  *)
(* of a login is a transaction of its own after it.                        *)
CommitToken(p) ==
    /\ session[p].at = "commitToken"
    /\ token' = [Revoking(p) EXCEPT ![NewToken] = Row(p)]
    /\ session' = [session EXCEPT ![p] = Idle]
    /\ UNCHANGED <<user, clock>>

-----------------------------------------------------------------------------
(* get_current_user, and the calls behind it.                              *)

Second(tick) == tick \div SecondTicks

(* Mutant: iat, in whole seconds, is compared with the exact time. *)
AcceptedExactly(t) ==
    LET u == user[token[t].user]
    IN /\ clock <= token[t].issued + AccessLife
       /\ u.active
       /\ u.changedAt # Null =>
            SecondTicks * Second(token[t].issued) >= u.changedAt

(* The access token handed out with t. *)
Accepted(t) ==
    LET u == user[token[t].user]
    IN /\ clock <= token[t].issued + AccessLife
       /\ u.active
       /\ u.changedAt # Null => Second(token[t].issued) >= Second(u.changedAt)

ChangesLeft(u) ==
    user[u].password
      + Cardinality({q \in Workers : /\ session[q].user = u
                                     /\ session[q].at \in Changing \cup {"verify"}})
      < MaxChanges

(* The users row stays loaded for the rest of the request. *)
Authenticate(p) ==
    /\ session[p].at = "idle"
    /\ \E t \in Issued, s \in {"verify", "findToken"} :
        /\ Accepted(t)
        /\ s = "verify" => ChangesLeft(token[t].user)
        /\ session' = [session EXCEPT ![p] =
              [Idle EXCEPT !.at = s, !.user = token[t].user]]
    /\ UNCHANGED <<user, token, clock>>

-----------------------------------------------------------------------------
(* change_password.                                                        *)

LiveOf(u) == {t \in Live : token[t].user = u}

(* Mutant: the refresh tokens are left alone. *)
VerifyPasswordOnly(p) ==
    /\ session[p].at = "verify"
    /\ session' = [session EXCEPT ![p].at = "revoke", ![p].stamp = clock]
    /\ UNCHANGED <<user, token, clock>>

(* The current password is right or wrong; password_changed_at is taken    *)
(* and revoke_all_for_user takes its snapshot of the rows.                 *)
VerifyPassword(p) ==
    /\ session[p].at = "verify"
    /\ \/ EndSession(p)
       \/ /\ session' = [session EXCEPT ![p].at = "revoke", ![p].stamp = clock,
                                        ![p].targets = LiveOf(session[p].user)]
          /\ UNCHANGED <<user, token, clock>>

(* Having waited, the UPDATE leaves alone what was revoked meanwhile. *)
RevokeAll(p) ==
    /\ session[p].at = "revoke"
    /\ \A t \in session[p].targets : ~Locked(p, t)
    /\ session' = [session EXCEPT ![p].at = "commitChange",
                      ![p].holds = session[p].targets \cap Live]
    /\ UNCHANGED <<user, token, clock>>

(* Those who hand out a pair to u right now have overlapped the change. *)
AfterChange(p) ==
    [q \in Workers |->
        IF q = p THEN Idle
        ELSE IF session[q].at \in Minting /\ session[q].user = session[p].user
             THEN [session[q] EXCEPT !.late = TRUE] ELSE session[q]]

(* Mutant: password_changed_at is not stamped. *)
CommitChangeUnstamped(p) ==
    /\ session[p].at = "commitChange"
    /\ user' = [user EXCEPT ![session[p].user].password = @ + 1]
    /\ token' = Revoking(p)
    /\ session' = AfterChange(p)
    /\ UNCHANGED clock

(* The UPDATE of users is flushed with the audit row, right before the     *)
(* commit: of two changes the later commit stands, with its own stamp.     *)
CommitChange(p) ==
    /\ session[p].at = "commitChange"
    /\ user' = [user EXCEPT ![session[p].user].password = @ + 1,
                            ![session[p].user].changedAt = session[p].stamp]
    /\ token' = Revoking(p)
    /\ session' = AfterChange(p)
    /\ UNCHANGED clock

-----------------------------------------------------------------------------
(* logout.                                                                 *)

(* Another user's token is refused; an unknown one changes nothing. *)
FindToken(p) ==
    /\ session[p].at = "findToken"
    /\ \/ EndSession(p)
       \/ /\ \E t \in Issued :
               /\ token[t].user = session[p].user
               /\ session' = [session EXCEPT ![p].at = "revokeOne",
                                             ![p].given = t]
          /\ UNCHANGED <<user, token, clock>>

(* revoked_at is set whatever it was: the UPDATE is by primary key.  It is *)
(* flushed with the audit row, before the commit: to wait for its lock is  *)
(* to wait to commit.                                                      *)
RevokeOne(p) ==
    /\ session[p].at = "revokeOne"
    /\ ~Locked(p, session[p].given)
    /\ token' = [token EXCEPT ![session[p].given].revoked = TRUE]
    /\ session' = [session EXCEPT ![p] = Idle]
    /\ UNCHANGED <<user, clock>>

-----------------------------------------------------------------------------
(* Everything else that happens.                                           *)

(* update_user_status: no token is touched. *)
SetUserStatus(u) ==
    /\ user' = [user EXCEPT ![u].active = ~@]
    /\ UNCHANGED <<token, clock, session>>

(* The worker or its connection dies: the transaction is rolled back. *)
Dies(p) ==
    /\ session[p].at # "idle"
    /\ EndSession(p)

Tick ==
    /\ clock < LastTick
    /\ clock' = clock + 1
    /\ UNCHANGED <<user, token, session>>

CallStep(p) ==
    \/ FindUser(p) \/ Consume(p) \/ Mint(p) \/ CommitToken(p)
    \/ VerifyPassword(p) \/ RevokeAll(p) \/ CommitChange(p)
    \/ FindToken(p) \/ RevokeOne(p)

AuthNext ==
    \/ \E p \in Workers : \/ Login(p) \/ Refresh(p) \/ Authenticate(p)
                          \/ CallStep(p) \/ Dies(p)
    \/ \E u \in Users : SetUserStatus(u)
    \/ Tick

AuthSpec == AuthInit /\ [][AuthNext]_authVars

-----------------------------------------------------------------------------
(* Properties.                                                             *)

(* Types; a row has at most one uncommitted writer, and an idle session    *)
(* has none.                                                               *)
AuthTypeOK ==
    /\ user \in [Users -> UserType]
    /\ token \in [Tokens -> TokenType \cup {Null}]
    /\ Issued = 1..Cardinality(Issued)
    /\ clock \in Ticks
    /\ session \in [Workers -> SessionType]
    /\ \A p \in Workers :
        /\ session[p].at = "idle" => session[p] = Idle
        /\ session[p].at # "idle" => session[p].user \in Users
        /\ session[p].holds \subseteq Issued
        /\ \A t \in session[p].holds : ~Locked(p, t)

(* A refresh token is single-use: however many refreshes, logouts and      *)
(* password changes meet on it, it is exchanged at most once, and it is    *)
(* revoked by the commit that stores the token it was exchanged for.       *)
SpentOnce ==
    \A t, c \in Issued : token[c].parent = t =>
        /\ token[t].revoked
        /\ \A d \in Issued : token[d].parent = t => d = c

(* A password change ends every chain of refresh tokens opened before it:  *)
(* a good token descends from a login with the password in force, unless   *)
(* its pair was handed out while a change was under way.                   *)
LiveIsCurrent ==
    \A t \in Live : token[t].late \/ token[t].since = user[token[t].user].password

(* An access token of an earlier password is accepted only in the second   *)
(* of the last change: concurrent changes, which may stamp their times in  *)
(* another order than they commit, never let an older one back in.         *)
OldAccessEnds ==
    \A t \in Issued :
        /\ ~token[t].late /\ token[t].since # user[token[t].user].password
        /\ Accepted(t)
        => /\ user[token[t].user].changedAt # Null
           /\ Second(token[t].issued) = Second(user[token[t].user].changedAt)

(* Nobody who has signed in with the password in force is signed out by    *)
(* the change that introduced it, not even within its second.              *)
FreshAccepted ==
    \A t \in Issued :
        LET u == user[token[t].user]
        IN /\ u.active /\ clock <= token[t].issued + AccessLife
           /\ token[t].since = u.password
           => Accepted(t)

(* The rows form chains of single-use tokens. *)
Chains == INSTANCE TokenChain WITH
            live <- [f \in Tokens |-> {t \in Live : token[t].family = f}],
            used <- Issued
ImplementsTokenChain == Chains!ChainSpec
=============================================================================
