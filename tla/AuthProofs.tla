----------------------------- MODULE AuthProofs -----------------------------
(***************************************************************************)
(* Refresh tokens are single-use, the rows implement TokenChain, and no    *)
(* pair outlives its password, for any number of users, workers, tokens    *)
(* and changes.                                                            *)
(***************************************************************************)
EXTENDS AuthSessions, FiniteSetTheorems, TLAPS

(* What a session knows of the rows it works with: those it has locked are *)
(* good, and past the UPDATE of a refresh that is the presented one.       *)
Sound(s) ==
    /\ s.at \in {"findUser", "consume", "revokeOne"} => s.given \in Issued
    /\ s.at \in {"mint", "commitToken"} =>
          s.holds = IF s.given = Null THEN {} ELSE {s.given}
    /\ s.at \notin {"mint", "commitToken", "commitChange"} => s.holds = {}
    /\ s.holds \subseteq Live

(* Every row belongs to the chain of a login, which has one good token.    *)
OneLive ==
    /\ \A t \in Issued : /\ token[t].family \in Issued
                         /\ token[t].parent \in Issued \cup {Null}
    /\ \A t, u \in Live : token[t].family = token[u].family => t = u

(* The inductive invariant behind SpentOnce. *)
ChainInvariant ==
    /\ AuthTypeOK
    /\ \A p \in Workers : Sound(session[p])
    /\ OneLive
    /\ SpentOnce

-----------------------------------------------------------------------------
(* Helpers.                                                                *)

LEMMA NullFacts ==
    /\ Null \notin Users /\ Null \notin Workers /\ Null \notin Tokens
    /\ Null \notin Ticks /\ Null \notin TokenType
BY AuthAssumption, RowAssumption

LEMMA IssuedFinite == IsFiniteSet(Issued) /\ Cardinality(Issued) \in Nat
<1>1. IsFiniteSet(Tokens)
  BY FS_Interval, AuthAssumption DEF Tokens
<1>2. Issued \in SUBSET Tokens
  BY DEF Issued
<1> QED BY <1>1, <1>2, FS_Subset, FS_CardinalityType

(* The next row is new. *)
LEMMA NewTokenNew == ASSUME AuthTypeOK PROVE NewToken \notin Issued
<1>1. Cardinality(Issued) \in Nat /\ Issued = 1..Cardinality(Issued)
  BY IssuedFinite DEF AuthTypeOK
<1> QED BY <1>1 DEF NewToken

LEMMA IdleTyped ==
    /\ Idle \in SessionType /\ Idle.at = "idle" /\ Idle.holds = {}
    /\ Sound(Idle)
<1>1. 0 \in Ticks
  BY AuthAssumption DEF Ticks
<1> QED BY <1>1 DEF Idle, SessionType, Statements, Sound

(* A step in which one session moves on and no row changes.                *)
LEMMA SessionStep ==
    ASSUME ChainInvariant, NEW p \in Workers, NEW s \in SessionType,
           session' = [session EXCEPT ![p] = s], token' = token,
           user' = user, clock' = clock,
           s.at = "idle" => s = Idle, s.at # "idle" => s.user \in Users,
           Sound(s), \A t \in s.holds : ~Locked(p, t)
    PROVE  ChainInvariant'
<1> USE DEF ChainInvariant
<1>1. Issued' = Issued /\ Live' = Live
  BY DEF Issued, Live
<1>2. \A q \in Workers : session'[q] = IF q = p THEN s ELSE session[q]
  BY DEF AuthTypeOK
<1>3. \A q \in Workers : Sound(session[q])'
  BY <1>1, <1>2 DEF Sound
<1>4. OneLive' /\ SpentOnce'
  BY <1>1 DEF OneLive, SpentOnce
<1>5. \A q \in Workers : \A t \in session'[q].holds : ~Locked(q, t)'
  <2> SUFFICES ASSUME NEW q \in Workers, NEW t \in session'[q].holds,
                      NEW r \in Workers \ {q}, t \in session'[r].holds
               PROVE  FALSE
    BY DEF Locked
  <2>1. CASE q = p
    BY <1>2, <2>1 DEF Locked
  <2>2. CASE r = p
    BY <1>2, <2>2 DEF Locked
  <2>3. CASE q # p /\ r # p
    BY <1>2, <2>3 DEF Locked, AuthTypeOK
  <2> QED BY <2>1, <2>2, <2>3
<1>6. session' \in [Workers -> SessionType]
  BY DEF AuthTypeOK
<1>7. s.holds \subseteq Issued
  BY DEF Sound, Live
<1>8. AuthTypeOK'
  BY <1>1, <1>2, <1>5, <1>6, <1>7 DEF AuthTypeOK
<1> QED BY <1>3, <1>4, <1>8

-----------------------------------------------------------------------------
(* Steps that change no row.                                               *)

LEMMA EndSessionKeeps ==
    ASSUME ChainInvariant, NEW p \in Workers, EndSession(p)
    PROVE  ChainInvariant'
BY SessionStep, IdleTyped DEF EndSession

LEMMA StartKeeps ==
    ASSUME ChainInvariant, NEW p \in Workers,
           Login(p) \/ Refresh(p) \/ Authenticate(p)
    PROVE  ChainInvariant'
<1> USE DEF ChainInvariant
<1>1. 0 \in Ticks
  BY AuthAssumption DEF Ticks
<1>2. CASE Login(p)
  <2>1. PICK u \in Users : session' = [session EXCEPT ![p] =
              [Idle EXCEPT !.at = "mint", !.user = u,
                           !.since = user[u].password]]
    BY <1>2 DEF Login
  <2> DEFINE s == [Idle EXCEPT !.at = "mint", !.user = u,
                               !.since = user[u].password]
  <2>2. s \in SessionType
    BY <1>1 DEF Idle, SessionType, Statements, Minting, AuthTypeOK, UserType
  <2>3. s.at = "mint" /\ s.holds = {} /\ s.user = u /\ s.given = Null
    BY DEF Idle
  <2>4. Sound(s)
    BY <2>3 DEF Sound
  <2> QED BY <1>2, <2>1, <2>2, <2>3, <2>4, SessionStep DEF Login
<1>3. CASE Refresh(p)
  <2>1. PICK t \in Live : session' = [session EXCEPT ![p] =
              [Idle EXCEPT !.at = "findUser", !.user = token[t].user,
                           !.given = t, !.since = token[t].since,
                           !.late = token[t].late]]
    BY <1>3 DEF Refresh
  <2> DEFINE s == [Idle EXCEPT !.at = "findUser", !.user = token[t].user,
                               !.given = t, !.since = token[t].since,
                               !.late = token[t].late]
  <2>2. t \in Issued /\ t \in Tokens /\ token[t] \in TokenType
    BY DEF Live, Issued, AuthTypeOK
  <2>3. s \in SessionType
    BY <1>1, <2>2 DEF Idle, SessionType, Statements, Minting, TokenType
  <2>4. s.at = "findUser" /\ s.holds = {} /\ s.user \in Users /\ s.given = t
    BY <2>2 DEF Idle, TokenType
  <2>5. Sound(s)
    BY <2>2, <2>4 DEF Sound
  <2> QED BY <1>3, <2>1, <2>3, <2>4, <2>5, SessionStep DEF Refresh
<1>4. CASE Authenticate(p)
  <2>1. PICK t \in Issued, a \in {"verify", "findToken"} :
           session' = [session EXCEPT ![p] =
              [Idle EXCEPT !.at = a, !.user = token[t].user]]
    BY <1>4 DEF Authenticate
  <2> DEFINE s == [Idle EXCEPT !.at = a, !.user = token[t].user]
  <2>2. token[t] \in TokenType
    BY DEF Issued, AuthTypeOK
  <2>3. s \in SessionType
    BY <1>1, <2>2 DEF Idle, SessionType, Statements, TokenType
  <2>4. s.at = a /\ s.holds = {} /\ s.user \in Users
    BY <2>2 DEF Idle, TokenType
  <2>5. Sound(s)
    BY <2>4 DEF Sound
  <2> QED BY <1>4, <2>1, <2>3, <2>4, <2>5, SessionStep DEF Authenticate
<1> QED BY <1>2, <1>3, <1>4

LEMMA RefreshKeeps ==
    ASSUME ChainInvariant, NEW p \in Workers,
           FindUser(p) \/ Consume(p) \/ Mint(p)
    PROVE  ChainInvariant'
<1> USE DEF ChainInvariant
<1>0. session[p] \in SessionType /\ Sound(session[p])
  BY DEF AuthTypeOK
<1>1. CASE EndSession(p)
  BY <1>1, EndSessionKeeps
<1>2. CASE FindUser(p) /\ ~EndSession(p)
  <2> DEFINE s == [session[p] EXCEPT !.at = "consume"]
  <2>1. session' = [session EXCEPT ![p] = s] /\ session[p].at = "findUser"
    BY <1>2 DEF FindUser, Goto
  <2>2. s \in SessionType /\ s.at = "consume" /\ s.holds = {}
        /\ s.given \in Issued /\ s.user \in Users
    BY <1>0, <2>1 DEF SessionType, Statements, Minting, Sound, AuthTypeOK
  <2>3. Sound(s)
    BY <2>2 DEF Sound
  <2> QED BY <1>2, <2>1, <2>2, <2>3, SessionStep DEF FindUser
<1>3. CASE Consume(p) /\ ~EndSession(p)
  <2> DEFINE t == session[p].given
             s == [session[p] EXCEPT !.at = "mint", !.holds = {t}]
  <2>1. session' = [session EXCEPT ![p] = s] /\ session[p].at = "consume"
        /\ ~Locked(p, t) /\ ~token[t].revoked
    BY <1>3 DEF Consume
  <2>2. t \in Issued /\ t \in Tokens /\ t \in Live /\ t # Null
    BY <1>0, <2>1, NullFacts DEF Sound, Issued, Live
  <2>3. s \in SessionType /\ s.at = "mint" /\ s.holds = {t} /\ s.given = t
        /\ s.user \in Users
    BY <1>0, <2>1, <2>2 DEF SessionType, Statements, Minting, AuthTypeOK
  <2>4. Sound(s)
    BY <2>2, <2>3 DEF Sound
  <2> QED BY <1>3, <2>1, <2>3, <2>4, SessionStep DEF Consume
<1>4. CASE Mint(p)
  <2> DEFINE s == [session[p] EXCEPT !.at = "commitToken", !.stamp = clock]
  <2>1. session' = [session EXCEPT ![p] = s] /\ session[p].at = "mint"
    BY <1>4 DEF Mint
  <2>2. s \in SessionType /\ s.at = "commitToken" /\ s.user \in Users
        /\ s.holds = session[p].holds /\ s.given = session[p].given
    BY <1>0, <2>1 DEF SessionType, Statements, Minting, AuthTypeOK
  <2>3. Sound(s)
    BY <1>0, <2>1, <2>2 DEF Sound
  <2>4. \A t \in s.holds : ~Locked(p, t)
    BY <2>2 DEF AuthTypeOK
  <2> QED BY <1>4, <2>1, <2>2, <2>3, <2>4, SessionStep DEF Mint
<1> QED BY <1>1, <1>2, <1>3, <1>4

LEMMA ChangeKeeps ==
    ASSUME ChainInvariant, NEW p \in Workers,
           VerifyPassword(p) \/ RevokeAll(p) \/ FindToken(p)
    PROVE  ChainInvariant'
<1> USE DEF ChainInvariant
<1>0. session[p] \in SessionType /\ Sound(session[p])
  BY DEF AuthTypeOK
<1>1. CASE EndSession(p)
  BY <1>1, EndSessionKeeps
<1>2. CASE VerifyPassword(p) /\ ~EndSession(p)
  <2> DEFINE s == [session[p] EXCEPT !.at = "revoke", !.stamp = clock,
                                     !.targets = LiveOf(session[p].user)]
  <2>1. session' = [session EXCEPT ![p] = s] /\ session[p].at = "verify"
    BY <1>2 DEF VerifyPassword
  <2>2. LiveOf(session[p].user) \subseteq Tokens
    BY DEF LiveOf, Live, Issued
  <2>3. s \in SessionType /\ s.at = "revoke" /\ s.user \in Users /\ s.holds = {}
    BY <1>0, <2>1, <2>2 DEF SessionType, Statements, Changing, AuthTypeOK, Sound
  <2>4. Sound(s)
    BY <2>3 DEF Sound
  <2> QED BY <1>2, <2>1, <2>3, <2>4, SessionStep DEF VerifyPassword
<1>3. CASE RevokeAll(p)
  <2> DEFINE T == session[p].targets \cap Live
             s == [session[p] EXCEPT !.at = "commitChange", !.holds = T]
  <2>1. session' = [session EXCEPT ![p] = s] /\ session[p].at = "revoke"
        /\ \A t \in session[p].targets : ~Locked(p, t)
    BY <1>3 DEF RevokeAll
  <2>2. T \in SUBSET Tokens
    BY DEF Live, Issued
  <2>3. s \in SessionType /\ s.at = "commitChange" /\ s.holds = T
        /\ s.user \in Users
    BY <1>0, <2>1, <2>2 DEF SessionType, Statements, Changing, AuthTypeOK
  <2>4. Sound(s)
    BY <2>3 DEF Sound
  <2> QED BY <1>3, <2>1, <2>3, <2>4, SessionStep DEF RevokeAll
<1>4. CASE FindToken(p) /\ ~EndSession(p)
  <2>1. PICK t \in Issued :
           session' = [session EXCEPT ![p].at = "revokeOne", ![p].given = t]
    BY <1>4 DEF FindToken
  <2> DEFINE s == [session[p] EXCEPT !.at = "revokeOne", !.given = t]
  <2>2. session' = [session EXCEPT ![p] = s] /\ session[p].at = "findToken"
    BY <1>4, <2>1 DEF FindToken
  <2>3. s \in SessionType /\ s.at = "revokeOne" /\ s.user \in Users
        /\ s.given = t /\ s.holds = {}
    BY <1>0, <2>2 DEF SessionType, Statements, AuthTypeOK, Sound, Issued
  <2>4. Sound(s)
    BY <2>3 DEF Sound
  <2> QED BY <1>4, <2>2, <2>3, <2>4, SessionStep DEF FindToken
<1> QED BY <1>1, <1>2, <1>3, <1>4

-----------------------------------------------------------------------------
(* Steps that write rows.                                                  *)

LEMMA RevokedTyped ==
    ASSUME NEW r \in TokenType
    PROVE  LET s == [r EXCEPT !.revoked = TRUE]
           IN /\ s \in TokenType /\ s.revoked
              /\ s.parent = r.parent /\ s.family = r.family
BY DEF TokenType

LEMMA ChangedTyped ==
    ASSUME NEW r \in UserType, NEW n \in Ticks
    PROVE  [[r EXCEPT !.password = @ + 1] EXCEPT !.changedAt = n] \in UserType
<1>1. [r EXCEPT !.password = r.password + 1] \in UserType
  BY DEF UserType
<1> QED BY <1>1 DEF UserType

(* The rows of T are revoked, and nothing else happens to a row.           *)
LEMMA RevokeRows ==
    ASSUME AuthTypeOK, NEW T \in SUBSET Issued,
           token' = [t \in Tokens |->
                       IF t \in T THEN [token[t] EXCEPT !.revoked = TRUE]
                                  ELSE token[t]]
    PROVE  /\ Issued' = Issued
           /\ Live' = Live \ T
           /\ token' \in [Tokens -> TokenType \cup {Null}]
           /\ \A t \in Issued : /\ token'[t].parent = token[t].parent
                                /\ token'[t].family = token[t].family
                                /\ token[t].revoked => token'[t].revoked
<1>1. \A t \in Issued : t \in Tokens /\ token[t] \in TokenType
  BY DEF Issued, AuthTypeOK
<1>2. \A t \in T : /\ token'[t] \in TokenType /\ token'[t] # Null
                   /\ token'[t].revoked
                   /\ token'[t].parent = token[t].parent
                   /\ token'[t].family = token[t].family
  <2> SUFFICES ASSUME NEW t \in T
               PROVE  /\ token'[t] \in TokenType /\ token'[t] # Null
                      /\ token'[t].revoked
                      /\ token'[t].parent = token[t].parent
                      /\ token'[t].family = token[t].family
    OBVIOUS
  <2>1. token'[t] = [token[t] EXCEPT !.revoked = TRUE]
    BY <1>1
  <2> QED BY <1>1, <2>1, RevokedTyped, NullFacts
<1>3. \A t \in Tokens \ T : token'[t] = token[t]
  OBVIOUS
<1>4. Issued' = Issued
  BY <1>1, <1>2, <1>3 DEF Issued
<1>5. Live' = Live \ T
  BY <1>1, <1>2, <1>3, <1>4 DEF Live
<1>6. token' \in [Tokens -> TokenType \cup {Null}]
  BY <1>1, <1>2, <1>3 DEF AuthTypeOK
<1> QED BY <1>1, <1>2, <1>3, <1>4, <1>5, <1>6

(* p ends, revoking rows T that nobody else has locked; the others at most *)
(* become late.                                                            *)
LEMMA RevokeStep ==
    ASSUME ChainInvariant, NEW p \in Workers, NEW T \in SUBSET Issued,
           \A t \in T : ~Locked(p, t),
           token' = [t \in Tokens |->
                       IF t \in T THEN [token[t] EXCEPT !.revoked = TRUE]
                                  ELSE token[t]],
           user' \in [Users -> UserType], clock' = clock,
           session' \in [Workers -> SessionType], session'[p] = Idle,
           \A q \in Workers \ {p} :
              session'[q] = session[q]
              \/ /\ session[q].at # "idle"
                 /\ session'[q] = [session[q] EXCEPT !.late = TRUE]
    PROVE  ChainInvariant'
<1> USE DEF ChainInvariant
<1>1. /\ Issued' = Issued
      /\ Live' = Live \ T
      /\ token' \in [Tokens -> TokenType \cup {Null}]
      /\ \A t \in Issued : /\ token'[t].parent = token[t].parent
                           /\ token'[t].family = token[t].family
                           /\ token[t].revoked => token'[t].revoked
  BY RevokeRows
<1>2. \A q \in Workers \ {p} :
        /\ session'[q].at = session[q].at /\ session'[q].given = session[q].given
        /\ session'[q].holds = session[q].holds
        /\ session'[q].user = session[q].user
        /\ session[q].at = "idle" => session'[q] = session[q]
  BY DEF AuthTypeOK, SessionType
<1>3. session'[p].holds = {} /\ session'[p].at = "idle"
  BY IdleTyped
<1>4. \A q \in Workers \ {p} : T \cap session[q].holds = {}
  BY DEF Locked
<1>5. ASSUME NEW q \in Workers PROVE Sound(session[q])'
  <2>1. CASE q = p
    BY <1>3, <2>1, IdleTyped DEF Sound
  <2>2. CASE q # p
    BY <1>1, <1>2, <1>4, <2>2 DEF Sound
  <2> QED BY <2>1, <2>2
<1>6. \A q \in Workers : \A t \in session'[q].holds : ~Locked(q, t)'
  BY <1>2, <1>3 DEF Locked, AuthTypeOK
<1>7. AuthTypeOK'
  <2>1. \A q \in Workers : session'[q].holds \subseteq Issued
    BY <1>2, <1>3 DEF AuthTypeOK
  <2>2. \A q \in Workers : /\ session'[q].at = "idle" => session'[q] = Idle
                           /\ session'[q].at # "idle" => session'[q].user \in Users
    BY <1>2, <1>3 DEF AuthTypeOK
  <2> QED BY <1>1, <1>6, <2>1, <2>2 DEF AuthTypeOK
<1>8. OneLive'
  BY <1>1 DEF OneLive, Live
<1>9. SpentOnce'
  BY <1>1 DEF SpentOnce
<1> QED BY <1>5, <1>7, <1>8, <1>9

LEMMA CommitChangeKeeps ==
    ASSUME ChainInvariant, NEW p \in Workers, CommitChange(p)
    PROVE  ChainInvariant'
<1> USE DEF ChainInvariant
<1> DEFINE T == session[p].holds
<1>1. T \in SUBSET Issued /\ \A t \in T : ~Locked(p, t)
  BY DEF AuthTypeOK
<1>2. session[p] \in SessionType /\ session[p].user \in Users
  BY DEF CommitChange, AuthTypeOK
<1>3. user' \in [Users -> UserType]
  <2> DEFINE u == session[p].user
             row == [[user[u] EXCEPT !.password = @ + 1]
                       EXCEPT !.changedAt = session[p].stamp]
  <2>1. user[u] \in UserType /\ session[p].stamp \in Ticks
    BY <1>2 DEF AuthTypeOK, SessionType
  <2>2. row \in UserType
    BY <2>1, ChangedTyped
  <2>3. user' = [user EXCEPT ![u] = row]
    BY <1>2 DEF CommitChange, AuthTypeOK
  <2> QED BY <1>2, <2>2, <2>3 DEF AuthTypeOK
<1>4. /\ session'[p] = Idle
      /\ session' \in [Workers -> SessionType]
      /\ \A q \in Workers \ {p} :
            session'[q] = session[q]
            \/ /\ session[q].at # "idle"
               /\ session'[q] = [session[q] EXCEPT !.late = TRUE]
  <2>1. session'[p] = Idle
    BY DEF CommitChange, AfterChange
  <2>2. ASSUME NEW q \in Workers \ {p}
        PROVE  session'[q] = session[q]
               \/ /\ session[q].at # "idle"
                  /\ session'[q] = [session[q] EXCEPT !.late = TRUE]
    BY DEF CommitChange, AfterChange, Minting
  <2>3. \A q \in Workers : session'[q] \in SessionType
    <3> SUFFICES ASSUME NEW q \in Workers PROVE session'[q] \in SessionType
      OBVIOUS
    <3>1. session[q] \in SessionType
      BY DEF AuthTypeOK
    <3>2. [session[q] EXCEPT !.late = TRUE] \in SessionType
      BY <3>1 DEF SessionType
    <3> QED BY <2>1, <2>2, <3>1, <3>2, IdleTyped
  <2>4. session' = [q \in Workers |-> session'[q]]
    BY DEF CommitChange, AfterChange
  <2> QED BY <2>1, <2>2, <2>3, <2>4
<1>5. token' = [t \in Tokens |->
                       IF t \in T THEN [token[t] EXCEPT !.revoked = TRUE]
                                  ELSE token[t]]
  BY DEF CommitChange, Revoking
<1>6. clock' = clock
  BY DEF CommitChange
<1> HIDE DEF T
<1> QED BY <1>1, <1>3, <1>4, <1>5, <1>6, RevokeStep

LEMMA RevokeOneKeeps ==
    ASSUME ChainInvariant, NEW p \in Workers, RevokeOne(p)
    PROVE  ChainInvariant'
<1> USE DEF ChainInvariant
<1> DEFINE g == session[p].given
<1>1. g \in Issued /\ ~Locked(p, g) /\ g \in Tokens
  BY DEF RevokeOne, Sound, Issued
<1>2. token' = [t \in Tokens |->
                       IF t \in {g} THEN [token[t] EXCEPT !.revoked = TRUE]
                                    ELSE token[t]]
  BY <1>1 DEF RevokeOne, AuthTypeOK
<1>3. /\ session'[p] = Idle
      /\ session' \in [Workers -> SessionType]
      /\ \A q \in Workers \ {p} : session'[q] = session[q]
  BY IdleTyped DEF RevokeOne, AuthTypeOK
<1>4. user' \in [Users -> UserType] /\ clock' = clock
  BY DEF RevokeOne, AuthTypeOK
<1> HIDE DEF g
<1>5. {g} \in SUBSET Issued /\ \A t \in {g} : ~Locked(p, t)
  BY <1>1
<1> QED BY <1>2, <1>3, <1>4, <1>5, RevokeStep

LEMMA RowTyped ==
    ASSUME ChainInvariant, NEW p \in Workers, session[p].at = "commitToken",
           NewToken \in Tokens
    PROVE  /\ Row(p) \in TokenType /\ Row(p) # Null
           /\ ~Row(p).revoked /\ Row(p).parent = session[p].given
           /\ session[p].given \in Tokens =>
                 /\ session[p].given \in Live
                 /\ Row(p).family = token[session[p].given].family
           /\ session[p].given = Null => Row(p).family = NewToken
<1> USE DEF ChainInvariant
<1>1. session[p] \in SessionType /\ session[p].user \in Users
  BY DEF AuthTypeOK
<1>2. session[p].given \in Tokens => session[p].given \in Live
  BY <1>1, NullFacts DEF Sound
<1>3. session[p].given \in Tokens => token[session[p].given].family \in Tokens
  BY <1>2 DEF Live, Issued, AuthTypeOK, TokenType
<1>4. BeingChanged(session[p].user) \in BOOLEAN
  BY DEF BeingChanged
<1>5. Row(p) \in TokenType
  BY <1>1, <1>3, <1>4 DEF Row, TokenType, SessionType
<1> QED BY <1>1, <1>2, <1>5, NullFacts DEF Row

(* The commit that stores a pair: the presented token, if there is one, is *)
(* good until then, and is revoked by it.                                  *)
LEMMA CommitTokenRows ==
    ASSUME ChainInvariant, NEW p \in Workers, CommitToken(p),
           NewToken \in Tokens
    PROVE  LET g == session[p].given IN
           /\ token' \in [Tokens -> TokenType \cup {Null}]
           /\ Issued' = Issued \cup {NewToken}
           /\ Live' = (Live \ {g}) \cup {NewToken}
           /\ token'[NewToken] = Row(p)
           /\ \A t \in Issued : /\ token'[t].parent = token[t].parent
                                /\ token'[t].family = token[t].family
                                /\ token'[t].revoked <=> token[t].revoked \/ t = g
<1> USE DEF ChainInvariant
<1> DEFINE g == session[p].given
<1>1. session[p].at = "commitToken" /\ session[p] \in SessionType
  BY DEF CommitToken, AuthTypeOK
<1>2. session[p].holds = {g} \cap Tokens /\ (g \in Tokens => g \in Live)
  <2>1. g \in Tokens \cup {Null} /\ Sound(session[p])
    BY <1>1 DEF SessionType
  <2>2. CASE g = Null
    BY <1>1, <2>1, <2>2, NullFacts DEF Sound
  <2>3. CASE g \in Tokens
    BY <1>1, <2>1, <2>3, NullFacts DEF Sound
  <2> QED BY <2>1, <2>2, <2>3
<1>3. NewToken \notin Issued
  BY NewTokenNew
<1>4. token'[NewToken] = Row(p) /\ Row(p) \in TokenType /\ Row(p) # Null
      /\ ~Row(p).revoked
  BY <1>1, RowTyped DEF CommitToken, Revoking, AuthTypeOK
<1>5. ASSUME NEW t \in Tokens \ {NewToken}
      PROVE  token'[t] = IF t = g THEN [token[t] EXCEPT !.revoked = TRUE]
                                  ELSE token[t]
  BY <1>2, <1>5 DEF CommitToken, Revoking
<1>6. \A t \in Issued : t \in Tokens \ {NewToken} /\ token[t] \in TokenType
                       /\ token[t] # Null /\ token[t].revoked \in BOOLEAN
  BY <1>3 DEF Issued, AuthTypeOK, TokenType
<1>7. ASSUME NEW t \in Issued
      PROVE  /\ token'[t] \in TokenType
             /\ token'[t].parent = token[t].parent
             /\ token'[t].family = token[t].family
             /\ token'[t].revoked <=> token[t].revoked \/ t = g
  <2>1. CASE t = g
    <3>1. token'[t] = [token[t] EXCEPT !.revoked = TRUE]
      BY <1>5, <1>6, <1>7, <2>1
    <3>2. token[t] \in TokenType
      BY <1>6, <1>7
    <3> QED BY <2>1, <3>1, <3>2, RevokedTyped
  <2>2. CASE t # g
    BY <1>5, <1>6, <1>7, <2>2
  <2> QED BY <2>1, <2>2
<1>8. \A t \in Tokens \ {NewToken} : t \notin Issued => token'[t] = Null
  BY <1>2, <1>5 DEF Issued, Live
<1>9. Issued' = Issued \cup {NewToken}
  BY <1>4, <1>6, <1>7, <1>8, NullFacts DEF Issued
<1>10. Live' = (Live \ {g}) \cup {NewToken}
  <2>1. \A t \in Issued : t \in Live' <=> t \in Live /\ t # g
    BY <1>7, <1>9 DEF Live
  <2>2. NewToken \in Live'
    BY <1>4, <1>9 DEF Live
  <2>3. Live' \subseteq Issued \cup {NewToken} /\ Live \subseteq Issued
    BY <1>9 DEF Live
  <2> QED BY <1>3, <2>1, <2>2, <2>3
<1>11. token' \in [Tokens -> TokenType \cup {Null}]
  <2>1. \A t \in Tokens : token'[t] \in TokenType \cup {Null}
    BY <1>4, <1>7, <1>8
  <2>2. token' = [t \in Tokens |-> token'[t]]
    BY DEF CommitToken, Revoking
  <2> QED BY <2>1, <2>2
<1> QED BY <1>4, <1>7, <1>9, <1>10, <1>11

LEMMA CommitTokenKeeps ==
    ASSUME ChainInvariant, NEW p \in Workers, CommitToken(p)
    PROVE  ChainInvariant'
<1> USE DEF ChainInvariant
<1> DEFINE g == session[p].given
<1>1. /\ session[p].at = "commitToken" /\ session[p] \in SessionType
      /\ session' = [session EXCEPT ![p] = Idle]
      /\ user' = user /\ clock' = clock
  BY DEF CommitToken, AuthTypeOK
<1>2. /\ session[p].holds = {g} \cap Tokens
      /\ session[p].holds \in SUBSET Issued
      /\ \A t \in session[p].holds : ~Locked(p, t)
      /\ g \in Tokens => g \in Live
      /\ g \in Tokens \cup {Null}
  <2>1. g \in Tokens \cup {Null} /\ Sound(session[p])
    BY <1>1 DEF SessionType
  <2>2. CASE g = Null
    BY <1>1, <2>1, <2>2, NullFacts DEF Sound, AuthTypeOK
  <2>3. CASE g \in Tokens
    BY <1>1, <2>1, <2>3, NullFacts DEF Sound, AuthTypeOK
  <2> QED BY <2>1, <2>2, <2>3
<1>3. /\ session'[p] = Idle
      /\ session' \in [Workers -> SessionType]
      /\ \A q \in Workers \ {p} : session'[q] = session[q]
  BY <1>1, IdleTyped DEF AuthTypeOK
<1>4. CASE NewToken \notin Tokens
  <2>1. token' = Revoking(p)
    BY <1>4 DEF CommitToken, Revoking
  <2>2. user' \in [Users -> UserType]
    BY <1>1 DEF AuthTypeOK
  <2> QED BY <1>1, <1>2, <1>3, <2>1, <2>2, RevokeStep DEF Revoking
<1>5. CASE NewToken \in Tokens
  <2>1. /\ token' \in [Tokens -> TokenType \cup {Null}]
        /\ Issued' = Issued \cup {NewToken}
        /\ Live' = (Live \ {g}) \cup {NewToken}
        /\ token'[NewToken] = Row(p)
        /\ \A t \in Issued : /\ token'[t].parent = token[t].parent
                             /\ token'[t].family = token[t].family
                             /\ token'[t].revoked <=> token[t].revoked \/ t = g
    BY <1>5, CommitTokenRows
  <2>2. NewToken \notin Issued
    BY NewTokenNew
  <2>3. Issued' = 1..Cardinality(Issued')
    <3>1. Cardinality(Issued') = Cardinality(Issued) + 1
      BY <2>1, <2>2, IssuedFinite, FS_AddElement
    <3>2. Issued = 1..Cardinality(Issued) /\ Cardinality(Issued) \in Nat
      BY IssuedFinite DEF AuthTypeOK
    <3> QED BY <2>1, <3>1, <3>2 DEF NewToken
  <2>4. \A q \in Workers \ {p} : g \notin session[q].holds
    <3> SUFFICES ASSUME NEW q \in Workers \ {p}, g \in session[q].holds
                 PROVE  FALSE
      OBVIOUS
    <3>1. session[q].holds \subseteq Tokens
      BY DEF AuthTypeOK, SessionType
    <3> QED BY <1>2, <3>1 DEF Locked
  <2>5. ASSUME NEW q \in Workers PROVE Sound(session[q])'
    <3>1. CASE q = p
      BY <1>3, <3>1, IdleTyped DEF Sound, Idle
    <3>2. CASE q # p
      <4>1. session'[q] = session[q] /\ Sound(session[q])
        BY <1>3, <3>2
      <4>2. session[q].holds \subseteq Live'
        BY <2>1, <2>4, <3>2, <4>1 DEF Sound
      <4>3. session[q].given \in Issued => session[q].given \in Issued'
        BY <2>1
      <4> QED BY <4>1, <4>2, <4>3 DEF Sound
    <3> QED BY <3>1, <3>2
  <2>6. \A q \in Workers : \A t \in session'[q].holds : ~Locked(q, t)'
    BY <1>3, IdleTyped DEF Locked, AuthTypeOK
  <2>7. \A q \in Workers :
          /\ session'[q].holds \subseteq Issued'
          /\ session'[q].at = "idle" => session'[q] = Idle
          /\ session'[q].at # "idle" => session'[q].user \in Users
    BY <1>3, <2>1, IdleTyped DEF AuthTypeOK
  <2>8. AuthTypeOK'
    BY <1>1, <1>3, <2>1, <2>3, <2>6, <2>7 DEF AuthTypeOK
  <2>9. /\ Row(p).parent = g
        /\ g \in Tokens => Row(p).family = token[g].family
        /\ g = Null => Row(p).family = NewToken
    BY <1>1, <1>5, RowTyped
  <2>10. OneLive'
    <3>1. Live \subseteq Issued
      BY DEF Live
    <3>2. \A t \in Issued' : /\ token'[t].family \in Issued'
                              /\ token'[t].parent \in Issued' \cup {Null}
      BY <1>2, <2>1, <2>9, <3>1 DEF OneLive
    <3>3. \A t \in Live \ {g} : token'[t].family # Row(p).family
      BY <1>2, <2>1, <2>2, <2>9, <3>1 DEF OneLive
    <3>4. \A t, u \in Live' : token'[t].family = token'[u].family => t = u
      BY <2>1, <3>1, <3>3 DEF OneLive
    <3> QED BY <3>2, <3>4 DEF OneLive
  <2>11. SpentOnce'
    <3> SUFFICES ASSUME NEW t \in Issued', NEW c \in Issued',
                        token'[c].parent = t
                 PROVE  /\ token'[t].revoked
                        /\ \A d \in Issued' : token'[d].parent = t => d = c
      BY DEF SpentOnce
    <3>1. t \in Issued
      BY <1>2, <2>1, <2>2, <2>9, NullFacts DEF OneLive, Issued, Live
    <3>2. CASE t = g
      <4>1. ~token[t].revoked
        BY <1>2, <3>1, <3>2 DEF Live, Issued
      <4>2. \A d \in Issued : token[d].parent # t
        BY <3>1, <4>1 DEF SpentOnce
      <4>3. \A d \in Issued' : token'[d].parent = t => d = NewToken
        BY <2>1, <4>2
      <4> QED BY <2>1, <3>1, <3>2, <4>3
    <3>3. CASE t # g
      <4>1. c \in Issued /\ token[c].parent = t
        BY <2>1, <2>9, <3>3
      <4>2. \A d \in Issued : token[d].parent = t => d = c
        BY <3>1, <4>1 DEF SpentOnce
      <4>3. token[t].revoked
        BY <3>1, <4>1 DEF SpentOnce
      <4> QED BY <2>1, <2>9, <3>1, <3>3, <4>2, <4>3
    <3> QED BY <3>2, <3>3
  <2> QED BY <2>5, <2>8, <2>10, <2>11
<1> QED BY <1>4, <1>5

-----------------------------------------------------------------------------
(* The other steps, and the theorems.                                      *)

LEMMA SurroundingsKeep ==
    ASSUME ChainInvariant,
           \/ UNCHANGED authVars
           \/ Tick
           \/ \E u \in Users : SetUserStatus(u)
    PROVE  ChainInvariant'
<1> USE DEF ChainInvariant
<1>1. token' = token /\ session' = session
  BY DEF authVars, Tick, SetUserStatus
<1>2. Issued' = Issued /\ Live' = Live
  BY <1>1 DEF Issued, Live
<1>3. OneLive' /\ SpentOnce' /\ \A p \in Workers : Sound(session[p])'
  BY <1>1, <1>2 DEF OneLive, SpentOnce, Sound
<1>4. clock' \in Ticks
  <2>1. CASE Tick
    BY <2>1, AuthAssumption DEF Tick, Ticks, AuthTypeOK
  <2>2. CASE clock' = clock
    BY <2>2 DEF AuthTypeOK
  <2> QED BY <2>1, <2>2 DEF authVars, SetUserStatus
<1>5. user' \in [Users -> UserType]
  <2>1. CASE user' = user
    BY <2>1 DEF AuthTypeOK
  <2>2. ASSUME NEW u \in Users, SetUserStatus(u)
        PROVE  user' \in [Users -> UserType]
    <3>1. user[u] \in UserType
      BY DEF AuthTypeOK
    <3>2. [user[u] EXCEPT !.active = ~@] \in UserType
      BY <3>1 DEF UserType
    <3>3. user' = [user EXCEPT ![u] = [user[u] EXCEPT !.active = ~@]]
      BY <2>2 DEF SetUserStatus, AuthTypeOK
    <3> QED BY <3>2, <3>3 DEF AuthTypeOK
  <2> QED BY <2>1, <2>2 DEF authVars, Tick
<1>6. \A p \in Workers : \A t \in session'[p].holds : ~Locked(p, t)'
  BY <1>1 DEF AuthTypeOK, Locked
<1>7. AuthTypeOK'
  BY <1>1, <1>2, <1>4, <1>5, <1>6 DEF AuthTypeOK
<1> QED BY <1>3, <1>7

LEMMA ChainInit0 == AuthInit => ChainInvariant
<1> SUFFICES ASSUME AuthInit PROVE ChainInvariant
  OBVIOUS
<1>1. Issued = {} /\ Live = {}
  BY DEF AuthInit, Issued, Live
<1>2. Issued = 1..Cardinality(Issued)
  BY <1>1, FS_EmptySet
<1>3. user \in [Users -> UserType]
  BY DEF AuthInit, UserType
<1>4. 0 \in Ticks
  BY AuthAssumption DEF Ticks
<1>5. \A p \in Workers : session[p] = Idle
  BY DEF AuthInit
<1>6. AuthTypeOK
  BY <1>1, <1>2, <1>3, <1>4, <1>5, IdleTyped DEF AuthInit, AuthTypeOK, Locked
<1> QED BY <1>1, <1>5, <1>6, IdleTyped DEF ChainInvariant, OneLive, SpentOnce

LEMMA ChainStep == ChainInvariant /\ [AuthNext]_authVars => ChainInvariant'
<1> SUFFICES ASSUME ChainInvariant, [AuthNext]_authVars PROVE ChainInvariant'
  OBVIOUS
<1>1. ASSUME NEW p \in Workers, Dies(p) PROVE ChainInvariant'
  BY <1>1, EndSessionKeeps DEF Dies
<1>2. ASSUME NEW p \in Workers, CallStep(p) PROVE ChainInvariant'
  BY <1>2, RefreshKeeps, ChangeKeeps, CommitTokenKeeps, CommitChangeKeeps,
     RevokeOneKeeps DEF CallStep
<1> QED BY <1>1, <1>2, StartKeeps, SurroundingsKeep DEF AuthNext

LEMMA ChainInvariantHolds == AuthSpec => []ChainInvariant
BY ChainInit0, ChainStep, PTL DEF AuthSpec

(* Rows and sessions keep their types, and no token row has two writers,   *)
(* whatever the number of workers (repositories/oauth.py).                 *)
THEOREM AuthTypeCorrect == AuthSpec => []AuthTypeOK
<1>1. ChainInvariant => AuthTypeOK
  BY DEF ChainInvariant
<1> QED BY <1>1, ChainInvariantHolds, PTL

(* revoke_if_active and the commit of refresh exchange a token at most     *)
(* once (auth_service.py:100-112).                                         *)
THEOREM RefreshSpendsOnce == AuthSpec => []SpentOnce
<1>1. ChainInvariant => SpentOnce
  BY DEF ChainInvariant
<1> QED BY <1>1, ChainInvariantHolds, PTL

(* No login ever has two good refresh tokens at a time.                    *)
THEOREM OneGoodToken == AuthSpec => []OneLive
<1>1. ChainInvariant => OneLive
  BY DEF ChainInvariant
<1> QED BY <1>1, ChainInvariantHolds, PTL

-----------------------------------------------------------------------------
(* The refinement.                                                         *)

(* The good tokens of the chain that the login of f opened. *)
ChainOf(f) == {t \in Live : token[t].family = f}

(* A step that changes no row is a stutter of the chains.                  *)
LEMMA StutterStep ==
    ASSUME token' = token
    PROVE  [Chains!ChainNext]_(Chains!chainVars)
BY DEF Chains!chainVars, Live, Issued

(* Tokens are revoked: the chains they belong to close.                    *)
LEMMA CloseStep ==
    ASSUME ChainInvariant, NEW T \in SUBSET Issued,
           token' = [t \in Tokens |->
                       IF t \in T THEN [token[t] EXCEPT !.revoked = TRUE]
                                  ELSE token[t]]
    PROVE  Chains!ChainNext
<1> USE DEF ChainInvariant
<1> DEFINE F == {f \in Tokens : ChainOf(f) \cap T # {}}
<1>1. /\ Issued' = Issued
      /\ Live' = Live \ T
      /\ \A t \in Issued : token'[t].family = token[t].family
  BY RevokeRows
<1>2. ASSUME NEW f \in Tokens
      PROVE  ChainOf(f)' = IF f \in F THEN {} ELSE ChainOf(f)
  <2>1. ChainOf(f)' = ChainOf(f) \ T
    BY <1>1 DEF ChainOf, Live
  <2>2. \A t, u \in ChainOf(f) : t = u
    BY DEF ChainOf, OneLive
  <2> QED BY <2>1, <2>2
<1>3. PICK G \in SUBSET Tokens : G = F
  OBVIOUS
<1>4. Chains!Close(G)
  BY <1>1, <1>2, <1>3 DEF Chains!Close, ChainOf
<1> QED BY <1>4 DEF Chains!ChainNext

(* A login opens a chain; a refresh spends the good token of its chain.    *)
LEMMA CommitTokenChains ==
    ASSUME ChainInvariant, NEW p \in Workers, CommitToken(p)
    PROVE  Chains!ChainNext
<1> USE DEF ChainInvariant
<1> DEFINE g == session[p].given
<1>1. session[p].at = "commitToken" /\ session[p] \in SessionType
  BY DEF CommitToken, AuthTypeOK
<1>2. CASE NewToken \notin Tokens
  <2>1. session[p].holds \in SUBSET Issued
    BY DEF AuthTypeOK
  <2>2. token' = Revoking(p)
    BY <1>2 DEF CommitToken, Revoking
  <2> QED BY <2>1, <2>2, CloseStep DEF Revoking
<1>3. CASE NewToken \in Tokens
  <2>1. /\ Issued' = Issued \cup {NewToken}
        /\ Live' = (Live \ {g}) \cup {NewToken}
        /\ token'[NewToken] = Row(p)
        /\ \A t \in Issued : token'[t].family = token[t].family
    BY <1>3, CommitTokenRows
  <2>2. NewToken \notin Issued
    BY NewTokenNew
  <2>3. /\ g \in Tokens => g \in Live /\ Row(p).family = token[g].family
        /\ g = Null => Row(p).family = NewToken
    BY <1>1, <1>3, RowTyped
  <2>4. Live \subseteq Issued /\ Issued \subseteq Tokens
    BY DEF Live, Issued
  <2> DEFINE f0 == Row(p).family
  <2>5. g \in Tokens \cup {Null} /\ f0 \in Tokens
    BY <1>1, <1>3, <2>3, <2>4 DEF SessionType, OneLive
  <2>6. \A t \in Live \ {g} : token[t].family # f0
    BY <2>2, <2>3, <2>4, <2>5, NullFacts DEF OneLive
  <2>7. g \in Live => token[g].family = f0
    BY <2>3, <2>4
  <2>8. ASSUME NEW f \in Tokens
        PROVE  ChainOf(f)' = IF f = f0 THEN {NewToken} ELSE ChainOf(f)
    <3>1. ChainOf(f)' = {t \in Live \ {g} : token[t].family = f}
                          \cup (IF f = f0 THEN {NewToken} ELSE {})
      BY <2>1, <2>2, <2>4 DEF ChainOf
    <3> HIDE DEF f0
    <3>2. CASE f = f0
      BY <2>6, <3>1, <3>2
    <3>3. CASE f # f0
      BY <2>7, <3>1, <3>3 DEF ChainOf
    <3> QED BY <3>2, <3>3
  <2> HIDE DEF f0
  <2>9. PICK f, n \in Tokens : f = f0 /\ n = NewToken
    BY <1>3, <2>5
  <2>10. CASE g = Null
    <3>1. f = n
      BY <2>3, <2>9, <2>10 DEF f0
    <3>2. Chains!Open(n)
      BY <2>1, <2>2, <2>8, <2>9, <3>1 DEF Chains!Open, ChainOf
    <3> QED BY <3>2 DEF Chains!ChainNext
  <2>11. CASE g \in Tokens
    <3>1. g \in ChainOf(f)
      BY <2>3, <2>7, <2>9, <2>11 DEF ChainOf
    <3>2. Chains!Rotate(f, n)
      BY <2>1, <2>2, <2>8, <2>9, <3>1 DEF Chains!Rotate, ChainOf
    <3> QED BY <3>2 DEF Chains!ChainNext
  <2> QED BY <2>5, <2>10, <2>11
<1> QED BY <1>2, <1>3

LEMMA AuthStepIsChainStep ==
    ASSUME ChainInvariant, [AuthNext]_authVars
    PROVE  [Chains!ChainNext]_(Chains!chainVars)
<1> USE DEF ChainInvariant
<1>1. ASSUME NEW p \in Workers, CommitChange(p)
      PROVE  Chains!ChainNext
  <2>1. session[p].holds \in SUBSET Issued
    BY DEF AuthTypeOK
  <2>2. token' = Revoking(p)
    BY <1>1 DEF CommitChange
  <2> QED BY <2>1, <2>2, CloseStep DEF Revoking
<1>2. ASSUME NEW p \in Workers, RevokeOne(p)
      PROVE  Chains!ChainNext
  <2> DEFINE g == session[p].given
  <2>1. g \in Issued
    BY <1>2 DEF RevokeOne, Sound
  <2>2. token' = [t \in Tokens |->
                       IF t \in {g} THEN [token[t] EXCEPT !.revoked = TRUE]
                                    ELSE token[t]]
    BY <1>2, <2>1 DEF RevokeOne, AuthTypeOK, Issued
  <2>3. {g} \in SUBSET Issued
    BY <2>1
  <2> HIDE DEF g
  <2> QED BY <2>2, <2>3, CloseStep
<1>3. ASSUME NEW p \in Workers,
             Login(p) \/ Refresh(p) \/ Authenticate(p) \/ Dies(p)
             \/ FindUser(p) \/ Consume(p) \/ Mint(p) \/ VerifyPassword(p)
             \/ RevokeAll(p) \/ FindToken(p)
      PROVE  token' = token
  BY <1>3 DEF Login, Refresh, Authenticate, Dies, FindUser, Consume, Mint,
     VerifyPassword, RevokeAll, FindToken, EndSession
<1>4. ASSUME (\E u \in Users : SetUserStatus(u)) \/ Tick \/ UNCHANGED authVars
      PROVE  token' = token
  BY <1>4 DEF SetUserStatus, Tick, authVars
<1> QED BY <1>1, <1>2, <1>3, <1>4, StutterStep, CommitTokenChains
        DEF AuthNext, CallStep

(* The rows are an implementation of TokenChain (auth_service.py:79-157,   *)
(* repositories/oauth.py).                                                 *)
THEOREM SessionsImplementChains == AuthSpec => ImplementsTokenChain
<1>1. AuthInit => Chains!ChainInit
  BY DEF AuthInit, Chains!ChainInit, Issued, Live
<1>2. ChainInvariant /\ [AuthNext]_authVars
        => [Chains!ChainNext]_(Chains!chainVars)
  BY AuthStepIsChainStep
<1> QED BY <1>1, <1>2, ChainInvariantHolds, PTL
        DEF AuthSpec, ImplementsTokenChain, Chains!ChainSpec

-----------------------------------------------------------------------------
(* Passwords: what a change of the password leaves good, and for how long. *)

(* What the rows tell of the passwords: a good token that did not overlap  *)
(* a change is of the password in force, an older one was issued no later  *)
(* than the last change, and one of the password in force no earlier.      *)
TokenTimely(t) ==
    LET r == token[t]
        u == user[r.user]
    IN /\ r.issued <= clock
       /\ r.since <= u.password
       /\ r.since = u.password /\ u.changedAt # Null => u.changedAt <= r.issued
       /\ ~r.late /\ r.since # u.password
            => u.changedAt # Null /\ r.issued <= u.changedAt
       /\ r.late \/ r.revoked \/ r.since = u.password

(* The pair a session is about to hand out is of the password in force or  *)
(* marked late.                                                            *)
MintTimely(s) ==
    s.at \in Minting =>
       /\ s.since <= user[s.user].password
       /\ s.late \/ s.since = user[s.user].password
       /\ s.at = "commitToken" /\ s.since = user[s.user].password
            /\ user[s.user].changedAt # Null
            => user[s.user].changedAt <= s.stamp

(* A change under way will revoke every good token of its user that is not *)
(* late, and none of those was issued after its stamp.                     *)
ChangeTimely(s) ==
    s.at \in Changing =>
       \A t \in Issued :
          token[t].user = s.user /\ ~token[t].late =>
             /\ token[t].issued <= s.stamp
             /\ \/ token[t].revoked
                \/ t \in IF s.at = "revoke" THEN s.targets ELSE s.holds

PasswordInvariant ==
    /\ ChainInvariant
    /\ \A u \in Users : user[u].changedAt # Null => user[u].changedAt <= clock
    /\ \A t \in Issued : TokenTimely(t)
    /\ \A p \in Workers : /\ session[p].stamp <= clock
                          /\ MintTimely(session[p])
                          /\ ChangeTimely(session[p])

-----------------------------------------------------------------------------
(* Helpers on rows and times.                                              *)

(* The fields of the rows that are compared.                               *)
LEMMA FieldTypes ==
    ASSUME AuthTypeOK
    PROVE  /\ \A t \in Issued : /\ token[t].user \in Users
                                /\ token[t].issued \in Nat
                                /\ token[t].since \in Nat
                                /\ token[t].late \in BOOLEAN
                                /\ token[t].revoked \in BOOLEAN
           /\ \A u \in Users : /\ user[u].password \in Nat
                               /\ user[u].changedAt \in Nat \cup {Null}
           /\ \A p \in Workers : /\ session[p].stamp \in Nat
                                 /\ session[p].since \in Nat
                                 /\ session[p].late \in BOOLEAN
           /\ clock \in Nat
<1>1. Ticks \subseteq Nat
  BY AuthAssumption DEF Ticks
<1>2. \A t \in Issued : token[t] \in TokenType
  BY DEF AuthTypeOK, Issued
<1>3. \A u \in Users : user[u] \in UserType
  BY DEF AuthTypeOK
<1>4. \A p \in Workers : session[p] \in SessionType
  BY DEF AuthTypeOK
<1> QED BY <1>1, <1>2, <1>3, <1>4 DEF TokenType, UserType, SessionType, AuthTypeOK

(* To revoke a row changes nothing else in it.                             *)
LEMMA RevokedRow ==
    ASSUME NEW r \in TokenType
    PROVE  LET s == [r EXCEPT !.revoked = TRUE]
           IN /\ s.user = r.user /\ s.issued = r.issued /\ s.since = r.since
              /\ s.late = r.late /\ s.revoked
BY DEF TokenType

LEMMA IdleTimely ==
    MintTimely(Idle) /\ ChangeTimely(Idle) /\ Idle.stamp = 0
BY DEF Idle, MintTimely, ChangeTimely, Minting, Changing

(* A row that is at most revoked stays timely.                             *)
LEMMA TokenKeeps ==
    ASSUME PasswordInvariant, user' = user, clock' = clock,
           NEW t \in Issued,
           token'[t].user = token[t].user, token'[t].issued = token[t].issued,
           token'[t].since = token[t].since, token'[t].late = token[t].late,
           token[t].revoked => token'[t].revoked
    PROVE  TokenTimely(t)'
BY DEF PasswordInvariant, TokenTimely

(* A step in which one session moves on and no row changes.                *)
LEMMA TimelyStep ==
    ASSUME PasswordInvariant, ChainInvariant', NEW p \in Workers,
           NEW s \in SessionType, session' = [session EXCEPT ![p] = s],
           token' = token, user' = user, clock' = clock,
           s.stamp <= clock, MintTimely(s), ChangeTimely(s)
    PROVE  PasswordInvariant'
<1>1. Issued' = Issued
  BY DEF Issued
<1>2. \A q \in Workers : session'[q] = IF q = p THEN s ELSE session[q]
  BY DEF PasswordInvariant, ChainInvariant, AuthTypeOK
<1>3. \A t \in Issued' : TokenTimely(t)'
  BY <1>1 DEF PasswordInvariant, TokenTimely
<1>4. ASSUME NEW q \in Workers
      PROVE  /\ session'[q].stamp <= clock'
             /\ MintTimely(session[q])' /\ ChangeTimely(session[q])'
  <2>1. PICK x : x = session'[q] /\ x.stamp <= clock
                 /\ MintTimely(x) /\ ChangeTimely(x)
    BY <1>2 DEF PasswordInvariant
  <2> QED BY <1>1, <2>1 DEF MintTimely, ChangeTimely
<1> QED BY <1>3, <1>4 DEF PasswordInvariant

-----------------------------------------------------------------------------
(* Sessions move on, and no row changes.                                   *)

LEMMA EndTimely ==
    ASSUME PasswordInvariant, ChainInvariant', NEW p \in Workers, EndSession(p)
    PROVE  PasswordInvariant'
<1>1. Idle.stamp <= clock
  BY IdleTimely, FieldTypes DEF PasswordInvariant, ChainInvariant
<1> QED BY <1>1, IdleTimely, IdleTyped, TimelyStep DEF EndSession

LEMMA StartTimely ==
    ASSUME PasswordInvariant, ChainInvariant', NEW p \in Workers,
           Login(p) \/ Refresh(p) \/ Authenticate(p)
    PROVE  PasswordInvariant'
<1> USE DEF PasswordInvariant
<1>1. AuthTypeOK /\ clock \in Nat /\ session'[p] \in SessionType
  BY FieldTypes DEF ChainInvariant, AuthTypeOK
<1>2. CASE Login(p)
  <2>1. PICK u \in Users : session' = [session EXCEPT ![p] =
              [Idle EXCEPT !.at = "mint", !.user = u,
                           !.since = user[u].password]]
    BY <1>2 DEF Login
  <2> DEFINE s == [Idle EXCEPT !.at = "mint", !.user = u,
                               !.since = user[u].password]
  <2>2. /\ s.at = "mint" /\ s.user = u /\ s.stamp = 0
        /\ s.since = user[u].password
    BY DEF Idle
  <2>3. MintTimely(s) /\ ChangeTimely(s)
    BY <1>1, <2>2, FieldTypes DEF MintTimely, ChangeTimely, Changing
  <2>4. s = session'[p]
    BY <1>1, <2>1 DEF AuthTypeOK
  <2>5. s \in SessionType /\ s.stamp <= clock
    BY <1>1, <2>1, <2>2, <2>3, <2>4
  <2>6. token' = token /\ user' = user /\ clock' = clock
    BY <1>2 DEF Login
  <2> HIDE DEF s, PasswordInvariant
  <2> QED BY <2>1, <2>2, <2>3, <2>4, <2>5, <2>6, TimelyStep
<1>3. CASE Refresh(p)
  <2>1. PICK t \in Live : session' = [session EXCEPT ![p] =
              [Idle EXCEPT !.at = "findUser", !.user = token[t].user,
                           !.given = t, !.since = token[t].since,
                           !.late = token[t].late]]
    BY <1>3 DEF Refresh
  <2> DEFINE s == [Idle EXCEPT !.at = "findUser", !.user = token[t].user,
                               !.given = t, !.since = token[t].since,
                               !.late = token[t].late]
  <2>2. /\ s.at = "findUser" /\ s.user = token[t].user /\ s.stamp = 0
        /\ s.since = token[t].since /\ s.late = token[t].late
    BY DEF Idle
  <2>3. t \in Issued /\ ~token[t].revoked /\ TokenTimely(t)
    BY DEF Live
  <2>4. MintTimely(s) /\ ChangeTimely(s)
    BY <2>2, <2>3 DEF MintTimely, ChangeTimely, Changing, TokenTimely
  <2>5. s = session'[p]
    BY <1>1, <2>1 DEF AuthTypeOK
  <2>6. s \in SessionType /\ s.stamp <= clock
    BY <1>1, <2>1, <2>2, <2>4, <2>5
  <2>7. token' = token /\ user' = user /\ clock' = clock
    BY <1>3 DEF Refresh
  <2> HIDE DEF s, PasswordInvariant
  <2> QED BY <2>1, <2>2, <2>4, <2>5, <2>6, <2>7, TimelyStep
<1>4. CASE Authenticate(p)
  <2>1. PICK t \in Issued, a \in {"verify", "findToken"} :
           session' = [session EXCEPT ![p] =
              [Idle EXCEPT !.at = a, !.user = token[t].user]]
    BY <1>4 DEF Authenticate
  <2> DEFINE s == [Idle EXCEPT !.at = a, !.user = token[t].user]
  <2>2. s.at = a /\ s.stamp = 0
    BY DEF Idle
  <2>3. MintTimely(s) /\ ChangeTimely(s)
    BY <2>2 DEF MintTimely, ChangeTimely, Minting, Changing
  <2>4. s = session'[p]
    BY <1>1, <2>1 DEF AuthTypeOK
  <2>5. s \in SessionType /\ s.stamp <= clock
    BY <1>1, <2>1, <2>2, <2>3, <2>4
  <2>6. token' = token /\ user' = user /\ clock' = clock
    BY <1>4 DEF Authenticate
  <2> HIDE DEF s, PasswordInvariant
  <2> QED BY <2>1, <2>2, <2>3, <2>4, <2>5, <2>6, TimelyStep
<1> QED BY <1>2, <1>3, <1>4

LEMMA RefreshTimely ==
    ASSUME PasswordInvariant, ChainInvariant', NEW p \in Workers,
           FindUser(p) \/ Consume(p) \/ Mint(p)
    PROVE  PasswordInvariant'
<1> USE DEF PasswordInvariant
<1>0. /\ AuthTypeOK /\ clock \in Nat /\ session'[p] \in SessionType
      /\ session[p] \in SessionType /\ session[p].stamp <= clock
      /\ MintTimely(session[p])
  BY FieldTypes DEF ChainInvariant, AuthTypeOK
<1>1. CASE EndSession(p)
  BY <1>1, EndTimely
<1>2. CASE FindUser(p) /\ ~EndSession(p)
  <2> DEFINE s == [session[p] EXCEPT !.at = "consume"]
  <2>1. session' = [session EXCEPT ![p] = s] /\ session[p].at = "findUser"
    BY <1>2 DEF FindUser, Goto
  <2>2. /\ s.at = "consume" /\ s.user = session[p].user
        /\ s.stamp = session[p].stamp /\ s.since = session[p].since
        /\ s.late = session[p].late
    BY <1>0 DEF SessionType
  <2>3. MintTimely(s) /\ ChangeTimely(s)
    BY <1>0, <2>1, <2>2 DEF MintTimely, ChangeTimely, Minting, Changing
  <2>4. s = session'[p]
    BY <1>0, <2>1 DEF AuthTypeOK
  <2>5. s \in SessionType /\ s.stamp <= clock
    BY <1>0, <2>1, <2>2, <2>3, <2>4
  <2>6. token' = token /\ user' = user /\ clock' = clock
    BY <1>2 DEF FindUser
  <2> HIDE DEF s, PasswordInvariant
  <2> QED BY <2>1, <2>2, <2>3, <2>4, <2>5, <2>6, TimelyStep
<1>3. CASE Consume(p) /\ ~EndSession(p)
  <2> DEFINE s == [session[p] EXCEPT !.at = "mint",
                                     !.holds = {session[p].given}]
  <2>1. session' = [session EXCEPT ![p] = s] /\ session[p].at = "consume"
    BY <1>3 DEF Consume
  <2>2. /\ s.at = "mint" /\ s.user = session[p].user
        /\ s.stamp = session[p].stamp /\ s.since = session[p].since
        /\ s.late = session[p].late
    BY <1>0 DEF SessionType
  <2>3. MintTimely(s) /\ ChangeTimely(s)
    BY <1>0, <2>1, <2>2 DEF MintTimely, ChangeTimely, Minting, Changing
  <2>4. s = session'[p]
    BY <1>0, <2>1 DEF AuthTypeOK
  <2>5. s \in SessionType /\ s.stamp <= clock
    BY <1>0, <2>1, <2>2, <2>3, <2>4
  <2>6. token' = token /\ user' = user /\ clock' = clock
    BY <1>3 DEF Consume
  <2> HIDE DEF s, PasswordInvariant
  <2> QED BY <2>1, <2>2, <2>3, <2>4, <2>5, <2>6, TimelyStep
<1>4. CASE Mint(p)
  <2> DEFINE s == [session[p] EXCEPT !.at = "commitToken", !.stamp = clock]
  <2>1. session' = [session EXCEPT ![p] = s] /\ session[p].at = "mint"
    BY <1>4 DEF Mint
  <2>2. /\ s.at = "commitToken" /\ s.user = session[p].user
        /\ s.stamp = clock /\ s.since = session[p].since
        /\ s.late = session[p].late
    BY <1>0 DEF SessionType
  <2>3. session[p].user \in Users
    BY <1>0, <2>1 DEF AuthTypeOK
  <2>4. MintTimely(s) /\ ChangeTimely(s)
    BY <1>0, <2>1, <2>2, <2>3 DEF MintTimely, ChangeTimely, Minting, Changing
  <2>5. s = session'[p]
    BY <1>0, <2>1 DEF AuthTypeOK
  <2>6. s \in SessionType /\ s.stamp <= clock
    BY <1>0, <2>1, <2>2, <2>4, <2>5
  <2>7. token' = token /\ user' = user /\ clock' = clock
    BY <1>4 DEF Mint
  <2> HIDE DEF s, PasswordInvariant
  <2> QED BY <2>1, <2>2, <2>4, <2>5, <2>6, <2>7, TimelyStep
<1> QED BY <1>1, <1>2, <1>3, <1>4

LEMMA ChangeStepTimely ==
    ASSUME PasswordInvariant, ChainInvariant', NEW p \in Workers,
           VerifyPassword(p) \/ RevokeAll(p) \/ FindToken(p)
    PROVE  PasswordInvariant'
<1> USE DEF PasswordInvariant
<1>0. /\ AuthTypeOK /\ clock \in Nat /\ session'[p] \in SessionType
      /\ session[p] \in SessionType /\ session[p].stamp <= clock
      /\ ChangeTimely(session[p])
  BY FieldTypes DEF ChainInvariant, AuthTypeOK
<1>1. CASE EndSession(p)
  BY <1>1, EndTimely
<1>2. CASE VerifyPassword(p) /\ ~EndSession(p)
  <2> DEFINE s == [session[p] EXCEPT !.at = "revoke", !.stamp = clock,
                                     !.targets = LiveOf(session[p].user)]
  <2>1. session' = [session EXCEPT ![p] = s]
    BY <1>2 DEF VerifyPassword
  <2>2. /\ s.at = "revoke" /\ s.user = session[p].user /\ s.stamp = clock
        /\ s.targets = LiveOf(session[p].user)
    BY <1>0 DEF SessionType
  <2>3. \A t \in Issued : token[t].issued <= clock
    BY DEF TokenTimely
  <2>4. MintTimely(s)
    BY <2>2 DEF MintTimely, Minting
  <2>5. ChangeTimely(s)
    BY <2>2, <2>3 DEF ChangeTimely, LiveOf, Live
  <2>6. s = session'[p]
    BY <1>0, <2>1 DEF AuthTypeOK
  <2>7. s \in SessionType /\ s.stamp <= clock
    BY <1>0, <2>1, <2>2, <2>4, <2>5, <2>6
  <2>8. token' = token /\ user' = user /\ clock' = clock
    BY <1>2 DEF VerifyPassword
  <2> HIDE DEF s, PasswordInvariant
  <2> QED BY <2>1, <2>2, <2>4, <2>5, <2>6, <2>7, <2>8, TimelyStep
<1>3. CASE RevokeAll(p)
  <2> DEFINE s == [session[p] EXCEPT !.at = "commitChange",
                                     !.holds = session[p].targets \cap Live]
  <2>1. session' = [session EXCEPT ![p] = s] /\ session[p].at = "revoke"
    BY <1>3 DEF RevokeAll
  <2>2. /\ s.at = "commitChange" /\ s.user = session[p].user
        /\ s.stamp = session[p].stamp
        /\ s.holds = session[p].targets \cap Live
    BY <1>0 DEF SessionType
  <2>3. MintTimely(s)
    BY <2>2 DEF MintTimely, Minting
  <2>4. ChangeTimely(s)
    BY <1>0, <2>1, <2>2 DEF ChangeTimely, Changing, Live
  <2>5. s = session'[p]
    BY <1>0, <2>1 DEF AuthTypeOK
  <2>6. s \in SessionType /\ s.stamp <= clock
    BY <1>0, <2>1, <2>2, <2>3, <2>4, <2>5
  <2>7. token' = token /\ user' = user /\ clock' = clock
    BY <1>3 DEF RevokeAll
  <2> HIDE DEF s, PasswordInvariant
  <2> QED BY <2>1, <2>2, <2>3, <2>4, <2>5, <2>6, <2>7, TimelyStep
<1>4. CASE FindToken(p) /\ ~EndSession(p)
  <2>1. PICK t \in Issued :
           session' = [session EXCEPT ![p].at = "revokeOne", ![p].given = t]
    BY <1>4 DEF FindToken
  <2> DEFINE s == [session[p] EXCEPT !.at = "revokeOne", !.given = t]
  <2>2. session' = [session EXCEPT ![p] = s]
    BY <2>1
  <2>3. s.at = "revokeOne" /\ s.stamp = session[p].stamp
    BY <1>0 DEF SessionType
  <2>4. MintTimely(s) /\ ChangeTimely(s)
    BY <2>3 DEF MintTimely, ChangeTimely, Minting, Changing
  <2>5. s = session'[p]
    BY <1>0, <2>2 DEF AuthTypeOK
  <2>6. s \in SessionType /\ s.stamp <= clock
    BY <1>0, <2>2, <2>3, <2>4, <2>5
  <2>7. token' = token /\ user' = user /\ clock' = clock
    BY <1>4 DEF FindToken
  <2> HIDE DEF s, PasswordInvariant
  <2> QED BY <2>2, <2>3, <2>4, <2>5, <2>6, <2>7, TimelyStep
<1> QED BY <1>1, <1>2, <1>3, <1>4

-----------------------------------------------------------------------------
(* Rows are written.                                                       *)

(* p ends, and rows are revoked or added: an added row is timely, and late *)
(* if somebody else is changing its user's password.                       *)
LEMMA TimelyRows ==
    ASSUME PasswordInvariant, ChainInvariant', NEW p \in Workers,
           session' = [session EXCEPT ![p] = Idle], user' = user, clock' = clock,
           \A t \in Issued :
              /\ t \in Issued'
              /\ token'[t].user = token[t].user
              /\ token'[t].issued = token[t].issued
              /\ token'[t].since = token[t].since
              /\ token'[t].late = token[t].late
              /\ token[t].revoked => token'[t].revoked,
           \A t \in Issued' \ Issued :
              /\ TokenTimely(t)'
              /\ \A q \in Workers \ {p} :
                    session[q].at \in Changing /\ session[q].user = token'[t].user
                    => token'[t].late
    PROVE  PasswordInvariant'
<1>1. \A q \in Workers : session'[q] = IF q = p THEN Idle ELSE session[q]
  BY DEF PasswordInvariant, ChainInvariant, AuthTypeOK
<1>2. ASSUME NEW t \in Issued' PROVE TokenTimely(t)'
  <2>1. CASE t \in Issued
    BY <2>1, TokenKeeps
  <2>2. CASE t \notin Issued
    BY <2>2
  <2> QED BY <2>1, <2>2
<1>3. ASSUME NEW q \in Workers
      PROVE  /\ session'[q].stamp <= clock'
             /\ MintTimely(session[q])' /\ ChangeTimely(session[q])'
  <2>1. CASE q = p
    <3>1. PICK x : x = session'[q] /\ x = Idle
      BY <1>1, <2>1
    <3>2. 0 <= clock
      BY FieldTypes DEF PasswordInvariant, ChainInvariant
    <3>3. x.stamp = 0 /\ x.at = "idle"
      BY <3>1 DEF Idle
    <3> QED BY <3>1, <3>2, <3>3 DEF MintTimely, ChangeTimely, Minting, Changing
  <2>2. CASE q # p
    <3>1. PICK x : x = session'[q] /\ x = session[q]
      BY <1>1, <2>2
    <3>2. x.stamp <= clock /\ MintTimely(x) /\ ChangeTimely(x)
      BY <3>1 DEF PasswordInvariant
    <3>3. MintTimely(x)'
      BY <3>2 DEF MintTimely
    <3>4. ASSUME x.at \in Changing, NEW t \in Issued',
                 token'[t].user = x.user, ~token'[t].late
          PROVE  /\ token'[t].issued <= x.stamp
                 /\ \/ token'[t].revoked
                    \/ t \in IF x.at = "revoke" THEN x.targets ELSE x.holds
      <4>1. t \in Issued
        BY <2>2, <3>1, <3>4
      <4> QED BY <3>2, <3>4, <4>1 DEF ChangeTimely
    <3>5. ChangeTimely(x)'
      BY <3>4 DEF ChangeTimely
    <3> QED BY <3>1, <3>2, <3>3, <3>5
  <2> QED BY <2>1, <2>2
<1>4. \A u \in Users : user'[u].changedAt # Null => user'[u].changedAt <= clock'
  BY DEF PasswordInvariant
<1> QED BY <1>2, <1>3, <1>4 DEF PasswordInvariant

LEMMA RevokeOneTimely ==
    ASSUME PasswordInvariant, ChainInvariant', NEW p \in Workers, RevokeOne(p)
    PROVE  PasswordInvariant'
<1> DEFINE g == session[p].given
<1>1. AuthTypeOK /\ Sound(session[p])
  BY DEF PasswordInvariant, ChainInvariant
<1>2. /\ token' = [token EXCEPT ![g].revoked = TRUE]
      /\ session' = [session EXCEPT ![p] = Idle]
      /\ user' = user /\ clock' = clock /\ g \in Issued
  BY <1>1 DEF RevokeOne, Sound
<1>3. ASSUME NEW t \in Issued
      PROVE  /\ token'[t] \in TokenType /\ token'[t] # Null
             /\ token'[t].user = token[t].user
             /\ token'[t].issued = token[t].issued
             /\ token'[t].since = token[t].since
             /\ token'[t].late = token[t].late
             /\ token[t].revoked => token'[t].revoked
  <2>1. token[t] \in TokenType /\ t \in Tokens /\ g \in Tokens
    BY <1>1, <1>2 DEF AuthTypeOK, Issued
  <2>2. token'[t] = IF t = g THEN [token[t] EXCEPT !.revoked = TRUE] ELSE token[t]
    BY <1>1, <1>2, <2>1 DEF AuthTypeOK
  <2>3. CASE t = g
    BY <2>1, <2>2, <2>3, RevokedRow, RevokedTyped, NullFacts
  <2>4. CASE t # g
    BY <2>1, <2>2, <2>4, NullFacts
  <2> QED BY <2>3, <2>4
<1>4. Issued' = Issued
  <2>1. \A t \in Tokens \ Issued : token'[t] = token[t]
    BY <1>1, <1>2 DEF AuthTypeOK
  <2> QED BY <1>3, <2>1 DEF Issued
<1> HIDE DEF g
<1> QED BY <1>2, <1>3, <1>4, TimelyRows

(* A stored pair was asked for by one who had the password in force, or    *)
(* is marked.                                                              *)
LEMMA CommitTokenTimely ==
    ASSUME PasswordInvariant, ChainInvariant', NEW p \in Workers, CommitToken(p)
    PROVE  PasswordInvariant'
<1>1. AuthTypeOK /\ ChainInvariant /\ session[p].holds \subseteq Issued
      /\ MintTimely(session[p]) /\ session[p].stamp <= clock
  BY DEF PasswordInvariant, ChainInvariant, AuthTypeOK
<1>2. /\ session' = [session EXCEPT ![p] = Idle]
      /\ user' = user /\ clock' = clock /\ session[p].at = "commitToken"
      /\ token' = [Revoking(p) EXCEPT ![NewToken] = Row(p)]
  BY DEF CommitToken
<1>3. NewToken \notin Issued
  BY <1>1, NewTokenNew
<1>4. ASSUME NEW t \in Issued
      PROVE  /\ token'[t] \in TokenType /\ token'[t] # Null
             /\ token'[t].user = token[t].user
             /\ token'[t].issued = token[t].issued
             /\ token'[t].since = token[t].since
             /\ token'[t].late = token[t].late
             /\ token[t].revoked => token'[t].revoked
  <2>1. token[t] \in TokenType /\ t \in Tokens /\ t # NewToken
    BY <1>1, <1>3 DEF AuthTypeOK, Issued
  <2>2. token'[t] = IF t \in session[p].holds
                    THEN [token[t] EXCEPT !.revoked = TRUE] ELSE token[t]
    BY <1>2, <2>1 DEF Revoking
  <2>3. CASE t \in session[p].holds
    BY <2>1, <2>2, <2>3, RevokedRow, RevokedTyped, NullFacts
  <2>4. CASE t \notin session[p].holds
    BY <2>1, <2>2, <2>4, NullFacts
  <2> QED BY <2>3, <2>4
<1>5. \A t \in Issued : t \in Issued'
  BY <1>4 DEF Issued
<1>6. ASSUME NEW t \in Issued' \ Issued
      PROVE  /\ TokenTimely(t)'
             /\ \A q \in Workers \ {p} :
                   session[q].at \in Changing /\ session[q].user = token'[t].user
                   => token'[t].late
  <2>1. t \in Tokens /\ token'[t] # Null /\ token[t] = Null
    BY DEF Issued
  <2>2. t = NewToken
    BY <1>1, <1>2, <2>1 DEF Revoking
  <2>3. token'[t] = Row(p)
    BY <1>2, <2>1, <2>2 DEF Revoking
  <2>4. PICK r : r = Row(p)
    OBVIOUS
  <2>5. /\ r.user = session[p].user /\ r.issued = session[p].stamp
        /\ r.since = session[p].since /\ ~r.revoked
        /\ r.late = (session[p].late \/ BeingChanged(session[p].user))
    BY <2>4 DEF Row
  <2>6. token'[t] = r
    BY <2>3, <2>4
  <2>7. session[p].late => r.late
    BY <2>5
  <2>8. /\ r.issued <= clock
        /\ r.since <= user[r.user].password
        /\ r.since = user[r.user].password /\ user[r.user].changedAt # Null
             => user[r.user].changedAt <= r.issued
        /\ r.late \/ r.since = user[r.user].password
    BY <1>1, <1>2, <2>5, <2>7 DEF MintTimely, Minting
  <2>9. TokenTimely(t)'
    BY <1>2, <2>6, <2>8 DEF TokenTimely
  <2>10. ASSUME NEW q \in Workers \ {p}, session[q].at \in Changing,
                session[q].user = r.user
         PROVE  r.late
    BY <2>5, <2>10 DEF BeingChanged
  <2> QED BY <2>6, <2>9, <2>10
<1> QED BY <1>2, <1>4, <1>5, <1>6, TimelyRows

(* The change of a password leaves its user no good token that is not late,*)
(* and stamps a time before which all of them were issued.                 *)
LEMMA CommitChangeTimely ==
    ASSUME PasswordInvariant, ChainInvariant', NEW p \in Workers, CommitChange(p)
    PROVE  PasswordInvariant'
<1> DEFINE u0 == session[p].user
<1>1. /\ AuthTypeOK /\ session[p].holds \subseteq Issued
      /\ ChangeTimely(session[p]) /\ session[p].stamp <= clock
      /\ session[p].stamp \in Ticks /\ Null \notin Ticks /\ clock \in Nat
      /\ u0 \in Users /\ session[p].at = "commitChange"
  BY NullFacts, FieldTypes
  DEF PasswordInvariant, ChainInvariant, AuthTypeOK, SessionType, CommitChange
<1>2. /\ token' = Revoking(p) /\ session' = AfterChange(p) /\ clock' = clock
      /\ user' = [user EXCEPT ![u0].password = @ + 1,
                              ![u0].changedAt = session[p].stamp]
  BY DEF CommitChange
<1>3. ASSUME NEW u \in Users
      PROVE  /\ u # u0 => user'[u] = user[u]
             /\ u = u0 => /\ user'[u].password = user[u].password + 1
                          /\ user'[u].changedAt = session[p].stamp
  <2>1. user[u] \in UserType
    BY <1>1 DEF AuthTypeOK
  <2> QED BY <1>1, <1>2, <2>1 DEF AuthTypeOK, UserType
<1>4. ASSUME NEW t \in Issued
      PROVE  /\ token'[t] \in TokenType /\ token'[t] # Null
             /\ token'[t].user = token[t].user
             /\ token'[t].issued = token[t].issued
             /\ token'[t].since = token[t].since
             /\ token'[t].late = token[t].late
             /\ token[t].revoked \/ t \in session[p].holds => token'[t].revoked
  <2>1. token[t] \in TokenType /\ t \in Tokens
    BY <1>1 DEF AuthTypeOK, Issued
  <2>2. token'[t] = IF t \in session[p].holds
                    THEN [token[t] EXCEPT !.revoked = TRUE] ELSE token[t]
    BY <1>2, <2>1 DEF Revoking
  <2>3. CASE t \in session[p].holds
    BY <2>1, <2>2, <2>3, RevokedRow, RevokedTyped, NullFacts
  <2>4. CASE t \notin session[p].holds
    BY <2>1, <2>2, <2>4, NullFacts
  <2> QED BY <2>3, <2>4
<1>5. Issued' = Issued
  <2>1. \A t \in Tokens \ Issued : token'[t] = token[t]
    BY <1>1, <1>2 DEF Revoking
  <2> QED BY <1>4, <2>1 DEF Issued
<1>6. ASSUME NEW t \in Issued' PROVE TokenTimely(t)'
  <2>1. t \in Issued /\ TokenTimely(t)
    BY <1>5 DEF PasswordInvariant
  <2>2. PICK r, u : r = token'[t] /\ u = token[t].user /\ r.user = u /\ u \in Users
    BY <1>1, <1>4, <2>1, FieldTypes
  <2>3. /\ r.issued = token[t].issued /\ r.since = token[t].since
        /\ r.late = token[t].late
        /\ token[t].revoked => r.revoked
        /\ t \in session[p].holds => r.revoked
        /\ r.issued \in Nat /\ r.since \in Nat /\ user[u].password \in Nat
    BY <1>1, <1>4, <2>1, <2>2, FieldTypes
  <2>4. CASE u # u0
    <3>1. user'[u] = user[u]
      BY <1>3, <2>2, <2>4
    <3> QED BY <1>2, <2>1, <2>2, <2>3, <3>1 DEF TokenTimely
  <2>5. CASE u = u0
    <3>1. ~r.late => r.issued <= session[p].stamp /\ r.revoked
      BY <1>1, <2>1, <2>2, <2>3, <2>5 DEF ChangeTimely, Changing
    <3>2. user'[u].password = user[u].password + 1
          /\ user'[u].changedAt = session[p].stamp
      BY <1>3, <2>2, <2>5
    <3>3. r.issued <= clock /\ r.since <= user[u].password
      BY <2>1, <2>2, <2>3 DEF TokenTimely
    <3>4. r.since < user'[u].password
      BY <2>3, <3>2, <3>3
    <3>5. r.since # user'[u].password /\ r.since <= user'[u].password
      BY <2>3, <3>2, <3>3
    <3> QED BY <1>1, <1>2, <2>2, <3>1, <3>2, <3>3, <3>5 DEF TokenTimely
  <2> QED BY <2>4, <2>5
<1>7. ASSUME NEW q \in Workers
      PROVE  /\ session'[q].stamp <= clock'
             /\ MintTimely(session[q])' /\ ChangeTimely(session[q])'
  <2>1. CASE q = p
    <3>1. PICK x : x = session'[q] /\ x = Idle
      BY <1>2, <2>1 DEF AfterChange
    <3>2. x.stamp = 0 /\ x.at = "idle"
      BY <3>1 DEF Idle
    <3> QED BY <1>1, <1>2, <3>1, <3>2
            DEF MintTimely, ChangeTimely, Minting, Changing
  <2>2. CASE q # p
    <3>1. PICK y : y = session[q] /\ y \in SessionType
      BY <1>1 DEF AuthTypeOK
    <3>2. PICK x : x = session'[q]
                   /\ x = IF y.at \in Minting /\ y.user = u0
                          THEN [y EXCEPT !.late = TRUE] ELSE y
      BY <1>2, <2>2, <3>1 DEF AfterChange
    <3>3. /\ x.stamp = y.stamp /\ x.at = y.at /\ x.user = y.user
          /\ x.since = y.since /\ x.targets = y.targets /\ x.holds = y.holds
          /\ y.at \in Minting /\ y.user = u0 => x.late
          /\ ~(y.at \in Minting /\ y.user = u0) => x = y
      BY <3>1, <3>2 DEF SessionType
    <3>4. y.stamp <= clock /\ MintTimely(y) /\ ChangeTimely(y)
      BY <3>1 DEF PasswordInvariant
    <3>5. ChangeTimely(x)'
      BY <1>4, <1>5, <3>3, <3>4 DEF ChangeTimely
    <3>6. MintTimely(x)'
      <4>1. CASE x.at \in Minting /\ x.user = u0
        <5>1. y.since <= user[u0].password
          BY <3>3, <3>4, <4>1 DEF MintTimely
        <5>2. y.since \in Nat /\ user[u0].password \in Nat
          BY <1>1, <3>1, FieldTypes
        <5>3. user'[u0].password = user[u0].password + 1
          BY <1>1, <1>3
        <5>4. x.since <= user'[u0].password /\ x.since # user'[u0].password
          BY <3>3, <5>1, <5>2, <5>3
        <5>5. x.late
          BY <3>3, <4>1
        <5> QED BY <4>1, <5>4, <5>5 DEF MintTimely
      <4>2. CASE x.at \in Minting /\ x.user # u0
        <5>1. x = y /\ x.user \in Users
          BY <1>1, <3>1, <3>3, <4>2 DEF AuthTypeOK, Minting
        <5>2. user'[x.user] = user[x.user]
          BY <1>3, <4>2, <5>1
        <5> QED BY <3>4, <5>1, <5>2 DEF MintTimely
      <4>3. CASE x.at \notin Minting
        BY <4>3 DEF MintTimely
      <4> QED BY <4>1, <4>2, <4>3
    <3> QED BY <1>2, <3>2, <3>3, <3>4, <3>5, <3>6
  <2> QED BY <2>1, <2>2
<1>8. ASSUME NEW u \in Users, user'[u].changedAt # Null
      PROVE  user'[u].changedAt <= clock'
  BY <1>1, <1>2, <1>3, <1>8 DEF PasswordInvariant
<1> QED BY <1>6, <1>7, <1>8 DEF PasswordInvariant

LEMMA SurroundingsTimely ==
    ASSUME PasswordInvariant, ChainInvariant',
           \/ UNCHANGED authVars
           \/ Tick
           \/ \E u \in Users : SetUserStatus(u)
    PROVE  PasswordInvariant'
<1>1. token' = token /\ session' = session
  BY DEF authVars, Tick, SetUserStatus
<1>2. Issued' = Issued
  BY <1>1 DEF Issued
<1>3. AuthTypeOK
  BY DEF PasswordInvariant, ChainInvariant
<1>4. clock' \in Nat /\ clock \in Nat /\ clock <= clock'
  BY <1>3, FieldTypes DEF authVars, Tick, SetUserStatus
<1>5. ASSUME NEW u \in Users
      PROVE  /\ user'[u].password = user[u].password
             /\ user'[u].changedAt = user[u].changedAt
  <2>1. user[u] \in UserType
    BY <1>3 DEF AuthTypeOK
  <2>2. ASSUME NEW v \in Users, SetUserStatus(v)
        PROVE  user'[u] = IF u = v THEN [user[u] EXCEPT !.active = ~@] ELSE user[u]
    BY <1>3, <2>2 DEF SetUserStatus, AuthTypeOK
  <2> QED BY <2>1, <2>2 DEF UserType, authVars, Tick
<1>6. ASSUME NEW t \in Issued' PROVE TokenTimely(t)'
  <2>1. t \in Issued /\ TokenTimely(t) /\ token[t].user \in Users
        /\ token[t].issued \in Nat
    BY <1>2, <1>3, FieldTypes DEF PasswordInvariant
  <2> QED BY <1>1, <1>4, <1>5, <2>1 DEF TokenTimely
<1>7. ASSUME NEW q \in Workers
      PROVE  /\ session'[q].stamp <= clock'
             /\ MintTimely(session[q])' /\ ChangeTimely(session[q])'
  <2>1. PICK x : x = session[q]
    OBVIOUS
  <2>2. /\ x.stamp <= clock /\ MintTimely(x) /\ ChangeTimely(x)
        /\ x.stamp \in Nat
        /\ x.at \in Minting => x.user \in Users
    BY <1>3, <2>1, FieldTypes DEF PasswordInvariant, AuthTypeOK, Minting
  <2>3. MintTimely(x)'
    BY <1>5, <2>2 DEF MintTimely
  <2>4. ChangeTimely(x)'
    BY <1>1, <1>2, <2>2 DEF ChangeTimely
  <2>5. x.stamp <= clock'
    BY <1>4, <2>2
  <2> QED BY <1>1, <2>1, <2>3, <2>4, <2>5
<1>8. ASSUME NEW u \in Users, user'[u].changedAt # Null
      PROVE  user'[u].changedAt <= clock'
  <2>1. user[u].changedAt \in Nat /\ user[u].changedAt <= clock
    BY <1>3, <1>5, <1>8, FieldTypes DEF PasswordInvariant
  <2> QED BY <1>4, <1>5, <2>1
<1> QED BY <1>6, <1>7, <1>8 DEF PasswordInvariant

-----------------------------------------------------------------------------
(* The theorems on passwords.                                              *)

LEMMA PasswordInit == AuthInit => PasswordInvariant
<1> SUFFICES ASSUME AuthInit PROVE PasswordInvariant
  OBVIOUS
<1>1. ChainInvariant /\ Issued = {}
  BY ChainInit0 DEF AuthInit, Issued
<1>2. \A p \in Workers : session[p] = Idle
  BY DEF AuthInit
<1>3. \A u \in Users : user[u].changedAt = Null
  BY DEF AuthInit
<1>4. clock = 0
  BY DEF AuthInit
<1> QED BY <1>1, <1>2, <1>3, <1>4, IdleTimely DEF PasswordInvariant

LEMMA PasswordStep ==
    PasswordInvariant /\ [AuthNext]_authVars => PasswordInvariant'
<1> SUFFICES ASSUME PasswordInvariant, [AuthNext]_authVars
             PROVE  PasswordInvariant'
  OBVIOUS
<1>1. ChainInvariant'
  BY ChainStep DEF PasswordInvariant
<1>2. ASSUME NEW p \in Workers, Dies(p) PROVE PasswordInvariant'
  BY <1>1, <1>2, EndTimely DEF Dies
<1>3. ASSUME NEW p \in Workers, CallStep(p) PROVE PasswordInvariant'
  BY <1>1, <1>3, RefreshTimely, ChangeStepTimely, CommitTokenTimely,
     CommitChangeTimely, RevokeOneTimely DEF CallStep
<1> QED BY <1>1, <1>2, <1>3, StartTimely, SurroundingsTimely DEF AuthNext

(* What sessions know of the password they act under is inductive.         *)
THEOREM PasswordInvariance == AuthSpec => []PasswordInvariant
BY PasswordInit, PasswordStep, PTL DEF AuthSpec

(* The second of a later time is no earlier one.                           *)
LEMMA SecondsAdvance ==
    ASSUME NEW a \in Nat, NEW b \in Nat, a <= b
    PROVE  Second(a) <= Second(b)
<1>1. SecondTicks \in Nat \ {0}
  BY AuthAssumption
<1> QED BY <1>1 DEF Second

(* change_password ends every chain of refresh tokens of the password it   *)
(* replaces (auth_service.py:159-192).                                     *)
THEOREM OldChainsEnd == AuthSpec => []LiveIsCurrent
<1>1. PasswordInvariant => LiveIsCurrent
  BY DEF PasswordInvariant, LiveIsCurrent, TokenTimely, Live
<1> QED BY <1>1, PasswordInvariance, PTL

(* get_current_user refuses the access tokens of earlier passwords, but in *)
(* the second of the last change (app/api/deps.py).                        *)
THEOREM OldAccessRefused == AuthSpec => []OldAccessEnds
<1>1. PasswordInvariant => OldAccessEnds
  <2> SUFFICES ASSUME PasswordInvariant, NEW t \in Issued, ~token[t].late,
                      token[t].since # user[token[t].user].password, Accepted(t)
               PROVE  /\ user[token[t].user].changedAt # Null
                      /\ Second(token[t].issued)
                           = Second(user[token[t].user].changedAt)
    BY DEF OldAccessEnds
  <2> DEFINE a == token[t].issued
             b == user[token[t].user].changedAt
  <2>1. b # Null /\ a <= b
    BY DEF PasswordInvariant, TokenTimely
  <2>2. a \in Nat /\ b \in Nat
    BY <2>1, FieldTypes DEF PasswordInvariant, ChainInvariant
  <2>3. Second(a) <= Second(b)
    BY <2>1, <2>2, SecondsAdvance
  <2>4. Second(a) >= Second(b)
    BY <2>1 DEF Accepted
  <2>5. Second(a) \in Int /\ Second(b) \in Int
    BY <2>2, AuthAssumption DEF Second
  <2> HIDE DEF a, b
  <2>6. Second(a) = Second(b)
    BY <2>3, <2>4, <2>5
  <2> QED BY <2>1, <2>6 DEF a, b
<1> QED BY <1>1, PasswordInvariance, PTL

(* get_current_user never signs out who has the password in force, however *)
(* close to the change (app/api/deps.py).                                  *)
THEOREM FreshAccess == AuthSpec => []FreshAccepted
<1>1. PasswordInvariant => FreshAccepted
  <2> SUFFICES ASSUME PasswordInvariant, NEW t \in Issued,
                      user[token[t].user].active,
                      clock <= token[t].issued + AccessLife,
                      token[t].since = user[token[t].user].password
               PROVE  Accepted(t)
    BY DEF FreshAccepted
  <2> DEFINE a == token[t].issued
             b == user[token[t].user].changedAt
  <2>1. ASSUME b # Null PROVE Second(a) >= Second(b)
    <3>1. b <= a
      BY <2>1 DEF PasswordInvariant, TokenTimely
    <3>2. a \in Nat /\ b \in Nat
      BY <2>1, FieldTypes DEF PasswordInvariant, ChainInvariant
    <3>3. Second(b) <= Second(a)
      BY <3>1, <3>2, SecondsAdvance
    <3>4. Second(a) \in Int /\ Second(b) \in Int
      BY <3>2, AuthAssumption DEF Second
    <3> QED BY <3>3, <3>4
  <2> QED BY <2>1 DEF Accepted
<1> QED BY <1>1, PasswordInvariance, PTL
=============================================================================
