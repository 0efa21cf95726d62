-------------------------- MODULE CatalogueProofs ---------------------------
(***************************************************************************)
(* The counts of the catalogue add up, for any number of workers, items,   *)
(* rules and request bodies.                                               *)
(***************************************************************************)
EXTENDS Catalogue, TLAPS

(* What a session at work on a row knows of it. *)
Fits(s) ==
    /\ s.at \in {"insertRule", "commitRule"} =>
          s.of \in Codes /\ s.body \in BodyType /\ s.body.to.count = Null
    /\ s.at = "commitRule" => row[s.of] = Null
    /\ s.at = "edit" => /\ s.of \in Things /\ row[s.of] # Null
                        /\ s.body \in Bodies /\ s.body.of = s.of
                        /\ s.loaded \in RowType
    /\ s.at \in {"reserve", "pay"} => /\ s.of \in Items /\ row[s.of] # Null
                                      /\ s.loaded \in RowType

(* The unique index of codes. *)
OneInserter ==
    \A p, q \in Workers :
        At(p, "commitRule") /\ At(q, "commitRule")
        /\ session[p].of = session[q].of => p = q

(* The row of a unit that is being counted off is locked and not empty.    *)
Reserved(p) ==
    session[p].reserved =>
        /\ At(p, "pay") /\ ~RowLocked(p, session[p].of)
        /\ row[session[p].of].count \in Counts \ {0}

SessionsOK ==
    /\ session \in [Workers -> SessionType]
    /\ \A p \in Workers : Fits(session[p]) /\ Reserved(p)
    /\ OneInserter

RowsOK ==
    /\ row \in [Things -> RowType \cup {Null}]
    /\ \A i \in Codes : row[i] # Null => ~Tracked(row[i])
    /\ creators = [i \in Things |-> IF row[i] = Null THEN 0 ELSE 1]
    /\ sold \in [Items -> 0..MaxSales]
    /\ base \in [Items -> Counts \cup {Null}]
    /\ moved \in [Items -> Int]
    /\ \A i \in Items : row[i] = Null => moved[i] = 0 /\ sold[i] = 0

(* The inductive invariant behind StockAccounted. *)
CatInvariant == SessionsOK /\ RowsOK /\ StockAccounted

-----------------------------------------------------------------------------
(* Steps that change no row.                                               *)

LEMMA CatNullFacts ==
    /\ Null \notin Counts /\ Null \notin RowType /\ Null \notin BodyType
BY CatalogueAssumption

LEMMA ThingFacts ==
    /\ Items \subseteq Things /\ Codes \subseteq Things
    /\ \A i \in Items : i \notin Codes
BY CatalogueAssumption DEF Things

LEMMA IdleFits ==
    /\ Idle \in SessionType /\ Idle.at = "idle" /\ ~Idle.reserved
    /\ Idle.offers = {} /\ Fits(Idle)
BY DEF Idle, SessionType, Statements, Fits

(* One session moves on, and no row changes.                               *)
LEMMA CatSessionStep ==
    ASSUME CatInvariant, NEW p \in Workers, NEW s \in SessionType,
           session' = [session EXCEPT ![p] = s],
           UNCHANGED <<row, creators, sold, base, moved>>,
           Fits(s),
           s.reserved => /\ s.at = "pay" /\ ~RowLocked(p, s.of)
                         /\ row[s.of].count \in Counts \ {0},
           s.at = "commitRule" => \A q \in Workers \ {p} :
                ~(At(q, "commitRule") /\ session[q].of = s.of)
    PROVE  CatInvariant'
<1> USE DEF CatInvariant
<1>1. /\ session'[p] = s
      /\ \A q \in Workers \ {p} : session'[q] = session[q]
      /\ session' \in [Workers -> SessionType]
  BY DEF SessionsOK
<1>2. \A q \in Workers : Fits(session[q])'
  BY <1>1 DEF SessionsOK, Fits
<1>3. OneInserter'
  BY <1>1 DEF SessionsOK, OneInserter, At
<1>4. ASSUME NEW q \in Workers PROVE Reserved(q)'
  <2> SUFFICES ASSUME session'[q].reserved
               PROVE  /\ At(q, "pay")' /\ ~RowLocked(q, session[q].of)'
                      /\ row'[session'[q].of].count \in Counts \ {0}
    BY DEF Reserved
  <2>1. CASE q = p
    BY <1>1, <2>1 DEF At, RowLocked
  <2>2. CASE q # p
    <3>1. session'[q] = session[q] /\ Reserved(q)
      BY <1>1, <2>2 DEF SessionsOK
    <3>2. ~(s.reserved /\ s.of = session[q].of)
      BY <2>2, <3>1 DEF RowLocked
    <3> QED BY <1>1, <2>2, <3>1, <3>2 DEF At, RowLocked, Reserved
  <2> QED BY <2>1, <2>2
<1>5. RowsOK' /\ StockAccounted'
  BY DEF RowsOK, StockAccounted
<1> QED BY <1>1, <1>2, <1>3, <1>4, <1>5 DEF SessionsOK

LEMMA CatEndSession ==
    ASSUME CatInvariant, NEW p \in Workers, EndSession(p)
    PROVE  CatInvariant'
BY CatSessionStep, IdleFits DEF EndSession

LEMMA CreateRuleKeeps ==
    ASSUME CatInvariant, NEW p \in Workers, CreateRule(p)
    PROVE  CatInvariant'
<1>1. PICK b \in Bodies :
         /\ b.of \in Codes
         /\ session' = [session EXCEPT ![p] =
              [Idle EXCEPT !.at = "insertRule", !.of = b.of, !.body = b]]
  BY DEF CreateRule
<1> DEFINE s == [Idle EXCEPT !.at = "insertRule", !.of = b.of, !.body = b]
<1>2. b \in BodyType /\ b.to.count = Null
  BY <1>1, CatalogueAssumption
<1>3. s \in SessionType
  BY <1>1, <1>2, ThingFacts DEF Idle, SessionType, Statements
<1>4. s.at = "insertRule" /\ s.of = b.of /\ s.body = b /\ ~s.reserved
  BY DEF Idle
<1>5. Fits(s)
  BY <1>1, <1>2, <1>4 DEF Fits
<1>6. UNCHANGED <<row, creators, sold, base, moved>>
  BY DEF CreateRule
<1> HIDE DEF s
<1> QED BY <1>1, <1>3, <1>4, <1>5, <1>6, CatSessionStep DEF s

LEMMA InsertRuleKeeps ==
    ASSUME CatInvariant, NEW p \in Workers, InsertRule(p)
    PROVE  CatInvariant'
<1> DEFINE s == [session[p] EXCEPT !.at = "commitRule"]
<1>1. CASE EndSession(p)
  BY <1>1, CatEndSession
<1>2. CASE ~EndSession(p)
  <2>1. /\ session[p].at = "insertRule" /\ row[session[p].of] = Null
        /\ session' = [session EXCEPT ![p].at = "commitRule"]
        /\ UNCHANGED <<row, creators, sold, base, moved>>
        /\ \A q \in Workers \ {p} :
               ~(At(q, "commitRule") /\ session[q].of = session[p].of)
    BY <1>2 DEF InsertRule, At
  <2>2. /\ session[p] \in SessionType /\ Fits(session[p]) /\ ~session[p].reserved
        /\ session' = [session EXCEPT ![p] = s]
    BY <2>1 DEF CatInvariant, SessionsOK, Reserved, At
  <2>3. s \in SessionType
    BY <2>2 DEF SessionType, Statements
  <2>4. s.at = "commitRule" /\ s.of = session[p].of /\ s.body = session[p].body
        /\ ~s.reserved
    BY <2>2 DEF SessionType
  <2>5. Fits(s)
    BY <2>1, <2>2, <2>4 DEF Fits
  <2>6. \A q \in Workers \ {p} : ~(At(q, "commitRule") /\ session[q].of = s.of)
    BY <2>1, <2>4
  <2>7. UNCHANGED <<row, creators, sold, base, moved>>
    BY <2>1
  <2>8. session' = [session EXCEPT ![p] = s]
    BY <2>2
  <2> HIDE DEF s
  <2> QED BY <2>3, <2>4, <2>5, <2>6, <2>7, <2>8, CatSessionStep
<1> QED BY <1>1, <1>2

LEMMA LoadKeeps ==
    ASSUME CatInvariant, NEW p \in Workers, LoadForEdit(p) \/ LoadForSale(p)
    PROVE  CatInvariant'
<1>1. CASE LoadForEdit(p)
  <2>1. PICK b \in Bodies :
          /\ row[b.of] # Null
          /\ session' = [session EXCEPT ![p] =
                [Idle EXCEPT !.at = "edit", !.of = b.of, !.body = b,
                             !.loaded = row[b.of]]]
          /\ UNCHANGED <<row, creators, sold, base, moved>>
    BY <1>1 DEF LoadForEdit
  <2> DEFINE s == [Idle EXCEPT !.at = "edit", !.of = b.of, !.body = b,
                               !.loaded = row[b.of]]
  <2>2. b \in BodyType /\ b.of \in Things
    BY CatalogueAssumption DEF BodyType
  <2>3. row[b.of] \in RowType
    BY <2>1, <2>2 DEF CatInvariant, RowsOK
  <2>4. s \in SessionType
    BY <2>2, <2>3 DEF Idle, SessionType, Statements
  <2>5. /\ s.at = "edit" /\ s.of = b.of /\ s.body = b /\ s.loaded = row[b.of]
        /\ ~s.reserved
    BY DEF Idle
  <2>6. Fits(s)
    BY <2>1, <2>2, <2>3, <2>5 DEF Fits
  <2>7. session' = [session EXCEPT ![p] = s]
    BY <2>1
  <2> HIDE DEF s
  <2> QED BY <2>1, <2>4, <2>5, <2>6, <2>7, CatSessionStep
<1>2. CASE LoadForSale(p)
  <2>1. PICK i \in Items :
          /\ row[i] # Null
          /\ session' = [session EXCEPT ![p] =
                [Idle EXCEPT !.at = "reserve", !.of = i, !.loaded = row[i],
                             !.offers = {OfferOf(row[i])}]]
          /\ UNCHANGED <<row, creators, sold, base, moved>>
    BY <1>2 DEF LoadForSale
  <2> DEFINE s == [Idle EXCEPT !.at = "reserve", !.of = i, !.loaded = row[i],
                               !.offers = {OfferOf(row[i])}]
  <2>2. row[i] \in RowType /\ i \in Things
    BY <2>1, ThingFacts DEF CatInvariant, RowsOK
  <2>3. OfferOf(row[i]) \in OfferType
    BY <2>2 DEF OfferOf, OfferType, RowType
  <2>4. s \in SessionType
    BY <2>2, <2>3 DEF Idle, SessionType, Statements
  <2>5. s.at = "reserve" /\ s.of = i /\ s.loaded = row[i] /\ ~s.reserved
    BY DEF Idle
  <2>6. Fits(s)
    BY <2>1, <2>2, <2>5 DEF Fits
  <2>7. session' = [session EXCEPT ![p] = s]
    BY <2>1
  <2> HIDE DEF s
  <2> QED BY <2>1, <2>4, <2>5, <2>6, <2>7, CatSessionStep
<1> QED BY <1>1, <1>2

LEMMA AtPayTyped ==
    ASSUME NEW r \in SessionType, NEW b \in BOOLEAN
    PROVE  LET s == [[r EXCEPT !.at = "pay"] EXCEPT !.reserved = b]
           IN /\ s \in SessionType /\ s.at = "pay" /\ (s.reserved <=> b)
              /\ s.of = r.of /\ s.loaded = r.loaded
<1>1. [r EXCEPT !.at = "pay"] \in SessionType
  BY DEF SessionType, Statements
<1> QED BY <1>1 DEF SessionType

LEMMA ReserveKeeps ==
    ASSUME CatInvariant, NEW p \in Workers, Reserve(p)
    PROVE  CatInvariant'
<1> DEFINE i == session[p].of
<1>1. /\ session[p].at = "reserve" /\ session[p] \in SessionType
      /\ Fits(session[p]) /\ ~session[p].reserved
  BY DEF Reserve, At, CatInvariant, SessionsOK, Reserved
<1>2. row[i] \in RowType /\ row[i].count \in Counts \cup {Null}
  <2>1. row[i] \in RowType
    BY <1>1, ThingFacts DEF Fits, CatInvariant, RowsOK
  <2> QED BY <2>1 DEF RowType
<1>3. CASE EndSession(p)
  BY <1>3, CatEndSession
<1>4. CASE ~EndSession(p)
  <2>1. PICK b \in BOOLEAN :
          /\ session' = [session EXCEPT ![p] =
                            [[session[p] EXCEPT !.at = "pay"] EXCEPT !.reserved = b]]
          /\ b => ~RowLocked(p, i) /\ row[i].count \notin {Null, 0}
    <3>1. CASE session' = [session EXCEPT ![p].at = "pay"]
      <4>1. [session[p] EXCEPT !.at = "pay"]
              = [[session[p] EXCEPT !.at = "pay"] EXCEPT !.reserved = FALSE]
        BY <1>1 DEF SessionType
      <4>2. session' = [session EXCEPT ![p] = [session[p] EXCEPT !.at = "pay"]]
        BY <3>1
      <4> QED BY <4>1, <4>2
    <3>2. CASE /\ session' = [session EXCEPT ![p].at = "pay", ![p].reserved = TRUE]
               /\ ~RowLocked(p, i) /\ row[i].count \notin {Null, 0}
      <4>1. session' = [session EXCEPT ![p] =
                [[session[p] EXCEPT !.at = "pay"] EXCEPT !.reserved = TRUE]]
        BY <3>2 DEF CatInvariant, SessionsOK
      <4> QED BY <3>2, <4>1
    <3> QED BY <1>4, <3>1, <3>2 DEF Reserve
  <2> DEFINE s == [[session[p] EXCEPT !.at = "pay"] EXCEPT !.reserved = b]
  <2>2. /\ s \in SessionType /\ s.at = "pay" /\ (s.reserved <=> b)
        /\ s.of = i /\ s.loaded = session[p].loaded
    BY <1>1, AtPayTyped
  <2>3. Fits(s)
    BY <1>1, <2>2 DEF Fits
  <2>4. s.reserved => ~RowLocked(p, s.of) /\ row[s.of].count \in Counts \ {0}
    BY <1>2, <2>1, <2>2
  <2>5. UNCHANGED <<row, creators, sold, base, moved>>
    BY <1>4 DEF Reserve
  <2>6. session' = [session EXCEPT ![p] = s]
    BY <2>1
  <2> HIDE DEF s
  <2> QED BY <2>2, <2>3, <2>4, <2>5, <2>6, CatSessionStep
<1> QED BY <1>3, <1>4

-----------------------------------------------------------------------------
(* Steps that write a row.                                                 *)

(* A row i becomes r, and sessions end or stay where they are.             *)
LEMMA WriteKeepsSessions ==
    ASSUME CatInvariant, NEW i \in Things, NEW r \in RowType,
           row' = [row EXCEPT ![i] = r],
           session' \in [Workers -> SessionType],
           \A q \in Workers :
              \/ session'[q] = Idle
              \/ /\ session'[q].at = session[q].at
                 /\ session'[q].of = session[q].of
                 /\ session'[q].body = session[q].body
                 /\ session'[q].loaded = session[q].loaded
                 /\ session'[q].reserved = session[q].reserved
                 /\ session[q].of = i =>
                       /\ session[q].at # "commitRule"
                       /\ session[q].reserved => r.count = row[i].count
    PROVE  SessionsOK'
<1> USE DEF CatInvariant
<1>1. row'[i] = r /\ \A j \in Things \ {i} : row'[j] = row[j]
  BY DEF RowsOK
<1>2. r # Null
  BY CatNullFacts
<1>3. ASSUME NEW q \in Workers PROVE Fits(session[q])'
  <2>1. CASE session'[q] = Idle
    BY <2>1, IdleFits DEF Fits
  <2>2. CASE session'[q] # Idle
    <3>1. Fits(session[q])
      BY DEF SessionsOK
    <3>2. session[q].at = "commitRule" => row'[session[q].of] = Null
      BY <1>1, <2>2, <3>1, ThingFacts DEF Fits
    <3>3. session[q].of \in Things /\ row[session[q].of] # Null
            => row'[session[q].of] # Null
      BY <1>1, <1>2
    <3> QED BY <2>2, <3>1, <3>2, <3>3, ThingFacts DEF Fits
  <2> QED BY <2>1, <2>2
<1>4. OneInserter'
  BY IdleFits DEF SessionsOK, OneInserter, At
<1>5. ASSUME NEW q \in Workers PROVE Reserved(q)'
  <2> SUFFICES ASSUME session'[q].reserved
               PROVE  /\ At(q, "pay")' /\ ~RowLocked(q, session[q].of)'
                      /\ row'[session'[q].of].count \in Counts \ {0}
    BY DEF Reserved
  <2>1. /\ session'[q].at = session[q].at /\ session'[q].of = session[q].of
        /\ session[q].reserved
        /\ session[q].of = i => r.count = row[i].count
    BY IdleFits
  <2>2. At(q, "pay") /\ ~RowLocked(q, session[q].of) /\ session[q].of \in Things
        /\ row[session[q].of].count \in Counts \ {0}
    BY <2>1, ThingFacts DEF SessionsOK, Reserved, Fits, At
  <2>3. ~RowLocked(q, session[q].of)'
    BY <2>1, <2>2, IdleFits DEF RowLocked
  <2> QED BY <1>1, <2>1, <2>2, <2>3 DEF At
<1> QED BY <1>3, <1>4, <1>5 DEF SessionsOK

LEMMA WriteKeepsRows ==
    ASSUME CatInvariant, NEW i \in Things, NEW r \in RowType,
           row' = [row EXCEPT ![i] = r], i \in Codes => r.count = Null
    PROVE  /\ row' \in [Things -> RowType \cup {Null}]
           /\ \A j \in Codes : row'[j] # Null => ~Tracked(row'[j])
           /\ row'[i] = r /\ r # Null
           /\ \A j \in Things \ {i} : row'[j] = row[j]
           /\ \A j \in Things : row'[j] = Null => row[j] = Null
           /\ r.count \in Counts \cup {Null}
<1> USE DEF CatInvariant
<1>1. row'[i] = r /\ \A j \in Things \ {i} : row'[j] = row[j]
  BY DEF RowsOK
<1>2. r # Null /\ r.count \in Counts \cup {Null}
  BY CatNullFacts DEF RowType
<1> QED BY <1>1, <1>2, ThingFacts DEF RowsOK, Tracked

(* A new row, under a lock or a unique index.                              *)
LEMMA StoreKeeps ==
    ASSUME CatInvariant, NEW p \in Workers, NEW i \in Things, NEW r \in RowType,
           Store(p, i, r), row[i] = Null, i \in Codes => r.count = Null,
           \A q \in Workers \ {p} : session[q].of = i =>
                                      session[q].at # "commitRule"
    PROVE  CatInvariant'
<1> USE DEF CatInvariant
<1>1. /\ row' \in [Things -> RowType \cup {Null}]
      /\ \A j \in Codes : row'[j] # Null => ~Tracked(row'[j])
      /\ row'[i] = r /\ r # Null
      /\ \A j \in Things \ {i} : row'[j] = row[j]
      /\ r.count \in Counts \cup {Null}
  BY WriteKeepsRows DEF Store
<1>2. /\ session' \in [Workers -> SessionType] /\ session'[p] = Idle
      /\ \A q \in Workers \ {p} : session'[q] = session[q]
  BY IdleFits DEF Store, SessionsOK
<1>3. \A q \in Workers : session[q].of = i => ~session[q].reserved
  BY DEF SessionsOK, Reserved, Fits, At
<1>4. SessionsOK'
  <2>1. row' = [row EXCEPT ![i] = r]
    BY DEF Store
  <2>2. \A q \in Workers :
          \/ session'[q] = Idle
          \/ /\ session'[q] = session[q]
             /\ session[q].of = i =>
                   session[q].at # "commitRule" /\ ~session[q].reserved
    BY <1>2, <1>3
  <2>3. \A q \in Workers :
          \/ session'[q] = Idle
          \/ /\ session'[q].at = session[q].at
             /\ session'[q].of = session[q].of
             /\ session'[q].body = session[q].body
             /\ session'[q].loaded = session[q].loaded
             /\ session'[q].reserved = session[q].reserved
             /\ session[q].of = i =>
                   /\ session[q].at # "commitRule"
                   /\ session[q].reserved => r.count = row[i].count
    BY <2>2
  <2>4. session' \in [Workers -> SessionType]
    BY <1>2
  <2> QED BY <2>1, <2>3, <2>4, WriteKeepsSessions
<1>5. creators' = [j \in Things |-> IF row'[j] = Null THEN 0 ELSE 1]
  <2>1. creators = [j \in Things |-> IF row[j] = Null THEN 0 ELSE 1]
    BY DEF RowsOK
  <2>2. creators' = [creators EXCEPT ![i] = @ + 1]
    BY DEF Store
  <2>3. creators' = [j \in Things |-> creators'[j]]
    BY <2>1, <2>2
  <2>4. ASSUME NEW j \in Things
        PROVE  creators'[j] = IF row'[j] = Null THEN 0 ELSE 1
    <3>1. CASE j = i
      BY <1>1, <2>1, <2>2, <3>1
    <3>2. CASE j # i
      BY <1>1, <2>1, <2>2, <3>2
    <3> QED BY <3>1, <3>2
  <2> QED BY <2>3, <2>4
<1>6. /\ moved' = moved /\ sold' = sold
      /\ base' = [j \in Items |-> IF j = i THEN r.count ELSE base[j]]
  BY DEF Store
<1>7. RowsOK'
  BY <1>1, <1>5, <1>6, ThingFacts DEF RowsOK
<1>8. ASSUME NEW j \in Items, row'[j] # Null
      PROVE  /\ Tracked(row'[j]) <=> base'[j] # Null
             /\ Tracked(row'[j]) => row'[j].count = base'[j] + moved'[j]
  <2>1. CASE j = i
    <3>1. moved[j] = 0
      BY <2>1 DEF RowsOK
    <3>2. Tracked(row'[j]) => row'[j].count \in Nat
      BY <1>1, <2>1, CatalogueAssumption DEF Tracked, Counts
    <3>3. base'[j] = row'[j].count
      BY <1>1, <1>6, <2>1
    <3> QED BY <1>6, <3>1, <3>2, <3>3 DEF Tracked
  <2>2. CASE j # i
    BY <1>1, <1>6, <1>8, <2>2, ThingFacts DEF StockAccounted
  <2> QED BY <2>1, <2>2
<1>9. StockAccounted'
  BY <1>8 DEF StockAccounted
<1> QED BY <1>4, <1>7, <1>9

LEMMA CreateKeeps ==
    ASSUME CatInvariant, NEW p \in Workers, CreateItem(p) \/ CommitRule(p)
    PROVE  CatInvariant'
<1> USE DEF CatInvariant
<1>1. CASE CreateItem(p)
  <2>1. PICK b \in Bodies : b.of \in Items /\ row[b.of] = Null
                            /\ Store(p, b.of, b.to)
    BY <1>1 DEF CreateItem
  <2>2. b.to \in RowType /\ b.of \in Things
    BY CatalogueAssumption DEF BodyType
  <2>3. \A q \in Workers \ {p} : session[q].of = b.of =>
                                    session[q].at # "commitRule"
    BY <2>1, ThingFacts DEF SessionsOK, Fits
  <2> QED BY <2>1, <2>2, <2>3, ThingFacts, StoreKeeps
<1>2. CASE CommitRule(p)
  <2> DEFINE i == session[p].of
             r == session[p].body.to
  <2>1. session[p].at = "commitRule" /\ Fits(session[p]) /\ Store(p, i, r)
    BY <1>2 DEF CommitRule, At, SessionsOK
  <2>2. /\ i \in Codes /\ i \in Things /\ row[i] = Null
        /\ r \in RowType /\ r.count = Null
    BY <2>1, ThingFacts DEF Fits, BodyType
  <2>3. \A q \in Workers \ {p} : session[q].of = i =>
                                    session[q].at # "commitRule"
    BY <2>1 DEF SessionsOK, OneInserter, At
  <2> HIDE DEF i, r
  <2> QED BY <2>1, <2>2, <2>3, StoreKeeps
<1> QED BY <1>1, <1>2

(* An UPDATE writes some fields of a body over a row.                      *)
LEMMA OverwriteTyped ==
    ASSUME NEW x \in RowType, NEW y \in RowType, NEW D,
           NEW changes, changes = [f \in D |-> y[f]]
    PROVE  /\ Overwrite(x, changes) \in RowType
           /\ Overwrite(x, changes).count = IF "count" \in D THEN y.count
                                            ELSE x.count
<1> DEFINE new(f) == IF f \in DOMAIN changes THEN changes[f] ELSE x[f]
<1>1. \A f : new(f) = IF f \in D THEN y[f] ELSE x[f]
  OBVIOUS
<1>2. /\ x.price \in Prices /\ x.count \in Counts \cup {Null} /\ x.active \in BOOLEAN
      /\ y.price \in Prices /\ y.count \in Counts \cup {Null} /\ y.active \in BOOLEAN
  BY DEF RowType
<1>3. /\ new("price") \in Prices /\ new("count") \in Counts \cup {Null}
      /\ new("active") \in BOOLEAN
  BY <1>1, <1>2
<1>4. Overwrite(x, changes) = [price |-> new("price"), count |-> new("count"),
                               active |-> new("active")]
  BY DEF Overwrite
<1>5. new("count") = IF "count" \in D THEN y.count ELSE x.count
  BY <1>1
<1> HIDE DEF new
<1> QED BY <1>3, <1>4, <1>5 DEF RowType

(* The sessions that see the new offer of i.                               *)
LEMMA OfferedTyped ==
    ASSUME CatInvariant, NEW p \in Workers, NEW i \in Things, NEW r \in RowType,
           session' = Offered(p, i, r)
    PROVE  /\ session' \in [Workers -> SessionType]
           /\ session'[p] = Idle
           /\ \A q \in Workers \ {p} :
                /\ session'[q].at = session[q].at
                /\ session'[q].of = session[q].of
                /\ session'[q].body = session[q].body
                /\ session'[q].loaded = session[q].loaded
                /\ session'[q].reserved = session[q].reserved
<1>1. OfferOf(r) \in OfferType
  BY DEF OfferOf, OfferType, RowType
<1>2. session'[p] = Idle
  BY DEF Offered
<1>3. ASSUME NEW q \in Workers \ {p}
      PROVE  /\ session'[q] \in SessionType
             /\ session'[q].at = session[q].at
             /\ session'[q].of = session[q].of
             /\ session'[q].body = session[q].body
             /\ session'[q].loaded = session[q].loaded
             /\ session'[q].reserved = session[q].reserved
  <2>1. session[q] \in SessionType
    BY DEF CatInvariant, SessionsOK
  <2>2. \/ session'[q] = session[q]
        \/ session'[q] = [session[q] EXCEPT !.offers = @ \cup {OfferOf(r)}]
    BY DEF Offered
  <2>3. CASE session'[q] = session[q]
    BY <2>1, <2>3
  <2>4. CASE session'[q] = [session[q] EXCEPT !.offers = @ \cup {OfferOf(r)}]
    BY <1>1, <2>1, <2>4 DEF SessionType
  <2> QED BY <2>2, <2>3, <2>4
<1>4. session' = [q \in Workers |-> session'[q]]
  BY DEF Offered
<1>5. \A q \in Workers : session'[q] \in SessionType
  BY <1>2, <1>3, IdleFits
<1> QED BY <1>2, <1>3, <1>4, <1>5

LEMMA CommitEditKeeps ==
    ASSUME CatInvariant, NEW p \in Workers, CommitEdit(p)
    PROVE  CatInvariant'
<1> USE DEF CatInvariant
<1> DEFINE i == session[p].of
           b == session[p].body
           D == {f \in b.set : b.to[f] # session[p].loaded[f]}
           changes == Changes(p)
           r == Overwrite(row[i], changes)
<1>1. /\ i \in Things /\ row[i] # Null /\ b \in Bodies /\ b.of = i
  BY DEF CommitEdit, At, SessionsOK, Fits
<1>2. /\ row[i] \in RowType /\ b.to \in RowType
      /\ i \in Codes => "count" \notin D /\ row[i].count = Null
  BY <1>1, CatalogueAssumption DEF RowsOK, BodyType, Tracked
<1>3. changes = [f \in D |-> b.to[f]] /\ DOMAIN changes = D
  BY DEF Changes
<1>4. r \in RowType /\ r.count = IF "count" \in D THEN b.to.count ELSE row[i].count
  BY <1>2, <1>3, OverwriteTyped
<1>5. row' = [row EXCEPT ![i] = r]
  BY DEF CommitEdit
<1>6. /\ i \in Items /\ "count" \in D =>
            base' = [base EXCEPT ![i] = r.count] /\ moved' = [moved EXCEPT ![i] = 0]
      /\ ~(i \in Items /\ "count" \in D) => base' = base /\ moved' = moved
  BY <1>3, <1>4 DEF CommitEdit
<1>7. sold' = sold /\ creators' = creators
  BY DEF CommitEdit
<1>8. session' = Offered(p, i, r)
  BY DEF CommitEdit
<1>9. "count" \in D => ~RowLocked(p, i)
  BY <1>3 DEF CommitEdit
<1> HIDE DEF D, r, changes
<1>10. SessionsOK'
  <2>1. /\ session' \in [Workers -> SessionType] /\ session'[p] = Idle
        /\ \A q \in Workers \ {p} :
              /\ session'[q].at = session[q].at
              /\ session'[q].of = session[q].of
              /\ session'[q].body = session[q].body
              /\ session'[q].loaded = session[q].loaded
              /\ session'[q].reserved = session[q].reserved
    BY <1>1, <1>4, <1>8, OfferedTyped
  <2>2. \A q \in Workers \ {p} : session[q].of = i =>
              /\ session[q].at # "commitRule"
              /\ session[q].reserved => r.count = row[i].count
    BY <1>1, <1>4, <1>9 DEF RowLocked, SessionsOK, Fits
  <2>3. \A q \in Workers :
          \/ session'[q] = Idle
          \/ /\ session'[q].at = session[q].at
             /\ session'[q].of = session[q].of
             /\ session'[q].body = session[q].body
             /\ session'[q].loaded = session[q].loaded
             /\ session'[q].reserved = session[q].reserved
             /\ session[q].of = i =>
                   /\ session[q].at # "commitRule"
                   /\ session[q].reserved => r.count = row[i].count
    BY <2>1, <2>2
  <2>4. session' \in [Workers -> SessionType]
    BY <2>1
  <2> HIDE DEF i
  <2> QED BY <1>1, <1>4, <1>5, <2>3, <2>4, WriteKeepsSessions
<1>11. /\ row' \in [Things -> RowType \cup {Null}]
       /\ \A j \in Codes : row'[j] # Null => ~Tracked(row'[j])
       /\ row'[i] = r /\ r # Null
       /\ \A j \in Things \ {i} : row'[j] = row[j]
       /\ r.count \in Counts \cup {Null}
  BY <1>1, <1>2, <1>4, <1>5, WriteKeepsRows
<1>12. creators' = [j \in Things |-> IF row'[j] = Null THEN 0 ELSE 1]
  <2>1. \A j \in Things : row'[j] = Null <=> row[j] = Null
    BY <1>1, <1>11
  <2> QED BY <1>7, <2>1 DEF RowsOK
<1>13. RowsOK'
  BY <1>1, <1>6, <1>7, <1>11, <1>12, ThingFacts DEF RowsOK
<1>14. ASSUME NEW j \in Items, row'[j] # Null
       PROVE  /\ Tracked(row'[j]) <=> base'[j] # Null
              /\ Tracked(row'[j]) => row'[j].count = base'[j] + moved'[j]
  <2>1. CASE j = i /\ "count" \in D
    <3>1. row'[j] = r /\ base'[j] = r.count /\ moved'[j] = 0
      BY <1>6, <1>11, <2>1 DEF RowsOK
    <3>2. Tracked(r) => r.count \in Nat
      BY <1>11, CatalogueAssumption DEF Tracked, Counts
    <3> QED BY <3>1, <3>2 DEF Tracked
  <2>2. CASE j = i /\ "count" \notin D
    <3>1. row'[j].count = row[j].count /\ base'[j] = base[j] /\ moved'[j] = moved[j]
      BY <1>4, <1>6, <1>11, <2>2
    <3> QED BY <1>1, <2>2, <3>1 DEF StockAccounted, Tracked
  <2>3. CASE j # i
    <3>1. row'[j] = row[j] /\ base'[j] = base[j] /\ moved'[j] = moved[j]
      BY <1>6, <1>11, <2>3, ThingFacts DEF RowsOK
    <3> QED BY <1>14, <3>1 DEF StockAccounted
  <2> QED BY <2>1, <2>2, <2>3
<1>15. StockAccounted'
  BY <1>14 DEF StockAccounted
<1> QED BY <1>10, <1>13, <1>15

LEMMA CountedTyped ==
    ASSUME NEW r \in RowType, NEW n \in Counts \cup {Null}
    PROVE  /\ [r EXCEPT !.count = n] \in RowType
           /\ [r EXCEPT !.count = n].count = n
BY DEF RowType

LEMMA CommitSaleKeeps ==
    ASSUME CatInvariant, NEW p \in Workers, CommitSale(p)
    PROVE  CatInvariant'
<1> USE DEF CatInvariant
<1> DEFINE i == session[p].of
           n == ReservedCount(p, i)
           r == [row[i] EXCEPT !.count = n]
<1>1. /\ i \in Items /\ row[i] # Null /\ i \in Things /\ i \notin Codes
  BY ThingFacts DEF CommitSale, At, SessionsOK, Fits
<1>2. row[i] \in RowType /\ row[i].count \in Counts \cup {Null}
  BY <1>1 DEF RowsOK, RowType
<1>3. /\ session[p].reserved => row[i].count \in Counts \ {0} /\ n = row[i].count - 1
      /\ ~session[p].reserved => n = row[i].count
  BY DEF SessionsOK, Reserved, ReservedCount
<1>4. n \in Counts \cup {Null}
  BY <1>2, <1>3, CatalogueAssumption DEF Counts
<1>5. r \in RowType /\ r.count = n
  BY <1>2, <1>4, CountedTyped
<1>6. row' = [row EXCEPT ![i] = r]
  BY <1>1 DEF CommitSale, RowsOK
<1>7. /\ sold' = [sold EXCEPT ![i] = @ + 1] /\ sold[i] < MaxSales
      /\ creators' = creators /\ base' = base
      /\ session[p].reserved => moved' = [moved EXCEPT ![i] = @ - 1]
      /\ ~session[p].reserved => moved' = moved
      /\ session' = [session EXCEPT ![p] = Idle]
  BY DEF CommitSale
<1>8. session[p].reserved => ~RowLocked(p, i)
  BY DEF SessionsOK, Reserved
<1> HIDE DEF n, r
<1>9. SessionsOK'
  <2>1. /\ session' \in [Workers -> SessionType] /\ session'[p] = Idle
        /\ \A q \in Workers \ {p} : session'[q] = session[q]
    BY <1>7, IdleFits DEF SessionsOK
  <2>2. \A q \in Workers \ {p} : session[q].of = i =>
              /\ session[q].at # "commitRule"
              /\ session[q].reserved => r.count = row[i].count
    BY <1>1, <1>3, <1>5, <1>8 DEF RowLocked, SessionsOK, Fits
  <2>3. \A q \in Workers :
          \/ session'[q] = Idle
          \/ /\ session'[q].at = session[q].at
             /\ session'[q].of = session[q].of
             /\ session'[q].body = session[q].body
             /\ session'[q].loaded = session[q].loaded
             /\ session'[q].reserved = session[q].reserved
             /\ session[q].of = i =>
                   /\ session[q].at # "commitRule"
                   /\ session[q].reserved => r.count = row[i].count
    BY <2>1, <2>2
  <2>4. session' \in [Workers -> SessionType]
    BY <2>1
  <2> HIDE DEF i
  <2> QED BY <1>1, <1>5, <1>6, <2>3, <2>4, WriteKeepsSessions
<1>10. /\ row' \in [Things -> RowType \cup {Null}]
       /\ \A j \in Codes : row'[j] # Null => ~Tracked(row'[j])
       /\ row'[i] = r /\ r # Null
       /\ \A j \in Things \ {i} : row'[j] = row[j]
  BY <1>1, <1>5, <1>6, WriteKeepsRows
<1>11. creators' = [j \in Things |-> IF row'[j] = Null THEN 0 ELSE 1]
  <2>1. \A j \in Things : row'[j] = Null <=> row[j] = Null
    BY <1>1, <1>10
  <2> QED BY <1>7, <2>1 DEF RowsOK
<1>12. sold' \in [Items -> 0..MaxSales]
  <2>1. sold[i] \in 0..MaxSales
    BY <1>1 DEF RowsOK
  <2>2. sold[i] + 1 \in 0..MaxSales
    BY <1>7, <2>1, CatalogueAssumption
  <2> QED BY <1>7, <2>2 DEF RowsOK
<1>13. /\ moved' \in [Items -> Int]
       /\ \A j \in Items \ {i} : moved'[j] = moved[j]
       /\ session[p].reserved => moved'[i] = moved[i] - 1
       /\ ~session[p].reserved => moved'[i] = moved[i]
  BY <1>1, <1>7 DEF RowsOK
<1>14. RowsOK'
  BY <1>1, <1>7, <1>10, <1>11, <1>12, <1>13, ThingFacts DEF RowsOK
<1>15. ASSUME NEW j \in Items, row'[j] # Null
       PROVE  /\ Tracked(row'[j]) <=> base'[j] # Null
              /\ Tracked(row'[j]) => row'[j].count = base'[j] + moved'[j]
  <2>1. CASE j = i /\ session[p].reserved
    <3>1. /\ Tracked(row[i]) /\ base[i] \in Counts /\ moved[i] \in Int
          /\ row[i].count = base[i] + moved[i]
      BY <1>1, <1>3, <2>1, CatNullFacts DEF StockAccounted, Tracked, RowsOK
    <3>2. row'[i].count = row[i].count - 1 /\ row[i].count \in Nat
      BY <1>3, <1>5, <1>10, <2>1, CatalogueAssumption DEF Counts
    <3>3. row'[i].count # Null
      BY <1>2, <1>3, <2>1, <3>2, CatalogueAssumption DEF Counts
    <3>4. base[i] \in Nat /\ base[i] # Null
      BY <3>1, CatNullFacts, CatalogueAssumption DEF Counts
    <3> QED BY <1>7, <1>13, <2>1, <3>1, <3>2, <3>3, <3>4 DEF Tracked
  <2>2. CASE j = i /\ ~session[p].reserved
    <3>1. row'[j].count = row[j].count /\ base'[j] = base[j] /\ moved'[j] = moved[j]
      BY <1>3, <1>5, <1>7, <1>10, <1>13, <2>2
    <3> QED BY <1>1, <2>2, <3>1 DEF StockAccounted, Tracked
  <2>3. CASE j # i
    <3>1. row'[j] = row[j] /\ base'[j] = base[j] /\ moved'[j] = moved[j]
      BY <1>7, <1>10, <1>13, <2>3, ThingFacts
    <3> QED BY <1>15, <3>1 DEF StockAccounted
  <2> QED BY <2>1, <2>2, <2>3
<1>16. StockAccounted'
  BY <1>15 DEF StockAccounted
<1> QED BY <1>9, <1>14, <1>16

(* restore_inventory, run by a reversal. *)
LEMMA ReturnKeeps ==
    ASSUME CatInvariant, NEW i \in Items, Return(i)
    PROVE  CatInvariant'
<1> USE DEF CatInvariant
<1>1. i \in Things /\ i \notin Codes
  BY ThingFacts
<1>2. /\ sold' = [sold EXCEPT ![i] = @ - 1] /\ sold[i] > 0
      /\ creators' = creators /\ base' = base /\ session' = session
      /\ \A q \in Workers : ~(session[q].of = i /\ session[q].reserved)
  BY DEF Return
<1>3. sold' \in [Items -> 0..MaxSales]
  <2>1. sold[i] \in 0..MaxSales
    BY DEF RowsOK
  <2>2. sold[i] - 1 \in 0..MaxSales
    BY <1>2, <2>1, CatalogueAssumption
  <2> QED BY <1>2, <2>2 DEF RowsOK
<1>4. CASE UNCHANGED <<row, moved>>
  <2>1. RowsOK' /\ StockAccounted'
    BY <1>2, <1>3, <1>4 DEF RowsOK, StockAccounted
  <2>2. SessionsOK'
    BY <1>2, <1>4 DEF SessionsOK, Fits, OneInserter, Reserved, At, RowLocked
  <2> QED BY <2>1, <2>2
<1>5. CASE /\ Tracked(row[i]) /\ row[i].count < MaxCount
           /\ row' = [row EXCEPT ![i].count = @ + 1]
           /\ moved' = [moved EXCEPT ![i] = @ + 1]
  <2> DEFINE n == row[i].count + 1
             r == [row[i] EXCEPT !.count = n]
  <2>1. row[i] # Null /\ row[i] \in RowType
    BY <1>1, <1>2 DEF RowsOK
  <2>2. row[i].count \in Nat /\ row[i].count # Null
    BY <1>5, <2>1, CatNullFacts, CatalogueAssumption DEF Tracked, RowType, Counts
  <2>3. n \in Counts
    BY <1>5, <2>2, CatalogueAssumption DEF Counts
  <2>4. r \in RowType /\ r.count = n
    BY <2>1, <2>3, CountedTyped
  <2>5. row' = [row EXCEPT ![i] = r]
    BY <1>1, <1>5 DEF RowsOK
  <2> HIDE DEF n, r
  <2>6. SessionsOK'
    <3>1. \A q \in Workers :
          \/ session'[q] = Idle
          \/ /\ session'[q].at = session[q].at
             /\ session'[q].of = session[q].of
             /\ session'[q].body = session[q].body
             /\ session'[q].loaded = session[q].loaded
             /\ session'[q].reserved = session[q].reserved
             /\ session[q].of = i =>
                   /\ session[q].at # "commitRule"
                   /\ session[q].reserved => r.count = row[i].count
      BY <1>1, <1>2 DEF SessionsOK, Fits
    <3>2. session' \in [Workers -> SessionType]
      BY <1>2 DEF SessionsOK
    <3> QED BY <1>1, <2>4, <2>5, <3>1, <3>2, WriteKeepsSessions
  <2>7. /\ row' \in [Things -> RowType \cup {Null}]
        /\ \A j \in Codes : row'[j] # Null => ~Tracked(row'[j])
        /\ row'[i] = r /\ r # Null
        /\ \A j \in Things \ {i} : row'[j] = row[j]
    BY <1>1, <2>4, <2>5, WriteKeepsRows
  <2>8. creators' = [j \in Things |-> IF row'[j] = Null THEN 0 ELSE 1]
    <3>1. \A j \in Things : row'[j] = Null <=> row[j] = Null
      BY <1>1, <2>1, <2>7
    <3> QED BY <1>2, <3>1 DEF RowsOK
  <2>9. /\ moved' \in [Items -> Int] /\ moved'[i] = moved[i] + 1
        /\ \A j \in Items \ {i} : moved'[j] = moved[j]
    BY <1>5 DEF RowsOK
  <2>10. RowsOK'
    BY <1>2, <1>3, <2>7, <2>8, <2>9, ThingFacts DEF RowsOK
  <2>11. ASSUME NEW j \in Items, row'[j] # Null
         PROVE  /\ Tracked(row'[j]) <=> base'[j] # Null
                /\ Tracked(row'[j]) => row'[j].count = base'[j] + moved'[j]
    <3>1. CASE j = i
      <4>1. /\ base[i] \in Counts /\ base[i] # Null /\ moved[i] \in Int
            /\ row[i].count = base[i] + moved[i]
        BY <1>5, <2>1, CatNullFacts DEF StockAccounted, Tracked, RowsOK
      <4>2. base[i] \in Nat
        BY <4>1, CatalogueAssumption DEF Counts
      <4>3. row'[i].count = row[i].count + 1
        BY <2>4, <2>7 DEF n
      <4>4. row'[i].count # Null
        BY <2>3, <2>4, <2>7, CatNullFacts
      <4> QED BY <1>2, <2>9, <3>1, <4>1, <4>2, <4>3, <4>4 DEF Tracked
    <3>2. CASE j # i
      <4>1. row'[j] = row[j] /\ base'[j] = base[j] /\ moved'[j] = moved[j]
        BY <1>2, <2>7, <2>9, <3>2, ThingFacts
      <4> QED BY <2>11, <4>1 DEF StockAccounted
    <3> QED BY <3>1, <3>2
  <2>12. StockAccounted'
    BY <2>11 DEF StockAccounted
  <2> QED BY <2>6, <2>10, <2>12
<1> QED BY <1>4, <1>5 DEF Return

-----------------------------------------------------------------------------
(* The theorems.                                                           *)

LEMMA CatInitHolds == CatInit => CatInvariant
<1> SUFFICES ASSUME CatInit PROVE CatInvariant
  OBVIOUS
<1>1. \A p \in Workers : session[p] = Idle
  BY DEF CatInit
<1>2. SessionsOK
  BY <1>1, IdleFits DEF CatInit, SessionsOK, OneInserter, Reserved, At
<1>3. RowsOK
  BY ThingFacts, CatalogueAssumption DEF CatInit, RowsOK
<1>4. StockAccounted
  BY ThingFacts DEF CatInit, StockAccounted
<1> QED BY <1>2, <1>3, <1>4 DEF CatInvariant

LEMMA CatStutter ==
    ASSUME CatInvariant, UNCHANGED catVars
    PROVE  CatInvariant'
<1>1. SessionsOK'
  BY DEF CatInvariant, catVars, SessionsOK, Fits, OneInserter, Reserved, At,
     RowLocked
<1>2. RowsOK' /\ StockAccounted'
  BY DEF CatInvariant, catVars, RowsOK, StockAccounted
<1> QED BY <1>1, <1>2 DEF CatInvariant

LEMMA CatStep == CatInvariant /\ [CatNext]_catVars => CatInvariant'
<1> SUFFICES ASSUME CatInvariant, [CatNext]_catVars PROVE CatInvariant'
  OBVIOUS
<1>1. ASSUME NEW p \in Workers, FailSale(p) \/ EndSession(p)
      PROVE  CatInvariant'
  BY <1>1, CatEndSession DEF FailSale
<1> QED BY <1>1, CreateKeeps, CreateRuleKeeps, InsertRuleKeeps, LoadKeeps,
           CommitEditKeeps, ReserveKeeps, CommitSaleKeeps, ReturnKeeps,
           CatStutter DEF CatNext

LEMMA CatInvariantHolds == CatSpec => []CatInvariant
BY CatInitHolds, CatStep, PTL DEF CatSpec

(* Rows and sessions keep their types; a unit is counted off by one        *)
(* session at a time, and a code is created once (catalog_service.py,      *)
(* repositories/reward_item.py).                                           *)
THEOREM CatTypeCorrect == CatSpec => []CatTypeOK
<1>1. CatInvariant => CatTypeOK
  BY DEF CatInvariant, SessionsOK, RowsOK, Reserved, CatTypeOK
<1> QED BY <1>1, CatInvariantHolds, PTL

(* The count of an item is what was last written plus what has moved       *)
(* since (repositories/reward_item.py:28-54, catalog_service.py:85-102).   *)
THEOREM CountsAddUp == CatSpec => []StockAccounted
<1>1. CatInvariant => StockAccounted
  BY DEF CatInvariant
<1> QED BY <1>1, CatInvariantHolds, PTL

-----------------------------------------------------------------------------
(* What edits and sales do to what others see.                             *)

(* The item a student pays for was on offer, as it was loaded.             *)
Honoured(s) ==
    s.at \in {"reserve", "pay"} =>
        \E r \in s.offers : r.active /\ r.price = s.loaded.price
OffersOK == \A p \in Workers : Honoured(session[p])

(* A step of p may tell the others of a new offer, and does no more.       *)
OthersStay(p) ==
    \A q \in Workers \ {p} :
        /\ session'[q].at = session[q].at
        /\ session'[q].loaded = session[q].loaded
        /\ session[q].offers \subseteq session'[q].offers

LEMMA MovesAlone ==
    ASSUME SessionsOK, NEW p \in Workers, NEW s, session' = [session EXCEPT ![p] = s]
    PROVE  OthersStay(p) /\ session'[p] = s
BY DEF SessionsOK, OthersStay

LEMMA IdleHonoured == Honoured(Idle)
BY IdleFits DEF Honoured

(* An edit, which ends its own session.                                    *)
LEMMA EditOffers ==
    ASSUME SessionsOK, NEW p \in Workers, CommitEdit(p)
    PROVE  OthersStay(p) /\ session'[p] = Idle
<1> DEFINE i == session[p].of
           r == Overwrite(row[i], Changes(p))
<1>1. session' = Offered(p, i, r)
  BY DEF CommitEdit
<1>2. ASSUME NEW q \in Workers \ {p}
      PROVE  /\ session'[q].at = session[q].at
             /\ session'[q].loaded = session[q].loaded
             /\ session[q].offers \subseteq session'[q].offers
  <2> HIDE DEF r, i
  <2>1. session[q] \in SessionType
    BY DEF SessionsOK
  <2>2. session'[q] = IF session[q].of = i /\ session[q].offers # {}
                      THEN [session[q] EXCEPT !.offers = @ \cup {OfferOf(r)}]
                      ELSE session[q]
    BY <1>1 DEF Offered
  <2> HIDE DEF OfferOf
  <2> QED BY <2>1, <2>2 DEF SessionType
<1>3. session'[p] = Idle
  BY <1>1 DEF Offered
<1> QED BY <1>2, <1>3 DEF OthersStay

(* Every step of a worker: its own session alone moves, to a state in      *)
(* which it pays what was offered.                                         *)
LEMMA WorkerOffers ==
    ASSUME SessionsOK, OffersOK, NEW p \in Workers,
           \/ CreateItem(p) \/ CreateRule(p) \/ InsertRule(p) \/ CommitRule(p)
           \/ LoadForEdit(p) \/ CommitEdit(p)
           \/ LoadForSale(p) \/ Reserve(p) \/ FailSale(p) \/ CommitSale(p)
           \/ EndSession(p)
    PROVE  /\ OthersStay(p) /\ Honoured(session'[p])
           /\ At(p, "edit") /\ session'[p].at = "idle" => CommitEdit(p) \/ UNCHANGED row
<1>1. CASE EndSession(p) \/ FailSale(p)
  BY <1>1, MovesAlone, IdleHonoured DEF EndSession, FailSale
<1>2. CASE CreateItem(p) \/ CommitRule(p) \/ CommitSale(p)
  <2>1. session' = [session EXCEPT ![p] = Idle]
    BY <1>2 DEF CreateItem, CommitRule, CommitSale, Store
  <2> QED BY <1>2, <2>1, MovesAlone, IdleHonoured DEF CreateItem, CommitRule, CommitSale, At
<1>3. CASE CommitEdit(p)
  BY <1>3, EditOffers, IdleHonoured
<1>4. CASE CreateRule(p) \/ LoadForEdit(p)
  <2>1. PICK s : session' = [session EXCEPT ![p] = s] /\ s.at \in {"insertRule", "edit"}
    <3>1. CASE CreateRule(p)
      <4>1. PICK b \in Bodies : session' = [session EXCEPT ![p] =
              [Idle EXCEPT !.at = "insertRule", !.of = b.of, !.body = b]]
        BY <3>1 DEF CreateRule
      <4>2. [Idle EXCEPT !.at = "insertRule", !.of = b.of, !.body = b].at = "insertRule"
        BY DEF Idle
      <4> QED BY <4>1, <4>2
    <3>2. CASE LoadForEdit(p)
      <4>1. PICK b \in Bodies : session' = [session EXCEPT ![p] =
              [Idle EXCEPT !.at = "edit", !.of = b.of, !.body = b,
                           !.loaded = row[b.of]]]
        BY <3>2 DEF LoadForEdit
      <4>2. [Idle EXCEPT !.at = "edit", !.of = b.of, !.body = b,
                         !.loaded = row[b.of]].at = "edit"
        BY DEF Idle
      <4> QED BY <4>1, <4>2
    <3> QED BY <1>4, <3>1, <3>2
  <2> QED BY <2>1, MovesAlone DEF Honoured
<1>5. CASE InsertRule(p) /\ ~EndSession(p)
  <2>1. /\ session' = [session EXCEPT ![p] = [session[p] EXCEPT !.at = "commitRule"]]
        /\ session[p] \in SessionType
    BY <1>5 DEF InsertRule, SessionsOK
  <2>2. [session[p] EXCEPT !.at = "commitRule"].at = "commitRule"
    BY <2>1 DEF SessionType
  <2> QED BY <2>1, <2>2, MovesAlone DEF Honoured
<1>6. CASE LoadForSale(p)
  <2>1. PICK i \in Items :
           /\ row[i].active
           /\ session' = [session EXCEPT ![p] =
                [Idle EXCEPT !.at = "reserve", !.of = i, !.loaded = row[i],
                             !.offers = {OfferOf(row[i])}]]
    BY <1>6 DEF LoadForSale
  <2>2. /\ OthersStay(p)
        /\ session'[p] = [Idle EXCEPT !.at = "reserve", !.of = i, !.loaded = row[i],
                                      !.offers = {OfferOf(row[i])}]
    BY <2>1, MovesAlone
  <2>3. /\ session'[p].at = "reserve" /\ session'[p].loaded = row[i]
        /\ session'[p].offers = {OfferOf(row[i])}
    BY <2>2 DEF Idle
  <2>4. OfferOf(row[i]).active /\ OfferOf(row[i]).price = row[i].price
    BY <2>1 DEF OfferOf
  <2>5. Honoured(session'[p])
    BY <2>3, <2>4 DEF Honoured
  <2> QED BY <2>2, <2>3, <2>5
<1>7. CASE Reserve(p) /\ ~EndSession(p)
  <2>1. /\ session[p] \in SessionType /\ Honoured(session[p])
        /\ session[p].at = "reserve"
    BY <1>7 DEF Reserve, At, SessionsOK, OffersOK
  <2>2. PICK s : /\ session' = [session EXCEPT ![p] = s]
                 /\ s.at = "pay" /\ s.loaded = session[p].loaded
                 /\ s.offers = session[p].offers
    <3>1. \/ session' = [session EXCEPT ![p] = [session[p] EXCEPT !.at = "pay"]]
          \/ session' = [session EXCEPT ![p] = [session[p] EXCEPT !.at = "pay",
                                                                 !.reserved = TRUE]]
      BY <1>7 DEF Reserve
    <3> QED BY <2>1, <3>1 DEF SessionType
  <2> QED BY <2>1, <2>2, MovesAlone DEF Honoured
<1> QED BY <1>1, <1>2, <1>3, <1>4, <1>5, <1>6, <1>7

LEMMA OffersStep ==
    ASSUME SessionsOK, OffersOK, [CatNext]_catVars
    PROVE  /\ OffersOK'
           /\ \A p \in Workers :
                 At(p, "edit") /\ session'[p].at = "idle"
                    => CommitEdit(p) \/ UNCHANGED row
<1>1. ASSUME NEW p \in Workers, OthersStay(p), Honoured(session'[p]),
             At(p, "edit") /\ session'[p].at = "idle" => CommitEdit(p) \/ UNCHANGED row
      PROVE  /\ OffersOK'
             /\ \A q \in Workers :
                   At(q, "edit") /\ session'[q].at = "idle"
                      => CommitEdit(q) \/ UNCHANGED row
  <2>1. OffersOK'
    BY <1>1 DEF OthersStay, OffersOK, Honoured
  <2> QED BY <1>1, <2>1 DEF OthersStay, At
<1>2. CASE UNCHANGED session
  BY <1>2 DEF OffersOK, Honoured, At
<1>3. ASSUME NEW i \in Items, Return(i) PROVE UNCHANGED session
  BY <1>3 DEF Return
<1>4. UNCHANGED catVars => UNCHANGED session
  BY DEF catVars
<1> QED BY <1>1, <1>2, <1>3, <1>4, WorkerOffers DEF CatNext

LEMMA OffersHold == CatSpec => []OffersOK
<1>1. CatInit => OffersOK
  BY IdleHonoured DEF CatInit, OffersOK
<1>2. SessionsOK /\ OffersOK /\ [CatNext]_catVars => OffersOK'
  BY OffersStep
<1>3. CatInvariant => SessionsOK
  BY DEF CatInvariant
<1> QED BY <1>1, <1>2, <1>3, CatInvariantHolds, PTL DEF CatSpec

(* Two edits that overlap lose nothing of each other but what both name    *)
(* (update_reward_item and update_earning_rule assign the fields that were *)
(* set, and the UPDATE writes those that differ).                          *)
THEOREM EditsLast == CatSpec => EditsKeepOthers
<1>1. ASSUME SessionsOK, NEW p \in Workers, CommitEdit(p),
             NEW f \in Fields \ session[p].body.set
      PROVE  row'[session[p].of][f] = row[session[p].of][f]
  <2> DEFINE i == session[p].of
  <2>1. i \in Things
    BY <1>1 DEF CommitEdit, At, SessionsOK, Fits
  <2>2. f \notin DOMAIN Changes(p)
    BY <1>1 DEF Changes
  <2>3. row' = [row EXCEPT ![i] = Overwrite(row[i], Changes(p))]
    BY <1>1 DEF CommitEdit
  <2>4. Overwrite(row[i], Changes(p))[f] = row[i][f]
    BY <2>2 DEF Overwrite, Fields
  <2>5. CASE i \in DOMAIN row
    BY <2>3, <2>4, <2>5
  <2>6. CASE i \notin DOMAIN row
    BY <2>3, <2>6
  <2> QED BY <2>5, <2>6
<1>2. SessionsOK /\ OffersOK /\ [CatNext]_catVars =>
        [\A p \in Workers :
            At(p, "edit") /\ session'[p].at = "idle" =>
                \A f \in Fields \ session[p].body.set :
                    row'[session[p].of][f] = row[session[p].of][f]]_catVars
  BY <1>1, OffersStep
<1>3. CatInvariant => SessionsOK
  BY DEF CatInvariant
<1> QED BY <1>2, <1>3, CatInvariantHolds, OffersHold, PTL DEF CatSpec, EditsKeepOthers

(* A student pays a price the item had while it was active and the         *)
(* redemption was under way (redeem loads the item once).                  *)
THEOREM SoldAtOffer == CatSpec => SoldAsOffered
<1>1. OffersOK =>
        [\A p \in Workers :
            At(p, "pay") /\ session'[p].at = "idle" /\ sold' # sold =>
                \E r \in session[p].offers :
                    r.active /\ r.price = Charge(p)]_catVars
  BY DEF OffersOK, Honoured, At, Charge
<1> QED BY <1>1, OffersHold, PTL DEF CatSpec, SoldAsOffered
=============================================================================
