----------------------------- MODULE Catalogue ------------------------------
(***************************************************************************)
(* Administrators create and edit reward items and earning rules           *)
(* (app/services/catalog_service.py) while vendors sell the items and      *)
(* reversals return units to them.  An edit goes through the ORM: it loads *)
(* the row, assigns the fields of the request, and its UPDATE writes those *)
(* that differ from what was loaded.  Sales and returns count in SQL       *)
(* (app/repositories/reward_item.py).  Of a redemption only what it does   *)
(* to its item is modelled here.                                           *)
(***************************************************************************)
EXTENDS Integers, FiniteSets

CONSTANTS
    Workers,
    Items,     \* reward items
    Codes,     \* earning rules, known by their unique codes
    Bodies,    \* the bodies of the requests that create and edit rows
    Prices,    \* price_tokens of an item, token_amount of a rule
    MaxCount,  \* bound: inventory_count
    MaxSales,  \* bound: redemptions of an item that are not reversed
    Null

Counts == 0..MaxCount
Fields == {"price", "count", "active"}
Things == Items \cup Codes
RowType == [price: Prices, count: Counts \cup {Null}, active: BOOLEAN]

(* What a buyer is told of a row. *)
OfferType == [price: Prices, active: BOOLEAN]
OfferOf(r) == [price |-> r.price, active |-> r.active]

(* exclude_unset: a body sets some fields.  A rule has no count. *)
BodyType == [of: Things, set: SUBSET Fields, to: RowType]

ASSUME CatalogueAssumption ==
    /\ Items \cap Codes = {}
    /\ Bodies \subseteq BodyType
    /\ \A b \in Bodies : b.of \in Codes => "count" \notin b.set /\ b.to.count = Null
    /\ MaxCount \in Nat /\ MaxSales \in Nat
    /\ Null \notin Counts \cup RowType \cup BodyType

VARIABLES
    row,       \* committed rows of reward_items and earning_rules
    creators,  \* how many calls were told that they created a row
    sold,      \* completed redemptions of an item, those not reversed
    base,      \* history: the count of an item as it was last written
    moved,     \* history: units returned less units sold since then
    session    \* what a worker's database session is doing

catVars == <<row, creators, sold, base, moved, session>>

Statements == {"idle", "insertRule", "commitRule", "edit", "reserve", "pay"}

(* loaded is the ORM's copy of the row, reserved says that this session    *)
(* has counted a unit down and holds the row lock; offers is the history   *)
(* of the row since it was loaded.                                         *)
SessionType == [at: Statements, of: Things \cup {Null},
                body: BodyType \cup {Null}, loaded: RowType \cup {Null},
                reserved: BOOLEAN, offers: SUBSET OfferType]

Idle == [at |-> "idle", of |-> Null, body |-> Null, loaded |-> Null,
         reserved |-> FALSE, offers |-> {}]

CatInit ==
    /\ row = [i \in Things |-> Null]
    /\ creators = [i \in Things |-> 0]
    /\ sold = [i \in Items |-> 0]
    /\ base = [i \in Items |-> Null]
    /\ moved = [i \in Items |-> 0]
    /\ session = [p \in Workers |-> Idle]

At(p, s) == session[p].at = s

EndSession(p) ==
    /\ session' = [session EXCEPT ![p] = Idle]
    /\ UNCHANGED <<row, creators, sold, base, moved>>

(* The row lock of an item is held from its UPDATE to the commit. *)
RowLocked(p, i) ==
    \E q \in Workers \ {p} : session[q].of = i /\ session[q].reserved

-----------------------------------------------------------------------------
(* create_reward_item and create_earning_rule.                             *)

Store(p, i, r) ==
    /\ row' = [row EXCEPT ![i] = r]
    /\ base' = [j \in Items |-> IF j = i THEN r.count ELSE base[j]]
    /\ creators' = [creators EXCEPT ![i] = @ + 1]
    /\ session' = [session EXCEPT ![p] = Idle]
    /\ UNCHANGED <<sold, moved>>

(* Nothing is unique about an item. *)
CreateItem(p) ==
    /\ At(p, "idle")
    /\ \E b \in Bodies :
        /\ b.set = Fields /\ b.of \in Items
        /\ row[b.of] = Null
        /\ Store(p, b.of, b.to)

(* get_by_code; a code that is taken is a conflict. *)
CreateRule(p) ==
    /\ At(p, "idle")
    /\ \E b \in Bodies :
        /\ b.set = Fields \ {"count"} /\ b.of \in Codes
        /\ row[b.of] = Null
        /\ session' = [session EXCEPT ![p] =
              [Idle EXCEPT !.at = "insertRule", !.of = b.of, !.body = b]]
    /\ UNCHANGED <<row, creators, sold, base, moved>>

(* The insert waits for another of its code; IntegrityError is a conflict. *)
InsertRule(p) ==
    /\ At(p, "insertRule")
    /\ ~\E q \in Workers \ {p} :
            At(q, "commitRule") /\ session[q].of = session[p].of
    /\ \/ row[session[p].of] # Null /\ EndSession(p)
       \/ /\ row[session[p].of] = Null
          /\ session' = [session EXCEPT ![p].at = "commitRule"]
          /\ UNCHANGED <<row, creators, sold, base, moved>>

CommitRule(p) ==
    /\ At(p, "commitRule")
    /\ Store(p, session[p].of, session[p].body.to)

-----------------------------------------------------------------------------
(* update_reward_item and update_earning_rule.                             *)

LoadForEdit(p) ==
    /\ At(p, "idle")
    /\ \E b \in Bodies :
        /\ row[b.of] # Null
        /\ session' = [session EXCEPT ![p] =
              [Idle EXCEPT !.at = "edit", !.of = b.of, !.body = b,
                           !.loaded = row[b.of]]]
    /\ UNCHANGED <<row, creators, sold, base, moved>>

(* Mutant: the UPDATE writes the whole object back. *)
ChangesAll(p) ==
    [f \in Fields |-> IF f \in session[p].body.set THEN session[p].body.to[f]
                      ELSE session[p].loaded[f]]

(* The fields the UPDATE writes, with their values. *)
Changes(p) ==
    LET b == session[p].body
    IN [f \in {f \in b.set : b.to[f] # session[p].loaded[f]} |-> b.to[f]]

Overwrite(r, changes) ==
    LET new(f) == IF f \in DOMAIN changes THEN changes[f] ELSE r[f]
    IN [price |-> new("price"), count |-> new("count"), active |-> new("active")]

(* Whoever has loaded a row and not finished sees it offered anew. *)
Offered(p, i, r) ==
    [q \in Workers |->
        IF q = p THEN Idle
        ELSE IF session[q].of = i /\ session[q].offers # {}
             THEN [session[q] EXCEPT !.offers = @ \cup {OfferOf(r)}] ELSE session[q]]

(* The UPDATE is flushed with the audit row, right before the commit; it   *)
(* waits for a sale or return of the item that is under way.               *)
CommitEdit(p) ==
    LET i == session[p].of
        changes == Changes(p)
        counted == i \in Items /\ "count" \in DOMAIN changes
    IN /\ At(p, "edit")
       /\ DOMAIN changes # {} => ~RowLocked(p, i)
       /\ row' = [row EXCEPT ![i] = Overwrite(@, changes)]
       /\ base' = IF counted THEN [base EXCEPT ![i] = changes.count] ELSE base
       /\ moved' = IF counted THEN [moved EXCEPT ![i] = 0] ELSE moved
       /\ session' = Offered(p, i, Overwrite(row[i], changes))
       /\ UNCHANGED <<creators, sold>>

-----------------------------------------------------------------------------
(* What a redemption does to its item, and what its reversal does.         *)

(* get_by_id: only an active item is sold. *)
LoadForSale(p) ==
    /\ At(p, "idle")
    /\ \E i \in Items :
        /\ row[i] # Null /\ row[i].active
        /\ sold[i] < MaxSales
        /\ session' = [session EXCEPT ![p] =
              [Idle EXCEPT !.at = "reserve", !.of = i, !.loaded = row[i],
                           !.offers = {OfferOf(row[i])}]]
    /\ UNCHANGED <<row, creators, sold, base, moved>>

Tracked(r) == r.count # Null

(* Mutant: the UPDATE does not wait for another's. *)
ReserveUnlocked(p) ==
    LET i == session[p].of
    IN /\ At(p, "reserve")
       /\ Tracked(session[p].loaded) => row[i].count \notin {Null, 0}
       /\ session' = [session EXCEPT ![p].at = "pay",
                           ![p].reserved = Tracked(session[p].loaded)]
       /\ UNCHANGED <<row, creators, sold, base, moved>>

(* reserve_inventory: whether units are counted is decided on the loaded   *)
(* row, whether there is one left by the UPDATE, which waits for the row.  *)
Reserve(p) ==
    LET i == session[p].of
    IN /\ At(p, "reserve")
       /\ \/ /\ ~Tracked(session[p].loaded)
             /\ session' = [session EXCEPT ![p].at = "pay"]
             /\ UNCHANGED <<row, creators, sold, base, moved>>
          \/ /\ Tracked(session[p].loaded) /\ ~RowLocked(p, i)
             /\ row[i].count \in {Null, 0}
             /\ EndSession(p)
          \/ /\ Tracked(session[p].loaded) /\ ~RowLocked(p, i)
             /\ row[i].count \notin {Null, 0}
             /\ session' = [session EXCEPT ![p].at = "pay", ![p].reserved = TRUE]
             /\ UNCHANGED <<row, creators, sold, base, moved>>

(* Mutant: the count is written back from the loaded row. *)
ReservedFromLoaded(p, i) ==
    IF session[p].reserved THEN session[p].loaded.count - 1 ELSE row[i].count

ReservedCount(p, i) ==
    IF session[p].reserved THEN row[i].count - 1 ELSE row[i].count

(* Mutant: the price is read again when it is charged. *)
ChargeCurrent(p) == row[session[p].of].price

(* item.price_tokens of the loaded row. *)
Charge(p) == session[p].loaded.price

(* The rest of the redemption, at Charge(p), succeeds or rolls back. *)
FailSale(p) ==
    /\ At(p, "pay")
    /\ EndSession(p)

CommitSale(p) ==
    LET i == session[p].of
    IN /\ At(p, "pay")
       /\ sold[i] < MaxSales
       /\ row' = [row EXCEPT ![i].count = ReservedCount(p, i)]
       /\ sold' = [sold EXCEPT ![i] = @ + 1]
       /\ moved' = IF session[p].reserved THEN [moved EXCEPT ![i] = @ - 1]
                                          ELSE moved
       /\ session' = [session EXCEPT ![p] = Idle]
       /\ UNCHANGED <<creators, base>>

(* restore_inventory: a no-op for untracked items. *)
Return(i) ==
    /\ sold[i] > 0
    /\ \A q \in Workers : ~(session[q].of = i /\ session[q].reserved)
    /\ sold' = [sold EXCEPT ![i] = @ - 1]
    /\ \/ /\ ~Tracked(row[i])
          /\ UNCHANGED <<row, moved>>
       \/ /\ Tracked(row[i]) /\ row[i].count < MaxCount
          /\ row' = [row EXCEPT ![i].count = @ + 1]
          /\ moved' = [moved EXCEPT ![i] = @ + 1]
    /\ UNCHANGED <<creators, base, session>>

CatNext ==
    \/ \E p \in Workers :
        \/ CreateItem(p) \/ CreateRule(p) \/ InsertRule(p) \/ CommitRule(p)
        \/ LoadForEdit(p) \/ CommitEdit(p)
        \/ LoadForSale(p) \/ Reserve(p) \/ FailSale(p) \/ CommitSale(p)
        \/ ~At(p, "idle") /\ EndSession(p)
    \/ \E i \in Items : Return(i)

CatSpec == CatInit /\ [][CatNext]_catVars

-----------------------------------------------------------------------------
(* Properties.                                                             *)

(* Types; one session at a time has counted down a unit of an item, and    *)
(* one caller alone is told that it created a row.                         *)
CatTypeOK ==
    /\ row \in [Things -> RowType \cup {Null}]
    /\ \A i \in Codes : row[i] # Null => ~Tracked(row[i])
    /\ creators = [i \in Things |-> IF row[i] = Null THEN 0 ELSE 1]
    /\ sold \in [Items -> 0..MaxSales]
    /\ base \in [Items -> Counts \cup {Null}]
    /\ moved \in [Items -> Int]
    /\ session \in [Workers -> SessionType]
    /\ \A p \in Workers : session[p].reserved =>
         /\ At(p, "pay") /\ ~RowLocked(p, session[p].of)
         /\ row[session[p].of].count \in Counts \ {0}

(* The count of an item is what an administrator last wrote, less every    *)
(* unit counted off since and plus every unit returned, and so not         *)
(* negative, however edits, sales and reversals overlap.                   *)
StockAccounted ==
    \A i \in Items : row[i] # Null =>
        /\ Tracked(row[i]) <=> base[i] # Null
        /\ Tracked(row[i]) => row[i].count = base[i] + moved[i]

(* An edit leaves what it does not name as it is when it commits, not as   *)
(* it was loaded: two administrators' edits of different fields both       *)
(* last, and an edited price puts no sold unit back.                       *)
EditsKeepOthers ==
    [][\A p \in Workers :
            At(p, "edit") /\ session'[p].at = "idle" =>
                \A f \in Fields \ session[p].body.set :
                    row'[session[p].of][f] = row[session[p].of][f]]_catVars

(* A student pays what the item was offered for while it was active, at    *)
(* some moment of the redemption: never the price of one edit under the    *)
(* activity of another, or one from before the redemption began.           *)
SoldAsOffered ==
    [][\A p \in Workers :
            At(p, "pay") /\ session'[p].at = "idle" /\ sold' # sold =>
                \E r \in session[p].offers :
                    r.active /\ r.price = Charge(p)]_catVars
=============================================================================
