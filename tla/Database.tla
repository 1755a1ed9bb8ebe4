------------------------------ MODULE Database ------------------------------
(***************************************************************************)
(* The Postgres database behind the API, through TypeORM: the sponsor and  *)
(* investor tables (one shape, told apart by the role), the offer table    *)
(* and the two junction tables offer_sponsor and offer_investor            *)
(* (src/lib/data-access/*.entity.ts).                                      *)
(*                                                                         *)
(* A query is one step.  save() of an entity with a many-to-many list is   *)
(* two: TypeORM first reads the links the database holds, then writes the  *)
(* difference to the list in memory, in a transaction of its own.          *)
(***************************************************************************)
EXTENDS Casper, FiniteSets

CONSTANTS
    Parties,    \* values of id_sponsor and of id_investor
    OfferIds    \* values of id_offer

OfferRows == [name : Labels, symbol : Labels, contract : Contracts]

ASSUME DatabaseAssumption ==
    /\ None \notin Parties
    /\ None \notin OfferIds
    /\ None \notin OfferRows

Roles == {"sponsor", "investor"}

VARIABLES
    record,   \* the key of each party that has a row, by role
    offers,   \* the offer table, by id_offer
    links     \* the junction tables, by role: pairs of party and offer

dbVars == <<record, offers, links>>

DatabaseTypeOK ==
    /\ record \in [Roles -> [Parties -> Keys \cup {None}]]
    /\ offers \in [OfferIds -> OfferRows \cup {None}]
    /\ links \in [Roles -> SUBSET (Parties \X OfferIds)]

DatabaseInit ==
    /\ record = [role \in Roles |-> [p \in Parties |-> None]]
    /\ offers = [o \in OfferIds |-> None]
    /\ links = [role \in Roles |-> {}]

-----------------------------------------------------------------------------
Saved == {o \in OfferIds : offers[o] # None}

(* getOfferRecordByNameOrSymbol: where: [{ name }, { symbol }]. *)
NameOrSymbolTaken(name, symbol) ==
    \E o \in Saved : offers[o].name = name \/ offers[o].symbol = symbol

(* Faulty variant: save() replaces the row of an id it finds. *)
CanReplaceOffer(o, row) ==
    \A other \in Saved \ {o} : /\ offers[other].name # row.name
                               /\ offers[other].symbol # row.symbol
                               /\ offers[other].contract # row.contract

(* The unique constraints of the offer table. *)
CanInsertOffer(o, row) ==
    /\ offers[o] = None
    /\ \A other \in Saved : /\ offers[other].name # row.name
                            /\ offers[other].symbol # row.symbol
                            /\ offers[other].contract # row.contract

InsertOffer(o, row) ==
    /\ offers' = [offers EXCEPT ![o] = row]
    /\ UNCHANGED <<record, links>>

(* Faulty variant: the row of a party is replaced by a later one. *)
CanReplaceParty(role, p, k) ==
    \A other \in Parties \ {p} : record[role][other] # k

(* The unique constraints of the sponsor and investor tables; a row is
   inserted, never updated, for its generated id is not known to save(). *)
CanInsertParty(role, p, k) ==
    /\ record[role][p] = None
    /\ \A other \in Parties : record[role][other] # k

InsertParty(role, p, k) ==
    /\ record' = [record EXCEPT ![role][p] = k]
    /\ UNCHANGED <<offers, links>>

-----------------------------------------------------------------------------
LinkedOffers(role, p) == {o \in OfferIds : <<p, o>> \in links[role]}

(* save() of an entity: before is what its first step read, list what the
   entity holds in memory.  The insertions meet the primary key of the
   junction table; the deletions never fail. *)
CanSaveList(role, p, before, list) ==
    (list \ before) \cap LinkedOffers(role, p) = {}

SaveList(role, p, before, list) ==
    /\ links' = [links EXCEPT ![role] =
                    (@ \ {<<p, o>> : o \in before \ list})
                       \cup {<<p, o>> : o \in list \ before}]
    /\ UNCHANGED <<record, offers>>
=============================================================================
