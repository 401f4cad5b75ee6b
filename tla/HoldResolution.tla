----------------------------- MODULE HoldResolution -----------------------------
(***************************************************************************)
(* Reviewed exceptions to the acquisition holds of a release               *)
(* (backend/app/catalog/hold_resolution.py, browse_quarantine.py): an      *)
(* entry of the pinned registry clears the held identities of one place    *)
(* for one exact row, without a new admission.  A row is what is recorded  *)
(* of a place, its facts, and the markers of exceptions that it carries.   *)
(***************************************************************************)
EXTENDS Naturals, FiniteSets

CONSTANT Omitted     \* a region that a projection leaves out

BaseGates == {"rights", "identity", "location", "public_access", "local_duplicate_review"}
Gates == BaseGates \cup {"arrival", "calendar"}
Routing == {"daytime", "food", "culture", "nightlife"}
ArrivalRoles == {"visitor_parking", "public_vehicle_entrance", "constructed_facility_arrival"}
CalendarGrounds == {"published_hours", "explicit_24_hour", "conservative_access_inference"}
Term == 31           \* days from a review until its admission ends, at most

FactsTyped(f) == {"id", "aliases", "contracts", "region", "calendars"} \subseteq DOMAIN f /\ f = [field \in DOMAIN f |-> f[field]]
\* The identities by which a row may be held: its own, its contracts' and its aliases'.
Identities(f) == {f.id} \cup {c.id : c \in f.contracts} \cup f.aliases

-----------------------------------------------------------------------------
(* The facts that an entry may approve *)

\* browse_quarantine.apply: the restriction is the one made of the row's own review, without any windows.
BrowseHold(f) == [by |-> "browse hold", calendar |-> [windows |-> {}, unknown |-> TRUE, receipts |-> {f.receipt}]]
Quarantined(f) == f.categories \cap Routing = {} /\ f.calendars = {BrowseHold(f)}

Opens(w) == w.closes > w.opens \/ w.nextday

\* The qualification speaks of the row's own arrival, from receipts read before its review.
Grounded(f, q) ==
  /\ q.receipts # {} /\ \A r \in q.receipts : r.checked <= q.reviewed
  /\ q.arrival.role \in ArrivalRoles /\ q.arrival.public /\ q.arrival.same /\ q.arrival.moved = f.moved
  /\ q.basis.kind \in CalendarGrounds /\ q.zone
  /\ \A cited \in {q.calendar.receipts, q.arrival.receipts, q.basis.receipts} : cited # {} /\ cited \subseteq q.receipts
  /\ q.calendar.windows # {} /\ (\A w \in q.calendar.windows : Opens(w)) /\ ~q.calendar.unknown

\* It keeps the complete row it was made of, whose admission it does not outlast.
Retains(f, contract, old) ==
  /\ old.id = f.id /\ old.region = f.region /\ old.native = f.native
  /\ \E was \in old.contracts : /\ old.contracts = {was} /\ was.tier = "T2" /\ was.id = f.id
                                /\ was.expires >= contract.expires

\* _valid_routing_payload
Promoted(f, contract) ==
  /\ contract.gates = Gates /\ f.categories \cap Routing # {}
  /\ \E q \in f.calendars, old \in f.history :
       /\ f.calendars = {q} /\ q.by = "qualification" /\ f.history = {old} /\ q.previous = old
       /\ q.reviewed = contract.reviewed
       /\ Retains(f, contract, old) /\ Grounded(f, q)

\* _valid_payload: a browse row that is quarantined, or a routing row that was promoted.
Approved(f) ==
  \E c \in f.contracts :
    /\ f.contracts = {c} /\ c.id = f.id /\ c.approved /\ c.tier \in {"T2", "T3"} /\ BaseGates \subseteq c.gates
    /\ c.reviewed < c.expires /\ c.expires - c.reviewed <= Term
    /\ "catalog_browse" \in f.categories
    /\ IF c.tier = "T3" THEN Promoted(f, c) ELSE Quarantined(f)

-----------------------------------------------------------------------------
(* The registry *)

MarkerOf(e) == [id |-> e.facts.id, region |-> e.facts.region, row |-> e.facts, ids |-> e.ids]

\* An entry covers every held identity of its row, each with a reviewed cause.
EntryStands(e, held) ==
  /\ Approved(e.facts)
  /\ e.ids # {} /\ e.ids = Identities(e.facts) \cap held
  /\ e.marker = MarkerOf(e) /\ e.causes = e.ids /\ ~e.renewed

\* load_registry, at startup: one entry for each version of a row.
RegistryStands(registry, held) ==
  /\ \A e \in registry : EntryStands(e, held)
  /\ \A e, d \in registry : e.facts = d.facts => e = d

-----------------------------------------------------------------------------
(* Looking a row up in it *)

\* What a search reads of a row: no region, and an imported calendar in place of its own.
Projection(row, imported) ==
  [facts |-> [row.facts EXCEPT !.region = Omitted, !.calendars = IF imported THEN {} ELSE @], markers |-> row.markers]

\* _canonical: the facts of a record that carries the entry's marker and no other; a region comes from the marker.
Canonical(row, e) ==
  [row.facts EXCEPT !.region = IF @ = Omitted THEN e.marker.region ELSE @]

\* resolved
Resolved(row, supplied, registry) ==
  \E e \in registry : supplied = e.ids /\ row.markers = {e.marker} /\ Canonical(row, e) = e.facts

\* sql_resolved, by the digest of the stored row; an imported calendar ends the exception.
SqlResolved(row, imported, registry) ==
  \E e \in registry :
    /\ row.facts = e.facts /\ row.markers = {e.marker} /\ ~imported
    /\ \E c \in row.facts.contracts, q \in row.facts.calendars :
         /\ row.facts.contracts = {c} /\ c.tier \in {"T2", "T3"} /\ c.id = row.facts.id
         /\ row.facts.calendars = {q}
         /\ IF row.facts.categories \cap Routing = {} THEN q.by = "browse hold" /\ q.calendar.windows = {}
            ELSE q.by = "qualification" /\ ~q.calendar.unknown /\ c.tier = "T3"

\* blocked: a hold on any identity, unless it is resolved for this row.
Blocked(row, held, registry) ==
  LET ids == Identities(row.facts) \cap held IN ids # {} /\ ~Resolved(row, ids, registry)
SqlBlocked(row, imported, held, registry) ==
  Identities(row.facts) \cap held # {} /\ ~SqlResolved(row, imported, registry)
=============================================================================
