------------------------------ MODULE CatalogRefresh ------------------------------
(***************************************************************************)
(* The unattended refresh of the catalog                                   *)
(* (scripts/catalog_automated_import.py, catalog_incremental_bundle.py):   *)
(* it pins the generation that is served, acquires the facilities of the   *)
(* Park Service and of the Forest Service, selects what is new and what    *)
(* only lacks hours, and writes an enrichment that an operator imports     *)
(* (catalog_incremental_import.py, SourceAdmission).  A refresh of a world *)
(* names the sources in the order of the command, the stretch of road that *)
(* is of interest, the parent, and the enrichment that it writes.          *)
(***************************************************************************)
EXTENDS SourceAdmission

-----------------------------------------------------------------------------
(* The acquisitions of one run, in which records fail to load *)

\* corridor_grid, nearby_corridors: within five miles of the retained roads; NoProof where these pass everywhere.
OnRoute(refresh, r) == refresh.corridor = NoProof \/ Inside(r.at, refresh.corridor)

\* acquire of automated_nps.py: a facility whose unit, page or drive fails to load is left out.
ParksAcquired(b, lost) == [b EXCEPT !.records = @ \ lost]

\* acquire of usfs_current.py: of the sites that are open, those that the parent has and those along the road;
\* a drive that fails to load is missing.
ForestAcquired(b, refresh, parent, lost) ==
  LET known == {p.native : p \in {q \in UNION {Parts(r) : r \in parent} : q.source \in ForestSources}}
      discovered == {r \in b.records : r.kind = "site" /\ Says(r, "construction", {"open"}) /\ (r.native \in known \/ OnRoute(refresh, r))}
  IN [b EXCEPT !.records = {IF r \in lost THEN [r EXCEPT !.drive = NoProof] ELSE r : r \in discovered}]

Acquired(refresh, parent) ==
  LET acquire(b, lost) == IF b.source = "facilities" THEN ParksAcquired(b, lost) ELSE ForestAcquired(b, refresh, parent, lost)
      all == UNION {b.records : b \in Range(refresh.sources)}
  IN {[i \in DOMAIN refresh.sources |-> acquire(refresh.sources[i], lost)] : lost \in SUBSET all}

-----------------------------------------------------------------------------
(* The artifact *)

\* Identity, name and region, or 250 metres.
Conflict(r, o) == o.id = r.id \/ (o.region = r.region /\ o.names = r.names) \/ Near(o, r)

\* Candidates by source, which of them the parent does not hold back, and their turn: by source, then by identity.
Candidates(replayed) == UNION {{i} \X replayed[i] : i \in DOMAIN replayed}
Unheld(parent, replayed) == {c \in Candidates(replayed) : ~\E o \in parent : Conflict(c[2], o)}
Before(d, c) == d[1] < c[1] \/ (d[1] = c[1] /\ d[2].id < c[2].id)

\* Seeded bug: candidates are compared with the parent only.
AgainstParent(parent, replayed) == {c[2] : c \in Unheld(parent, replayed)}
\* select_arrivals: what the parent or a candidate selected before holds back is not selected.
Arrivals(parent, replayed) ==
  LET new == Unheld(parent, replayed)
  IN {c[2] : c \in Kept(new, {dc \in new \X new : Before(dc[1], dc[2]) /\ Conflict(dc[2][2], dc[1][2])})}

\* bundle: hours for the one place of the parent that has the same facility number and point, and no hours yet.
Bindings(parent, rows) ==
  LET places(r) == {o \in parent.rows : Cardinality(Keys(o)) = 1 /\ Keys(o) = Keys(r)}
      bound == {r \in rows : Cardinality(places(r)) = 1 /\ \A o \in places(r) : o.id \notin DOMAIN parent.calendars /\ Binds(r, o)}
      row(id) == CHOOSE r \in bound : r.id = id
  IN [id \in Ids(bound) |-> (CHOOSE o \in places(row(id)) : TRUE).id]

\* The road is applied after the selection, so a place off it still holds back its neighbours.
Bundle(refresh, sources, replayed, parent) ==
  LET selected == {r \in Arrivals(parent.rows, replayed) : OnRoute(refresh, r)}
      input(i, bindings) == [batch |-> sources[i], bindings |-> bindings,
                             selected |-> Ids(selected \cap replayed[i]) \ DOMAIN bindings]
  IN [parent |-> refresh.parent, entries |-> <<>>,
      inputs |-> [i \in DOMAIN sources |-> input(i, Bindings(parent, replayed[i]))]]

\* NoUsableChanges writes nothing.
Usable(payload) == \E i \in DOMAIN payload.inputs : payload.inputs[i].selected # {} \/ DOMAIN payload.inputs[i].bindings # {}

\* refresh: the snapshot, both acquisitions and the artifact.
Refresh ==
  /\ world # NoProof /\ world.refresh # NoProof
  /\ serving = world.refresh.parent /\ offered[world.refresh.writes] = NoProof
  /\ \E sources \in Acquired(world.refresh, staged[serving].rows) :
       /\ \A i \in DOMAIN sources : sources[i].records # {}
       /\ \E replayed \in {[i \in DOMAIN sources |-> Replay(sources[i], day)]} :
            /\ Refused \notin Range(replayed)
            /\ \E payload \in {Bundle(world.refresh, sources, replayed, staged[serving])} :
                 /\ Usable(payload)
                 /\ offered' = [offered EXCEPT ![world.refresh.writes] = payload]
  /\ UNCHANGED <<world, day, staged, receipts, serving>>

-----------------------------------------------------------------------------
(* With the calendars of single pages, and trips to the places *)

catalogVars == <<publishedVars, admissionVars>>

AnyVisitor ==
  /\ page = NoPage /\ calendar = NoPage
  /\ \E w \in Waiting : trip = TripOf(w.policy, w.departure, w.route, <<w.visit>>)
  /\ plan = [NewPlan(trip.departure) EXCEPT !.at = "waiting"]
  /\ check = NewCheck(trip.departure)

CatalogInit == (PublishedInit /\ NoAdmission) \/ (AnyVisitor /\ AdmissionInit)

\* Imports end with the first look at what is served.
CatalogNext ==
  \/ PublishedNext /\ UNCHANGED admissionVars
  \/ page = NoPage /\ (AdmissionNext \/ Refresh) /\ UNCHANGED publishedVars
  \/ Look

CatalogSpec == CatalogInit /\ [][CatalogNext]_catalogVars

-----------------------------------------------------------------------------
(* Properties *)

\* What a refresh writes is what the importer accepts: while the pinned parent is served and every page is in
\* time, the artifact passes each of the importer's own checks, whatever units failed to load, whatever the
\* sources have in common, and however the two compare places.
RefreshIsAccepted ==
  world # NoProof /\ world.refresh # NoProof =>
    LET refresh == world.refresh
        payload == offered[refresh.writes]
    IN payload # NoProof /\ serving = refresh.parent
       /\ (\A i \in DOMAIN payload.inputs : \A r \in payload.inputs[i].batch.records : Fresh(r, day, Month))
       => /\ payload.parent = refresh.parent /\ staged[refresh.parent] # NoProof
          /\ Accepts(payload, staged[refresh.parent], Replays(payload, day))
=============================================================================
