----------------------------- MODULE SourceAdmission -----------------------------
(***************************************************************************)
(* How reviewed source records become places that are served: each adapter *)
(* replays its batch on the day of the import                              *)
(* (backend/app/catalog/ingest.py, normalize.py, the adapters of           *)
(* ArrivalEvidence and MarketEvidence), batches of several sources form a  *)
(* generation (mixed.py), enrichments add places and hours to one          *)
(* (calendar_enrichment.py, automated_bindings.py), and generations are    *)
(* staged, activated and left again.  A row is the record it was made of.  *)
(* Day 0 is the day of the fixed reviews.  PlacesCatalog has the same      *)
(* generations under concurrent searches, with opaque contents.            *)
(***************************************************************************)
EXTENDS MarketEvidence

CONSTANTS
  Worlds,    \* inputs of one base generation and of those derived from it
  Days,      \* bound on the days that pass
  Refused    \* a batch, or a generation, that is not accepted as a whole

ASSUME AdmissionAssumption == Days \in Nat /\ NoProof \notin Nat

Rosters == {"ny_markets", "ca_markets", "more_ny_markets"}
ParkSources == {"nps", "heritage", "nature", "facilities"}
ForestSources == {"usfs", "usfs_current"}
Unrouted == {"nps", "boulder", "beaches", "pilot"}
Unattended == {"facilities", "usfs_current"}
Sources == ParkSources \cup ForestSources \cup Rosters \cup Unrouted
           \cup {"overture", "roadside", "markets", "parks", "cultural", "coastal"}

\* Whose word on a place an adapter retains: an operator's on open data only with a review of the whole extract,
\* none of a facility or a market, whose text and rosters are its page.
Publishers(b) ==
  CASE b.source = "overture" -> IF b.reviewed THEN {"overture", "operator"} ELSE {"overture"}
    [] b.source = "roadside" -> {"overture", "operator"}
    [] b.source \in {"boulder", "cultural", "pilot"} -> {"operator"}
    [] b.source \in (ParkSources \cup {"beaches"}) \ {"facilities"} -> {"agency"}
    [] b.source \in ForestSources -> {"construction", "public"}
    [] b.source = "parks" -> {"operator", "wikidata", "list"}
    [] b.source = "coastal" -> {"beach", "park"}
    [] OTHER -> {}

\* A record of a source that states hours carries its page, a market what its feeds and rosters state.
PagesOf(source) ==
  CASE source = "parks" -> {"table"}
    [] source = "facilities" -> {"facility"}
    [] source = "usfs_current" -> {"usfs_current"}
    [] source = "cultural" -> {"gallery", "event"}
    [] source = "coastal" -> {"shore"}
    [] OTHER -> {}
AtMarket(r) == r.source \in Rosters \cup {"markets"}
PageOf(r) == IF AtMarket(r) THEN MarketPage(r) ELSE r.page
PageFits(r) ==
  /\ {"source", "page", "donors"} \subseteq DOMAIN r
  /\ PagesOf(r.source) # {} => r.page.source \in PagesOf(r.source) /\ PageTyped(r.page)
  /\ AtMarket(r) => {"feeds", "officials"} \subseteq DOMAIN r /\ PageTyped(MarketPage(r))

RecordTyped(r, b) ==
  /\ {"source", "id", "at", "native", "donors", "says", "read", "page"} \subseteq DOMAIN r
  /\ r.source = b.source /\ r.id \in Nat /\ r.donors = {} /\ DOMAIN r.says \subseteq Publishers(b) /\ PageFits(r)
  /\ "drive" \in DOMAIN r => b.source \notin Unrouted /\ (r.drive # NoProof => r.drive.claimed \in Nat)
\* An agency's identities are its own facility numbers.
BatchTyped(b) ==
  /\ {"source", "records"} \subseteq DOMAIN b /\ b.source \in Sources /\ \A r \in b.records : RecordTyped(r, b)
  /\ b.source \in Unattended => \A r, o \in b.records : r.id = o.id => r.native = o.native

\* Enrichments are numbered from 1, each has a parent in its world, and a refresh writes one that is not there.
\* Reviewed entries are what an adapter makes of their page.
WorldTyped(w) ==
  LET last == Len(w.enrichments)
  IN /\ w # NoProof /\ last \in Nat /\ DOMAIN w.enrichments = 1..last /\ Len(w.merges) \in Nat
     /\ \A i \in DOMAIN w.inputs : BatchTyped(w.inputs[i])
     /\ \A g \in 1..last : w.enrichments[g] # NoProof =>
          /\ w.enrichments[g].parent \in 0..last
          /\ \A i \in DOMAIN w.enrichments[g].inputs : BatchTyped(w.enrichments[g].inputs[i].batch)
          /\ \A id \in DOMAIN w.enrichments[g].entries :
               LET entry == w.enrichments[g].entries[id]
               IN PageTyped(entry.page) /\ entry.hours \in {Held, Unresolved, Adapted(entry.page)}
     /\ w.refresh # NoProof =>
          /\ w.refresh.parent \in 0..last /\ w.refresh.writes \in 1..last /\ w.enrichments[w.refresh.writes] = NoProof
          /\ DOMAIN w.refresh.sources \subseteq Nat \ {0}
          /\ \A i \in DOMAIN w.refresh.sources :
               /\ BatchTyped(w.refresh.sources[i]) /\ w.refresh.sources[i].source \in Unattended
               /\ \A j \in DOMAIN w.refresh.sources : w.refresh.sources[i].source = w.refresh.sources[j].source => i = j
ASSUME WorldsAssumption == \A w \in Worlds : WorldTyped(w)

VARIABLES
  world,     \* one of Worlds, NoProof while none is imported
  day,
  offered,   \* payload of each enrichment, NoProof until it is written
  staged,    \* rows and calendars of generation 0, the base, and of each enrichment, NoProof before staging
  receipts,  \* enrichments whose recovery receipt is frozen
  serving    \* the active generation

admissionVars == <<world, day, offered, staged, receipts, serving>>

Ids(rows) == {r.id : r \in rows}
OneEach(rows) == \A a, b \in rows : a.id = b.id => a = b
Near(a, b) == Distance(a.at, b.at) \in 0..(Campus - 1)

\* What is kept of candidates that are taken in turn: each that none kept before it hinders.
Kept(candidates, hinders) ==
  CHOOSE kept \in SUBSET candidates : kept = {c \in candidates : ~\E d \in kept : <<d, c>> \in hinders}

-----------------------------------------------------------------------------
(* One record, alone *)

Qualifies(r, today) ==
  CASE r.source = "overture" -> PlaceQualifies(r)
    [] r.source = "boulder" -> TrailheadQualifies(r)
    [] r.source = "nps" -> ParkCenterQualifies(r)
    [] r.source \in {"heritage", "nature"} -> SiteCenterQualifies(r)
    [] r.source = "beaches" -> BeachLotQualifies(r)
    [] r.source = "roadside" -> RoadsideQualifies(r, today)
    [] r.source = "usfs" -> ReserveQualifies(r, today) /\ Drives(r)
    [] r.source = "markets" -> MarketQualifies(r, today)
    [] r.source = "parks" -> ParkQualifies(r, today)
    [] r.source = "facilities" -> FacilityQualifies(r, today)
    [] r.source = "usfs_current" -> PrimaryQualifies(r, 0) /\ Drives(r) /\ r.reviewed
    [] r.source = "cultural" -> CulturalQualifies(r, today)
    [] r.source = "coastal" -> CoastalQualifies(r, today)
    [] r.source = "ny_markets" -> NyQualifies(r)
    [] r.source = "ca_markets" -> CaQualifies(r)
    [] r.source = "more_ny_markets" -> NyMoreQualifies(r)
    [] r.source = "pilot" -> ProspectQualifies(r, today)

\* The calendar that is made of a record: with the row itself for markets and parks, else as an entry.
HoursOf(r) == IF AtMarket(r) \/ PagesOf(r.source) # {} THEN Adapted(PageOf(r)) ELSE NoPage
Calendar(r) == [page |-> PageOf(r), hours |-> HoursOf(r)]

-----------------------------------------------------------------------------
(* A batch: the records of one source, replayed against its receipts *)

\* Receipts whose age refuses all of the batch; the Forest Service's are of the review or the day before,
\* and the rosters' review has its own term.
InTime(b, today) ==
  /\ b.source \notin {"overture", "pilot"} => \A r \in b.records : Fresh(r, today, Month)
  /\ b.source = "usfs_current" => \A r \in b.records : r.read \in {-1, 0}
  /\ b.source \in Rosters => today \in 0..Month

\* A reviewed selection: one record that no longer qualifies ends the import.
Entire(selected, qualified, stands) == IF selected \subseteq qualified /\ stands THEN selected ELSE Refused
Clash(r, others) == \E o \in others : o.id = r.id \/ Near(o, r)

RoadsideRows(b, qualified) == Entire(b.records, qualified, TRUE)
ParkRows(b, qualified) == Entire(b.records, qualified, TRUE)
ReserveRows(b, qualified) == Entire(b.records, qualified, OneEach(b.records))
MarketRows(b, qualified) == Entire(b.records, qualified, \A r \in b.records : ~Clash(r, b.records \ {r}))

\* Reviewed holds of museums and beaches are replayed as well: the evidence must still say why.
MuseumHeld(r) == r.drive # NoProof => Destination(r) /\ ~Drives(r)
ShoreHeld(r) ==
  /\ Destination(r)
  /\ r.method = "closed" => Says(r, "beach", {"closed"})
  /\ r.method = "motorway" => r.way.class = "motorway" /\ ToWay(r.drive.snap, r.way) = 0
OpenApart(r, others) == HoursOf(r) # Held /\ ~Clash(r, others)
MuseumRows(b, qualified) ==
  LET chosen == {r \in b.records : ~r.held}
  IN Entire(chosen, qualified, /\ \A r \in b.records \ chosen : MuseumHeld(r)
                               /\ \A r \in chosen : OpenApart(r, (chosen \ {r}) \cup b.baseline))
ShoreRows(b, qualified) ==
  LET chosen == {r \in b.records : ~r.held}
  IN Entire(chosen, qualified, /\ \A r \in b.records \ chosen : ShoreHeld(r)
                               /\ \A r \in chosen : OpenApart(r, (chosen \ {r}) \cup b.baseline))

\* A list: a record that does not qualify is held by itself, a repeated facility number ends the import.
Distinct(listed, rows) == IF \E r, o \in listed : r # o /\ r.native = o.native THEN Refused ELSE rows
\* The city's directions give the trailhead its point, every other row keeps the native one.
TrailheadRows(b, qualified) == Distinct(b.records, {[r EXCEPT !.at = TrailheadPoint(r)] : r \in qualified})
CenterRows(b, qualified) == Distinct(b.records, qualified)
SiteRows(b, qualified) == Distinct({r \in b.records : SiteListed(r)}, qualified)
FacilityRows(b, qualified) ==
  LET dated == {r \in qualified : HoursOf(r) # Held} IN Distinct(dated, dated)
ForestRows(b, qualified) == Distinct(b.records, {r \in qualified : HoursOf(r) # Held})

\* nps_public: the largest lot of a beach stands for it.
LargestLots(lots) ==
  LET before(o, r) == o.spaces > r.spaces \/ (o.spaces = r.spaces /\ o.native < r.native)
  IN {r \in lots : ~\E o \in lots : o.id = r.id /\ before(o, r)}

\* prepare of ingest.py: open data by record, unless a review of the whole extract is attached.
OpenData(b, rows, today) ==
  IF ~OneEach(rows) \/ (b.reviewed /\ \E r \in rows : ~PlaceReviewed(r, today)) THEN Refused ELSE rows

\* The rosters: new and lone markets that have a date of the review, which must be the frozen ones.
Lone(rows, baseline) ==
  LET new == {r \in rows : r.id \notin Ids(baseline)}
  IN {r \in new : ~\E o \in (new \ {r}) \cup baseline : Near(r, o)}
Reviewable(lone) == {r \in lone : Positive(HoursOf(r))}
Frozen(b, rows, stands) == IF Ids(rows) = b.selection /\ stands THEN rows ELSE Refused
NyRows(b, lone) == Frozen(b, Reviewable(lone), TRUE)
NyMoreRows(b, lone) == Frozen(b, Reviewable(lone), TRUE)
\* California ends the import at a lone market without one.
CaRows(b, lone) == Frozen(b, lone, Reviewable(lone) = lone)

\* prepare of pilot.py: in order, against the local baseline and what was accepted before; one number, one prospect.
Prospects(b, qualified) ==
  LET same(r, o) == \/ r.id = o.id \/ r.native = o.native
                    \/ r.region = o.region /\ r.names \cap o.names # {}
                    \/ Near(r, o)
      new == {r \in qualified : ~\E o \in b.baseline : same(r, o)}
      hinders == {pair \in new \X new : pair[1].id < pair[2].id /\ same(pair[2], pair[1])}
  IN IF OneEach(b.records) THEN Kept(new, hinders) ELSE Refused

Admitted(b, qualified, today) ==
  CASE b.source = "overture" -> OpenData(b, qualified, today)
    [] b.source = "boulder" -> TrailheadRows(b, qualified)
    [] b.source = "nps" -> CenterRows(b, qualified)
    [] b.source \in {"heritage", "nature"} -> SiteRows(b, qualified)
    [] b.source = "beaches" -> LargestLots(qualified)
    [] b.source = "facilities" -> FacilityRows(b, qualified)
    [] b.source = "usfs" -> ReserveRows(b, qualified)
    [] b.source = "usfs_current" -> ForestRows(b, qualified)
    [] b.source = "roadside" -> RoadsideRows(b, qualified)
    [] b.source = "parks" -> ParkRows(b, qualified)
    [] b.source = "cultural" -> MuseumRows(b, qualified)
    [] b.source = "coastal" -> ShoreRows(b, qualified)
    [] b.source = "markets" -> MarketRows(b, qualified)
    [] b.source = "ny_markets" -> NyRows(b, Lone(qualified, b.baseline))
    [] b.source = "ca_markets" -> CaRows(b, Lone(qualified, b.baseline))
    [] b.source = "more_ny_markets" -> NyMoreRows(b, Lone(qualified, b.baseline))
    [] b.source = "pilot" -> Prospects(b, qualified)
Replay(b, today) ==
  IF InTime(b, today) THEN Admitted(b, {r \in b.records : Qualifies(r, today)}, today) ELSE Refused

-----------------------------------------------------------------------------
(* A generation of several sources *)

\* A merged row keeps its point and its name, and takes over what is recorded of the other.
Parts(r) == {r} \cup r.donors
Merge(rows, rule) ==
  LET row(id) == CHOOSE r \in rows : r.id = id
      a == row(rule.keep)
      b == row(rule.merge)
  IN IF \/ rows = Refused
        \/ rule.keep = rule.merge \/ ~({rule.keep, rule.merge} \subseteq Ids(rows))
        \/ a.region # b.region \/ a.names \cap b.names = {} \/ Distance(a.at, b.at) > Campus
     THEN Refused ELSE (rows \ {a, b}) \cup {[a EXCEPT !.donors = @ \cup Parts(b)]}

\* Rows of one name in one place that no mapping resolves.
Colocated(a, b) == a.id # b.id /\ a.region = b.region /\ a.names \cap b.names # {} /\ Distance(a.at, b.at) \in 0..Block

\* assemble
Joined(rows, merges) ==
  LET after[k \in 0..Len(merges)] == IF k = 0 THEN rows ELSE Merge(after[k - 1], merges[k])
      merged == after[Len(merges)]
  IN IF ~OneEach(rows) \/ merged = Refused \/ \E a, b \in merged : Colocated(a, b)
     THEN Refused ELSE [rows |-> merged, calendars |-> <<>>]
Gathered(replayed, merges) ==
  IF {Refused, {}} \cap replayed # {} THEN Refused ELSE Joined(UNION replayed, merges)
Assembled(w, today) == Gathered({Replay(w.inputs[i], today) : i \in DOMAIN w.inputs}, w.merges)

-----------------------------------------------------------------------------
(* An enrichment of a parent generation *)

\* native_key: the publisher's own facility numbers that a row of that publisher carries.
Keys(r) ==
  {<<"forest", p.native>> : p \in {q \in Parts(r) : r.source \in ForestSources /\ q.source \in ForestSources}} \cup
  {<<"park", p.native>> : p \in {q \in Parts(r) : r.source \in ParkSources \cup {"beaches"} /\ q.source \in ParkSources}}

\* bind_calendar: the same facility at the same point, without a calendar of its own.
Binds(r, parent) ==
  /\ Cardinality(Keys(r)) = 1 /\ Keys(r) = Keys(parent) /\ r.at = parent.at
  /\ \A p \in Parts(parent) : p.source \notin {"markets", "parks"}

Adapters == Rosters \cup {"facilities", "usfs_current", "cultural", "coastal", "pilot"}
Chosen(item, rows) == {r \in rows : "selected" \in DOMAIN item => r.id \in item.selected}

\* The places of the parent that an input gives hours to.
Filled(item) == {item.bindings[id] : id \in DOMAIN item.bindings}

\* _additions: what one input may add to the parent, and the hours it may give to places of the parent.
InputStands(item, rows, parent) ==
  LET bound == DOMAIN item.bindings
  IN /\ item.batch.source \in Adapters /\ rows # Refused
     /\ "selected" \in DOMAIN item => item.selected \subseteq Ids(rows)
     /\ bound \subseteq Ids(rows) /\ Filled(item) \subseteq Ids(parent.rows)
     /\ \A i, j \in bound : item.bindings[i] = item.bindings[j] => i = j
     /\ bound # {} => /\ item.batch.source \in Unattended
                      /\ "selected" \in DOMAIN item /\ bound \cap item.selected = {}
     /\ \A r \in rows, o \in parent.rows : r.id \in bound /\ o.id = item.bindings[r.id] => Binds(r, o)
     /\ OneEach(Chosen(item, rows))

\* The calendars of one input, by place; prospects have none.
Entries(item, rows) ==
  LET added == IF item.batch.source = "pilot" THEN {} ELSE Chosen(item, rows)
      bound == {r \in rows : r.id \in DOMAIN item.bindings}
      maker(id) == CHOOSE r \in added \cup bound : id = IF r \in bound THEN item.bindings[r.id] ELSE r.id
  IN [id \in Ids(added) \cup {item.bindings[r.id] : r \in bound} |-> Calendar(maker(id))]

\* validate_entries: windows, or dates that are withheld for a stated reason.
Explicit(c) == c # Held /\ (c.weekly # {} \/ Positive(c) \/ (c.overrides # <<>> /\ c.unknown))

\* Seeded bug: new places of one payload are not compared with each other.
AcrossParent(parent, added) == \A r \in added, o \in parent : ~Near(r, o)
\* _cross_source_arrivals: no new place may be the arrival of another.
Across(parent, added) == \A r \in added, o \in parent \cup added : r # o => ~Near(r, o)

\* Seeded bug: hours of an agency replace those that were imported before.
Overwrites(parent, targets) == FALSE
\* _expected: bindings only fill places without imported hours.
Occupied(parent, targets) == targets \cap DOMAIN parent.calendars # {}

\* By input: what it adds, and the hours of places, those of reviewed entries first.
ChosenBy(c, replayed) == [i \in DOMAIN replayed |-> Chosen(c.inputs[i], replayed[i])]
MadeBy(c, replayed) == [i \in DOMAIN replayed \cup {0} |-> IF i = 0 THEN c.entries ELSE Entries(c.inputs[i], replayed[i])]
AddedBy(chosen) == UNION {chosen[i] : i \in DOMAIN chosen}
NamedBy(made) == UNION {DOMAIN made[i] : i \in DOMAIN made}

\* prepare of calendar_enrichment.py, _expected: all inputs and the reviewed entries fit each other and the parent.
FitsParent(c, parent, chosen, made) ==
  LET apart(sets) == \A i, j \in DOMAIN sets : i # j => sets[i] \cap sets[j] = {}
      targets == UNION {Filled(c.inputs[i]) : i \in DOMAIN c.inputs}
  IN /\ apart([i \in DOMAIN chosen |-> Ids(chosen[i])]) /\ apart([i \in DOMAIN made |-> DOMAIN made[i]])
     /\ Ids(AddedBy(chosen)) \cap Ids(parent.rows) = {} /\ Across(parent.rows, AddedBy(chosen))
     /\ NamedBy(made) \subseteq Ids(parent.rows \cup AddedBy(chosen))
     /\ \A i \in DOMAIN made : \A id \in DOMAIN made[i] : Explicit(made[i][id].hours)
     /\ NamedBy(made) = {} => AddedBy(chosen) # {} /\ \A i \in DOMAIN c.inputs : c.inputs[i].batch.source = "pilot"
     /\ ~Occupied(parent, targets)
Accepts(c, parent, replayed) ==
  /\ \A i \in DOMAIN replayed : InputStands(c.inputs[i], replayed[i], parent)
  /\ FitsParent(c, parent, ChosenBy(c, replayed), MadeBy(c, replayed))

Extended(parent, chosen, made) ==
  LET entry(id) == made[CHOOSE i \in DOMAIN made : id \in DOMAIN made[i]][id]
  IN [rows |-> parent.rows \cup AddedBy(chosen),
      calendars |-> [id \in DOMAIN parent.calendars \cup NamedBy(made) |->
                       IF id \in NamedBy(made) THEN entry(id) ELSE parent.calendars[id]]]
Enrichment(c, parent, replayed) ==
  IF Accepts(c, parent, replayed) THEN Extended(parent, ChosenBy(c, replayed), MadeBy(c, replayed)) ELSE Refused

Replays(c, today) == [i \in DOMAIN c.inputs |-> Replay(c.inputs[i].batch, today)]
Enriched(c, parent, today) == Enrichment(c, parent, Replays(c, today))

-----------------------------------------------------------------------------
(* The imports of one world *)

Content(g, today) ==
  IF g = 0 THEN Assembled(world, today)
  ELSE IF offered[g] = NoProof \/ staged[offered[g].parent] = NoProof THEN Refused
  ELSE Enriched(offered[g], staged[offered[g].parent], today)

Generations == DOMAIN staged
Parent(g) == offered[g].parent
Between(g) == offered[g] # NoProof /\ serving \in {Parent(g), g}

\* ingest.stage and calendar_enrichment.stage
Stage(g, made) ==
  /\ staged[g] = NoProof /\ (g # 0 => Between(g)) /\ made # Refused
  /\ staged' = [staged EXCEPT ![g] = made]
  /\ UNCHANGED <<world, day, offered, receipts, serving>>

\* Seeded bug: what was staged is taken as it was prepared then.
AsStaged(g, made) == staged[g] # NoProof
\* The artifact is prepared again and compared with what is stored.
Prepared(g, made) == staged[g] # NoProof /\ staged[g] = made

\* recovery_receipt
Freeze(g, made) ==
  /\ g \notin receipts \cup {0} /\ Prepared(g, made)
  /\ receipts' = receipts \cup {g}
  /\ UNCHANGED <<world, day, offered, staged, serving>>

\* calendar_enrichment.activate, forward or back.
Switch(g, made) ==
  /\ g # 0 /\ Between(g) /\ Prepared(g, made)
  /\ serving' \in {Parent(g), g}
  /\ UNCHANGED <<world, day, offered, staged, receipts>>

\* ingest.activate: any generation that is staged, an enrichment included, without preparing it again.
Activate(g) ==
  /\ staged[g] # NoProof /\ serving # g
  /\ serving' = g
  /\ UNCHANGED <<world, day, offered, staged, receipts>>

\* rollback: by receipt alone.
Rollback(g) ==
  /\ g \in receipts /\ serving = g
  /\ serving' = Parent(g)
  /\ UNCHANGED <<world, day, offered, staged, receipts>>

NextDay ==
  /\ world # NoProof /\ day < Days /\ day' = day + 1
  /\ UNCHANGED <<world, offered, staged, receipts, serving>>

AdmissionNext ==
  \/ NextDay
  \/ \E g \in Generations :
       \/ Activate(g) \/ Rollback(g)
       \/ \E made \in {Content(g, day)} : Stage(g, made) \/ Freeze(g, made) \/ Switch(g, made)

\* Nothing is imported yet: open payloads are written before, those of a refresh later.
AdmissionInit ==
  /\ world \in Worlds /\ day = 0 /\ serving = NoProof
  /\ offered = world.enrichments
  /\ staged = [g \in 0..Len(world.enrichments) |-> NoProof] /\ receipts = {}
NoAdmission == world = NoProof /\ day = 0 /\ serving = NoProof /\ offered = <<>> /\ staged = <<>> /\ receipts = {}

\* calendar_projection: an entry stands for what the row itself carries, of which there must be one.
OwnCalendars(r) == {Calendar(p) : p \in {q \in Parts(r) : q.source \in {"markets", "parks"}}}
Sole(calendars) == {c \in calendars : calendars = {c}}
Served(generation, r) ==
  IF r.id \in DOMAIN generation.calendars THEN {generation.calendars[r.id]} ELSE Sole(OwnCalendars(r))

\* On the day of the review a visitor plans a trip to a place that is served.
Look ==
  /\ world # NoProof /\ day = 0 /\ serving \in Generations
  /\ page = NoPage /\ calendar = NoPage /\ plan.at = "waiting"
  /\ \E r \in staged[serving].rows : \E c \in Served(staged[serving], r) : page' = c.page /\ calendar' = c.hours
  /\ UNCHANGED <<admissionVars, scheduleVars>>

-----------------------------------------------------------------------------
(* Properties *)

Additions(g) == IF g = 0 THEN staged'[0].rows ELSE staged'[g].rows \ staged[Parent(g)].rows

\* No two arrivals of one place are served as two: rows of one name in one region are more than a block apart
\* whatever sources, merges and enrichments brought them, and what an enrichment added has no neighbour at all.
ArrivalsApart ==
  \A g \in Generations : staged[g] # NoProof =>
    \A a, b \in staged[g].rows : a # b =>
      /\ ~Colocated(a, b)
      /\ g # 0 /\ a \notin staged[Parent(g)].rows => ~Near(a, b)

\* On the day it is staged, and again on the day its recovery receipt is frozen, a generation adds only places
\* that none of their publishers says are closed, from pages neither future nor older than the bound, and,
\* where a drive is retained, with its end at the place. The base map's own places (Overture, a pinned
\* release) are exempt from the bound and from the drive.
AsPublished(r) ==
  /\ \A publisher \in DOMAIN r.says : r.says[publisher] # "closed"
  /\ r.source # "overture" => day - r.read \in 0..(Month + 1) /\ ("drive" \in DOMAIN r => r.drive.claimed <= Street)
AdmittedAsPublished ==
  [][\A g \in Generations : staged'[g] # staged[g] \/ g \in receipts' \ receipts =>
       \A r \in Additions(g) : AsPublished(r)]_admissionVars

\* Along a chain of enrichments no place is lost, and the hours that are served for one change only by an
\* entry that names it: an agency's facility hours reach a place only where none were served.
HoursKept ==
  \A g \in Generations \ {0} : staged[g] # NoProof =>
    \A r \in staged[Parent(g)].rows :
      /\ r \in staged[g].rows
      /\ r.id \notin DOMAIN offered[g].entries =>
           \A c \in Served(staged[Parent(g)], r) : Served(staged[g], r) = {c}
=============================================================================
