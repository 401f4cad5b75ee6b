--------------------------- MODULE CatalogRefreshProofs ---------------------------
(***************************************************************************)
(* ArrivalsApart and HoursKept of SourceAdmission, for any worlds, days    *)
(* and refreshes.  Both follow from what an enrichment makes of its parent *)
(* (EnrichmentGrows), because a generation never changes once it is        *)
(* staged, and a parent is staged first.                                   *)
(*                                                                         *)
(* ScheduleHolds of TripSchedule, for any policies, routes and visits:     *)
(* the stops of a plan, with their estimated legs, fit between the moments *)
(* of a course (RoadInv), and the check of a finished plan, which meets    *)
(* the same deadlines, is never behind that course while no leg was longer *)
(* than its estimate.  VisitsWerePossible: a plan is never behind its      *)
(* departure and as many days old as its nights (AgeInv), so what it       *)
(* visits lies within the filter's longest trip.                           *)
(*                                                                         *)
(* AdmittedAsPublished: the rule of each source (PublishedOn) outlasts the *)
(* merges of a base and the chain of enrichments, because a generation is  *)
(* prepared again from its batches whenever it is staged or frozen, and    *)
(* batches stay what an adapter can replay (EvidenceInv).                  *)
(* RefreshIsAccepted: what an unattended source replays depends on its     *)
(* pages alone (SameReplay), and each of the importer's checks follows     *)
(* from what the refresh held back or bound (BundleAccepted), for a parent *)
(* whose identities name one row each (NamedInv) and that stays staged     *)
(* (ServingInv, AcceptedInv).                                              *)
(*                                                                         *)
(* OpenOnlyAsPublished: every statement of a page restricts the hours that *)
(* an adapter has so far and none restores them, so the hours of a date    *)
(* are those that the page permits (AsPublishedBy); reading a calendar     *)
(* splits and cuts them at midnight but adds none (OpenAt).  Every hour    *)
(* that is served was made of the page it is served with (StatedInv,       *)
(* ReadInv), and a visit stays within one window of the calendar its trip  *)
(* departed with (VisitorInv, LeftInv).                                    *)
(***************************************************************************)
EXTENDS CatalogRefresh, FiniteSetTheorems, TLAPS

NoTwins(rows) == \A a, b \in rows : a # b => ~Colocated(a, b)

\* What an enrichment may do to the generation before it.
Grows(before, after, entries) ==
  /\ before.rows \subseteq after.rows
  /\ \A a, b \in after.rows : a # b /\ a \notin before.rows => ~Near(a, b)
  /\ \A r \in before.rows : r.id \notin DOMAIN entries =>
       \A c \in Served(before, r) : Served(after, r) = {c}

\* The generations of the world, numbered from 0, and payloads with a parent among them.
ShapeInv ==
  /\ world = NoProof => DOMAIN staged = {}
  /\ world # NoProof => /\ world \in Worlds
                        /\ DOMAIN staged = 0..Len(world.enrichments) /\ DOMAIN offered = 1..Len(world.enrichments)
  /\ \A g \in Generations \ {0} : offered[g] # NoProof => Parent(g) \in Generations

ContentInv ==
  /\ \A g \in Generations : staged[g] # NoProof => NoTwins(staged[g].rows)
  /\ \A g \in Generations \ {0} : staged[g] # NoProof =>
       /\ offered[g] # NoProof /\ staged[Parent(g)] # NoProof
       /\ Grows(staged[Parent(g)], staged[g], offered[g].entries)

IInv == ShapeInv /\ ContentInv

-----------------------------------------------------------------------------
(* Places *)

\* How far two places are apart does not depend on which is named first.
LEMMA DistanceSymmetric == ASSUME NEW a, NEW b PROVE Distance(a, b) = Distance(b, a)
<1>1. {a - b, b - a} = {b - a, a - b}
  OBVIOUS
<1> QED BY <1>1 DEF Distance

\* Rows within a block of each other are within a campus of each other.
LEMMA TwinsAreNear ==
  ASSUME NEW a, NEW b, Colocated(a, b)
  PROVE  Near(a, b) /\ Near(b, a)
<1>1. Distance(a.at, b.at) \in 0..4
  BY DEF Colocated, Block
<1>2. Distance(b.at, a.at) = Distance(a.at, b.at)
  BY DistanceSymmetric
<1> QED BY <1>1, <1>2 DEF Near, Campus

\* A base generation is assembled without twins.
LEMMA AssembledApart ==
  ASSUME NEW w, NEW today, Assembled(w, today) # Refused
  PROVE  NoTwins(Assembled(w, today).rows)
<1> DEFINE rows == UNION {Replay(w.inputs[i], today) : i \in DOMAIN w.inputs}
<1>1. Assembled(w, today) = Joined(rows, w.merges) /\ Joined(rows, w.merges) # Refused
  BY DEF Assembled, Gathered
<1> HIDE DEF rows
<1>2. PICK merged : /\ Joined(rows, w.merges) = [rows |-> merged, calendars |-> <<>>]
                    /\ ~\E a, b \in merged : Colocated(a, b)
  BY <1>1 DEF Joined
<1> QED BY <1>1, <1>2 DEF NoTwins

-----------------------------------------------------------------------------
(* One enrichment *)

\* Hours that an input names are those of a place it adds or of one that it is bound to.
LEMMA EntriesNamed ==
  ASSUME NEW item, NEW rows, NEW id \in DOMAIN Entries(item, rows)
  PROVE  id \in Ids(Chosen(item, rows)) \/ \E r \in rows : r.id \in DOMAIN item.bindings /\ id = item.bindings[r.id]
<1> DEFINE added == IF item.batch.source = "pilot" THEN {} ELSE Chosen(item, rows)
           bound == {r \in rows : r.id \in DOMAIN item.bindings}
<1>1. DOMAIN Entries(item, rows) = Ids(added) \cup {item.bindings[r.id] : r \in bound}
  BY DEF Entries
<1>2. Ids(added) \subseteq Ids(Chosen(item, rows))
  BY DEF Ids
<1> QED BY <1>1, <1>2

\* A place that an agency's hours are bound to has none of its own.
LEMMA BoundHasNone ==
  ASSUME NEW r, NEW parent, Binds(r, parent)
  PROVE  Sole(OwnCalendars(parent)) = {}
<1>1. {q \in Parts(parent) : q.source \in {"markets", "parks"}} = {}
  BY DEF Binds
<1>2. OwnCalendars(parent) = {}
  BY <1>1 DEF OwnCalendars
<1> QED BY <1>2 DEF Sole

\* An enrichment that is accepted keeps its parent's rows and hours, and what it adds is lone.
LEMMA EnrichmentGrows ==
  ASSUME NEW c, NEW parent, NEW replayed, DOMAIN replayed = DOMAIN c.inputs,
         Enrichment(c, parent, replayed) # Refused
  PROVE  Grows(parent, Enrichment(c, parent, replayed), c.entries)
<1> DEFINE chosen == ChosenBy(c, replayed)
           made == MadeBy(c, replayed)
           added == AddedBy(chosen)
           named == NamedBy(made)
           entry(id) == made[CHOOSE i \in DOMAIN made : id \in DOMAIN made[i]][id]
           targets == UNION {Filled(c.inputs[i]) : i \in DOMAIN c.inputs}
           after == Enrichment(c, parent, replayed)
<1>1. /\ \A i \in DOMAIN replayed : InputStands(c.inputs[i], replayed[i], parent)
      /\ FitsParent(c, parent, chosen, made) /\ after = Extended(parent, chosen, made)
  BY DEF Enrichment, Accepts
<1>2. /\ Ids(added) \cap Ids(parent.rows) = {}
      /\ Across(parent.rows, added)
      /\ targets \cap DOMAIN parent.calendars = {}
      /\ after = [rows |-> parent.rows \cup added,
                  calendars |-> [id \in DOMAIN parent.calendars \cup named |->
                                   IF id \in named THEN entry(id) ELSE parent.calendars[id]]]
  BY <1>1 DEF Extended, FitsParent, Occupied
<1>3. \A i \in DOMAIN replayed : \A r \in Chosen(c.inputs[i], replayed[i]) : r.id \in Ids(added)
  BY DEF Ids, AddedBy, ChosenBy
<1>4. ASSUME NEW id \in named, id \notin DOMAIN c.entries
      PROVE  \/ id \in Ids(added)
             \/ \E i \in DOMAIN replayed : \E r \in replayed[i] :
                  r.id \in DOMAIN c.inputs[i].bindings /\ id = c.inputs[i].bindings[r.id]
  <2>1. PICK i \in DOMAIN replayed : id \in DOMAIN Entries(c.inputs[i], replayed[i])
    BY <1>4 DEF NamedBy, MadeBy
  <2>2. CASE id \in Ids(Chosen(c.inputs[i], replayed[i]))
    BY <2>2, <1>3 DEF Ids
  <2> QED BY <2>1, <2>2, EntriesNamed
<1> HIDE DEF chosen, made, added, named, entry, targets, after
<1>5. after.rows = parent.rows \cup added
  BY <1>2
<1>6. ASSUME NEW a \in after.rows, NEW b \in after.rows, a # b, a \notin parent.rows
      PROVE  ~Near(a, b)
  BY <1>2, <1>5, <1>6 DEF Across
<1>7. ASSUME NEW r \in parent.rows, r.id \notin DOMAIN c.entries, NEW h \in Served(parent, r)
      PROVE  Served(after, r) = {h}
  <2>1. r.id \notin Ids(added)
    BY <1>2 DEF Ids
  <2>2. CASE r.id \in DOMAIN parent.calendars
    <3>1. r.id \notin named
      <4> SUFFICES ASSUME r.id \in named PROVE FALSE
        OBVIOUS
      <4>1. PICK i \in DOMAIN replayed : \E o \in replayed[i] :
              o.id \in DOMAIN c.inputs[i].bindings /\ r.id = c.inputs[i].bindings[o.id]
        BY <1>4, <1>7, <2>1
      <4>2. r.id \in targets
        BY <4>1 DEF targets, Filled
      <4> QED BY <4>2, <2>2, <1>2
    <3>2. r.id \in DOMAIN after.calendars /\ after.calendars[r.id] = parent.calendars[r.id]
      BY <1>2, <2>2, <3>1
    <3> QED BY <1>7, <2>2, <3>2 DEF Served
  <2>3. CASE r.id \notin DOMAIN parent.calendars
    <3>1. h \in Sole(OwnCalendars(r))
      BY <1>7, <2>3 DEF Served
    <3>2. r.id \notin named
      <4> SUFFICES ASSUME r.id \in named PROVE FALSE
        OBVIOUS
      <4>1. PICK i \in DOMAIN replayed : \E o \in replayed[i] :
              o.id \in DOMAIN c.inputs[i].bindings /\ r.id = c.inputs[i].bindings[o.id]
        BY <1>4, <1>7, <2>1
      <4>2. PICK o \in replayed[i] : Binds(o, r)
        BY <4>1, <1>1 DEF InputStands
      <4> QED BY <4>2, <3>1, BoundHasNone
    <3>3. r.id \notin DOMAIN after.calendars
      BY <1>2, <2>3, <3>2
    <3>4. Served(after, r) = Sole(OwnCalendars(r))
      BY <3>3 DEF Served
    <3> QED BY <3>1, <3>4 DEF Sole
  <2> QED BY <2>2, <2>3
<1> QED BY <1>5, <1>6, <1>7 DEF Grows, after

\* So it has no twins if its parent has none.
LEMMA GrowsApart ==
  ASSUME NEW before, NEW after, NEW entries, NoTwins(before.rows), Grows(before, after, entries)
  PROVE  NoTwins(after.rows)
<1> SUFFICES ASSUME NEW a \in after.rows, NEW b \in after.rows, a # b, Colocated(a, b) PROVE FALSE
  BY DEF NoTwins
<1>1. Near(a, b) /\ Near(b, a)
  BY TwinsAreNear
<1>2. a \in before.rows /\ b \in before.rows
  BY <1>1 DEF Grows
<1> QED BY <1>2 DEF NoTwins

-----------------------------------------------------------------------------
(* Every step *)

\* Nothing is staged at first, and the generations of a world are numbered.
LEMMA InitInv == CatalogInit => IInv
<1>1. ASSUME NoAdmission PROVE IInv
  BY <1>1 DEF NoAdmission, IInv, ShapeInv, ContentInv, Generations
<1>2. ASSUME AdmissionInit PROVE IInv
  <2>1. world \in Worlds /\ world # NoProof
    BY <1>2, WorldsAssumption DEF AdmissionInit, WorldTyped
  <2>2. /\ Generations = 0..Len(world.enrichments) /\ DOMAIN offered = 1..Len(world.enrichments)
        /\ \A g \in Generations : staged[g] = NoProof
    BY <1>2, <2>1, WorldsAssumption DEF AdmissionInit, WorldTyped, Generations
  <2>3. \A g \in Generations \ {0} : offered[g] # NoProof => Parent(g) \in Generations
    BY <1>2, <2>1, <2>2, WorldsAssumption DEF AdmissionInit, WorldTyped, Parent
  <2> QED BY <2>1, <2>2, <2>3 DEF IInv, ShapeInv, ContentInv, Generations
<1> QED BY <1>1, <1>2 DEF CatalogInit

\* What a generation is staged with: its own world's rows, or what the enrichment makes of its parent.
LEMMA ContentStands ==
  ASSUME IInv, NEW g \in Generations, Content(g, day) # Refused
  PROVE  /\ NoTwins(Content(g, day).rows)
         /\ g # 0 => /\ offered[g] # NoProof /\ Parent(g) \in Generations /\ staged[Parent(g)] # NoProof
                     /\ Grows(staged[Parent(g)], Content(g, day), offered[g].entries)
<1>1. CASE g = 0
  BY <1>1, AssembledApart DEF Content
<1>2. CASE g # 0
  <2> DEFINE c == offered[g]
             parent == staged[Parent(g)]
             replayed == Replays(c, day)
  <2>1. /\ offered[g] # NoProof /\ parent # NoProof
        /\ Content(g, day) = Enrichment(c, parent, replayed)
    BY <1>2 DEF Content, Enriched, Parent
  <2>2. Parent(g) \in Generations
    BY <1>2, <2>1 DEF IInv, ShapeInv
  <2>3. DOMAIN replayed = DOMAIN c.inputs
    BY DEF Replays
  <2> HIDE DEF c, parent, replayed
  <2>4. Grows(parent, Content(g, day), c.entries)
    BY <2>1, <2>3, EnrichmentGrows
  <2>5. NoTwins(parent.rows)
    BY <2>1, <2>2 DEF IInv, ContentInv, parent
  <2>6. NoTwins(Content(g, day).rows)
    BY <2>4, <2>5, GrowsApart
  <2> QED BY <1>2, <2>1, <2>2, <2>4, <2>6 DEF c, parent
<1> QED BY <1>1, <1>2

\* Staging fills a generation that is empty, so that none refers to it as a parent yet.
LEMMA StageInv ==
  ASSUME IInv, NEW g \in Generations, NEW made, made = Content(g, day), Stage(g, made)
  PROVE  IInv'
<1>1. /\ staged[g] = NoProof /\ made # Refused
      /\ staged' = [staged EXCEPT ![g] = made] /\ offered' = offered /\ world' = world
  BY DEF Stage
<1>2. /\ Generations' = Generations /\ staged'[g] = made
      /\ \A h \in Generations \ {g} : staged'[h] = staged[h]
  BY <1>1 DEF Generations
<1>3. ShapeInv'
  BY <1>1, <1>2 DEF IInv, ShapeInv, Generations, Parent
<1>4. NoTwins(made.rows)
  BY <1>1, ContentStands
<1>5. ASSUME NEW h \in Generations \ {0}, staged'[h] # NoProof
      PROVE  /\ offered[h] # NoProof /\ staged'[Parent(h)] # NoProof
             /\ Grows(staged'[Parent(h)], staged'[h], offered[h].entries)
  <2>1. /\ offered[h] # NoProof /\ staged[Parent(h)] # NoProof
        /\ Grows(staged[Parent(h)], staged'[h], offered[h].entries)
    <3>1. CASE h = g
      BY <3>1, <1>1, <1>2, <1>5, ContentStands
    <3>2. CASE h # g
      BY <3>2, <1>2, <1>5 DEF IInv, ContentInv
    <3> QED BY <3>1, <3>2
  <2>2. Parent(h) \in Generations \ {g}
    BY <1>1, <1>5, <2>1 DEF IInv, ShapeInv
  <2> QED BY <1>2, <2>1, <2>2
<1>6. \A h \in Generations : staged'[h] # NoProof => NoTwins(staged'[h].rows)
  BY <1>2, <1>4 DEF IInv, ContentInv
<1>7. \A h \in Generations : Parent(h)' = Parent(h)
  BY <1>1 DEF Parent
<1>8. ContentInv'
  BY <1>1, <1>2, <1>5, <1>6, <1>7 DEF ContentInv, Generations
<1> QED BY <1>3, <1>8 DEF IInv

\* A bundle names the parent that its refresh was made for.
LEMMA BundleParent ==
  ASSUME NEW refresh, NEW sources, NEW replayed, NEW parent
  PROVE  Bundle(refresh, sources, replayed, parent).parent = refresh.parent
BY DEF Bundle

\* A refresh writes a payload that nothing has been staged from, with the parent that is served.
LEMMA RefreshInv ==
  ASSUME IInv, Refresh
  PROVE  IInv'
<1> DEFINE w == world.refresh.writes
<1>1. /\ world # NoProof /\ world.refresh # NoProof /\ offered[w] = NoProof
      /\ staged' = staged /\ world' = world
  BY DEF Refresh
<1>2. PICK payload : offered' = [offered EXCEPT ![w] = payload] /\ payload.parent = world.refresh.parent
  <2>1. PICK sources \in Acquired(world.refresh, staged[serving].rows) :
          \E replayed \in {[i \in DOMAIN sources |-> Replay(sources[i], day)]} :
            \E payload \in {Bundle(world.refresh, sources, replayed, staged[serving])} :
              offered' = [offered EXCEPT ![w] = payload]
    BY Zenon DEF Refresh
  <2>2. PICK replayed : offered' = [offered EXCEPT ![w] = Bundle(world.refresh, sources, replayed, staged[serving])]
    BY <2>1, Zenon
  <2> DEFINE payload == Bundle(world.refresh, sources, replayed, staged[serving])
  <2>3. payload.parent = world.refresh.parent
    BY BundleParent
  <2> HIDE DEF payload
  <2>4. offered' = [offered EXCEPT ![w] = payload]
    BY <2>2 DEF payload
  <2> QED BY <2>3, <2>4
<1>3. world \in Worlds /\ w \in 1..Len(world.enrichments) /\ world.refresh.parent \in 0..Len(world.enrichments)
  BY <1>1, WorldsAssumption DEF IInv, ShapeInv, WorldTyped
<1>4. /\ Generations' = Generations /\ Generations = 0..Len(world.enrichments)
      /\ DOMAIN offered' = DOMAIN offered /\ w \in DOMAIN offered /\ w \in Generations \ {0}
      /\ offered'[w] = payload /\ \A g \in Generations \ {0, w} : offered'[g] = offered[g]
  BY <1>1, <1>2, <1>3, WorldsAssumption DEF IInv, ShapeInv, WorldTyped, Generations
<1>5. staged[w] = NoProof
  BY <1>1, <1>4 DEF IInv, ContentInv
<1> HIDE DEF w
<1>6. ShapeInv'
  <2>1. ASSUME NEW g \in Generations \ {0}, offered'[g] # NoProof
        PROVE  Parent(g)' \in Generations
    <3>1. CASE g = w
      BY <3>1, <1>2, <1>3, <1>4 DEF Parent
    <3>2. CASE g # w
      BY <3>2, <1>4, <2>1 DEF Parent, IInv, ShapeInv
    <3> QED BY <3>1, <3>2
  <2> QED BY <1>1, <1>4, <2>1 DEF IInv, ShapeInv, Generations
<1>7. ContentInv'
  <2>1. \A g \in Generations \ {0, w} : Parent(g)' = Parent(g)
    BY <1>4 DEF Parent
  <2> QED BY <1>1, <1>4, <1>5, <2>1 DEF IInv, ContentInv, Generations
<1> QED BY <1>6, <1>7 DEF IInv

\* Everything else leaves generations and payloads alone.
LEMMA SameInv ==
  ASSUME IInv, world' = world, staged' = staged, offered' = offered
  PROVE  IInv'
BY DEF IInv, ShapeInv, ContentInv, Generations, Parent

\* Every step keeps what generations are and where they come from.
LEMMA StepInv == IInv /\ [CatalogNext]_catalogVars => IInv'
<1> SUFFICES ASSUME IInv, [CatalogNext]_catalogVars PROVE IInv'
  OBVIOUS
<1>1. CASE AdmissionNext
  <2>1. ASSUME NEW g \in Generations, NEW made, made = Content(g, day),
               Stage(g, made) \/ Freeze(g, made) \/ Switch(g, made)
        PROVE  IInv'
    BY <2>1, StageInv, SameInv DEF Freeze, Switch
  <2>2. ASSUME NEW g \in Generations, Activate(g) \/ Rollback(g) PROVE IInv'
    BY <2>2, SameInv DEF Activate, Rollback
  <2>3. CASE NextDay
    BY <2>3, SameInv DEF NextDay
  <2> QED BY <1>1, <2>1, <2>2, <2>3 DEF AdmissionNext
<1>2. CASE Refresh
  BY <1>2, RefreshInv
<1>3. CASE Look
  BY <1>3, SameInv DEF Look, admissionVars
<1>4. CASE UNCHANGED admissionVars
  BY <1>4, SameInv DEF admissionVars
<1> QED BY <1>1, <1>2, <1>3, <1>4 DEF CatalogNext, catalogVars

\* Shape and contents of the generations, through every import and refresh.
THEOREM Invariant == CatalogSpec => []IInv
BY InitInv, StepInv, PTL DEF CatalogSpec

\* ArrivalsApart: whatever sources, merges, enrichments and refreshes brought them, no two rows that are served
\* are one place twice.
THEOREM NoPlaceTwice == CatalogSpec => []ArrivalsApart
<1>1. IInv => ArrivalsApart
  <2> SUFFICES ASSUME IInv, NEW g \in Generations, staged[g] # NoProof,
                      NEW a \in staged[g].rows, NEW b \in staged[g].rows, a # b
               PROVE  /\ ~Colocated(a, b)
                      /\ g # 0 /\ a \notin staged[Parent(g)].rows => ~Near(a, b)
    BY DEF ArrivalsApart
  <2>1. ~Colocated(a, b)
    BY DEF IInv, ContentInv, NoTwins
  <2>2. ASSUME g # 0, a \notin staged[Parent(g)].rows PROVE ~Near(a, b)
    BY <2>2 DEF IInv, ContentInv, Grows
  <2> QED BY <2>1, <2>2
<1> QED BY <1>1, Invariant, PTL

\* HoursKept: along any chain of enrichments no place is lost, and its hours change only by an entry that names it.
THEOREM HoursStay == CatalogSpec => []HoursKept
<1>1. IInv => HoursKept
  BY DEF IInv, ContentInv, Grows, HoursKept
<1> QED BY <1>1, Invariant, PTL

-----------------------------------------------------------------------------
(* The schedule of a trip, and what the road check makes of it *)

Stops == [kind : {"stop", "hotel", "end"}, zone : Zones, leg : Int, visit : Int, day : Int]
Moments == [now : Int, day : Int]

TripTyped ==
  /\ trip \in [policy : {trip.policy}, departure : Int, route : {trip.route}, visits : {trip.visits}, targets : [1..(n + 1) -> Int]]
  /\ PolicyTyped(trip.policy) /\ RouteTyped(trip.route)
  /\ n \in Nat /\ DOMAIN trip.visits = 1..n /\ \A k \in 1..n : VisitTyped(trip.visits[k])

PlanTyped(p) ==
  /\ p \in [at : {"waiting", "driving", "conflict", "refused", "scheduled"}, event : Nat, driven : Int, now : Int,
            day : Int, zone : Zones, nights : Int, stops : Seq(Stops)]
  /\ p.at \in {"waiting", "driving"} => p.event \in 1..(n + 1)

CheckTyped(c) ==
  c \in [at : {"timing", "conflict", "late", "stay changed", "no night", "passed"}, next : Nat \ {0}, now : Int, day : Int, slower : BOOLEAN]

\* Between the moments before and after a stop, its estimated leg and what follows it find their place.
Fits(stop, before, after) ==
  LET arrival == before.now + stop.leg
      deadline == Deadline(before.day, stop.zone)
      v == trip.visits[stop.visit]
  IN \/ /\ stop.kind = "stop" /\ stop.visit \in 1..n
        /\ after.day = before.day /\ after.now <= deadline
        /\ arrival + v.dwell <= after.now
        /\ v.calendar.any \/ after.now - v.dwell \in Starts(v, stop.zone, arrival, deadline)
     \/ /\ stop.kind = "hotel" /\ stop.day = before.day
        /\ arrival <= deadline /\ arrival < Restart(before.day, stop.zone)
        /\ after = [now |-> Restart(before.day, stop.zone), day |-> DateIn(Restart(before.day, stop.zone), stop.zone)]
     \/ /\ stop.kind = "end"
        /\ arrival <= FinalDeadline(before.day, stop.zone) \/ FinalCutoff < trip.policy.preferred

\* The moments of a plan, from its departure to the last stop.
Course(p, clock) ==
  /\ clock \in [1..(Len(p.stops) + 1) -> Moments]
  /\ clock[1] = [now |-> trip.departure, day |-> 0]
  /\ clock[Len(p.stops) + 1] = [now |-> p.now, day |-> p.day]
  /\ \A i \in 1..Len(p.stops) : Fits(p.stops[i], clock[i], clock[i + 1])

\* The check is never behind the plan while no leg was longer than its estimate.
OnCourse(p, c) ==
  \E clock : /\ Course(p, clock)
             /\ c.at = "timing" /\ ~c.slower => c.now <= clock[c.next].now /\ c.day = clock[c.next].day

\* The end is the last stop, and the check follows the finished plan.
Ordered(p, c) ==
  /\ c.next <= Len(p.stops) + 1 /\ (p.at = "waiting" => p.stops = <<>>)
  /\ p.at # "scheduled" => c = NewCheck(trip.departure) /\ \A i \in 1..Len(p.stops) : p.stops[i].kind # "end"
  /\ \A i \in 1..(Len(p.stops) - 1) : p.stops[i].kind # "end"

\* ScheduleHolds of a plan and its check.
Excused(p, c) ==
  c.at \notin {"timing", "passed"} =>
    c.slower \/ (c.at = "late" /\ c.next = Len(p.stops) + 1 /\ FinalCutoff < trip.policy.preferred)

Road(p, c) ==
  /\ TripTyped /\ PlanTyped(p) /\ CheckTyped(c)
  /\ p.at \notin {"conflict", "refused"} => OnCourse(p, c)
  /\ Ordered(p, c) /\ Excused(p, c)

RoadInv == Road(plan, check)

-----------------------------------------------------------------------------
(* Numbers *)

\* Every nonempty set of natural numbers has a least element.
LEMMA LeastNumber ==
  ASSUME NEW N \in SUBSET Nat, N # {}
  PROVE  \E m \in N : \A j \in N : m <= j
<1> DEFINE T == {1..j : j \in N}
<1>1. \A j \in N : 1..j \in FiniteSubsetsOf(Nat)
  <2> TAKE j \in N
  <2>1. IsFiniteSet(1..j) /\ 1..j \in SUBSET Nat
    BY FS_Interval
  <2> QED BY <2>1 DEF FiniteSubsetsOf
<1>2. T \subseteq FiniteSubsetsOf(Nat) /\ T # {}
  BY <1>1
<1>3. PICK x \in T : \A y \in T : ~(<<y, x>> \in StrictSubsetOrdering(Nat))
  <2>1. IsWellFoundedOn(StrictSubsetOrdering(Nat), FiniteSubsetsOf(Nat))
    BY FS_StrictSubsetOrderingWellFounded
  <2> QED BY <2>1, <1>2, WFMin
<1>4. PICK m \in N : x = 1..m
  OBVIOUS
<1>5. ASSUME NEW j \in N, j < m PROVE FALSE
  <2>1. 1..j \subseteq 1..m /\ 1..j # 1..m
    BY <1>5
  <2>2. 1..j \in SUBSET Nat /\ 1..m \in SUBSET Nat
    OBVIOUS
  <2>3. <<1..j, 1..m>> \in StrictSubsetOrdering(Nat)
    BY <2>1, <2>2 DEF StrictSubsetOrdering
  <2> QED BY <2>3, <1>3, <1>4
<1> QED BY <1>5

\* Min of a bounded set of moments.
LEMMA EarliestExists ==
  ASSUME NEW a \in Int, NEW S \in SUBSET Int, S # {}, \A s \in S : a <= s
  PROVE  Min(S) \in S /\ \A s \in S : Min(S) <= s
<1> DEFINE N == {s - a : s \in S}
<1>0. \A s \in S : s - a \in Nat
  OBVIOUS
<1>1. N \in SUBSET Nat /\ N # {}
  BY <1>0
<1>2. PICK m \in N : \A j \in N : m <= j
  BY <1>1, LeastNumber
<1>3. PICK s \in S : m = s - a
  OBVIOUS
<1>4. ASSUME NEW t \in S PROVE s <= t
  <2>1. t - a \in N
    OBVIOUS
  <2>2. m <= t - a
    BY <1>2, <2>1
  <2> QED BY <1>3, <2>2
<1>5. \E x \in S : \A y \in S : x <= y
  BY <1>4
<1> QED BY <1>5 DEF Min

\* The detours before each event add up.
LEMMA DetoursAdd ==
  ASSUME NEW visits, NEW m \in Nat, \A k \in 1..m : visits[k].detour \in Nat
  PROVE  LET detours[k \in 0..m] == IF k = 0 THEN 0 ELSE detours[k - 1] + visits[k].detour
         IN detours \in [0..m -> Int]
<1> DEFINE Adds(f, j) == f = [k \in 0..j |-> IF k = 0 THEN 0 ELSE f[k - 1] + visits[k].detour]
           N == {j \in 0..m : ~\E f \in [0..j -> Int] : Adds(f, j)}
<1>1. N = {}
  <2> SUFFICES ASSUME N # {} PROVE FALSE
    OBVIOUS
  <2>1. PICK j \in N : \A i \in N : j <= i
    <3>1. N \in SUBSET Nat
      OBVIOUS
    <3> QED BY <3>1, LeastNumber
  <2>2. CASE j = 0
    <3> DEFINE g == [k \in 0..0 |-> 0]
    <3>1. g \in [0..0 -> Int] /\ Adds(g, 0)
      OBVIOUS
    <3> QED BY <2>2, <3>1
  <2>3. CASE j > 0
    <3>0. j \in 0..m /\ j - 1 \in 0..m /\ ~(j <= j - 1)
      BY <2>3
    <3>1. j - 1 \in 0..m /\ j - 1 \notin N
      BY <2>1, <3>0
    <3>2. PICK f \in [0..(j - 1) -> Int] : Adds(f, j - 1)
      BY <3>1
    <3> DEFINE g == [k \in 0..j |-> IF k < j THEN f[k] ELSE f[j - 1] + visits[j].detour]
    <3>3. g \in [0..j -> Int]
      BY <2>1, <2>3
    <3>4. ASSUME NEW k \in 0..j PROVE g[k] = IF k = 0 THEN 0 ELSE g[k - 1] + visits[k].detour
      <4>1. CASE k < j
        <5>1. f[k] = IF k = 0 THEN 0 ELSE f[k - 1] + visits[k].detour
          BY <3>2, <4>1, <2>3
        <5>2. g[k] = f[k] /\ (k # 0 => g[k - 1] = f[k - 1])
          BY <4>1, <2>3
        <5> QED BY <5>1, <5>2
      <4>2. CASE k = j
        BY <4>2, <2>3
      <4> QED BY <4>1, <4>2
    <3>5. Adds(g, j)
      BY <3>4
    <3> QED BY <2>1, <3>3, <3>5
  <2> QED BY <2>2, <2>3
<1>2. \E f : Adds(f, m)
  <2> HIDE DEF Adds
  <2>1. m \in 0..m
    OBVIOUS
  <2>2. m \notin N
    <3> HIDE DEF N
    <3> QED BY <1>1
  <2> QED BY <2>1, <2>2
<1> DEFINE d == CHOOSE f : Adds(f, m)
<1>3. Adds(d, m)
  BY <1>2
<1> HIDE DEF d
<1> DEFINE B == {k \in 0..m : d[k] \notin Int}
<1>4. B = {}
  <2> SUFFICES ASSUME B # {} PROVE FALSE
    OBVIOUS
  <2>1. PICK k \in B : \A i \in B : k <= i
    <3>1. B \in SUBSET Nat
      OBVIOUS
    <3> QED BY <3>1, LeastNumber
  <2>2. k # 0 => k - 1 \in 0..m /\ d[k - 1] \in Int
    BY <2>1
  <2>3. d[k] = IF k = 0 THEN 0 ELSE d[k - 1] + visits[k].detour
    BY <1>3
  <2> QED BY <2>1, <2>2, <2>3
<1>5. d \in [0..m -> Int]
  BY <1>3, <1>4
<1> QED BY <1>5 DEF d

-----------------------------------------------------------------------------
(* What a trip, a plan and a course are made of *)

\* The clocks of a trip are integers, and a hotel's preferred arrival is before every deadline for visits.
LEMMA Clocks ==
  ASSUME TripTyped, NEW d \in Int, NEW z \in Zones
  PROVE  /\ Offset(z) \in Int /\ Deadline(d, z) \in Int /\ Preferred(d, z) \in Int /\ FinalDeadline(d, z) \in Int
         /\ Preferred(d, z) <= Deadline(d, z)
         /\ Preferred(d, z) <= FinalDeadline(d, z) \/ FinalCutoff < trip.policy.preferred
         /\ Deadline(d, z) + Offset(z) <= 48 * (d + 1)
         /\ Restart(d, z) \in Int /\ DateIn(Restart(d, z), z) = d + 1
<1>1. Offset(z) \in Int
  <2>1. trip.route.shift \in Int /\ (z = 0 \/ z = 1)
    BY DEF TripTyped, RouteTyped, Zones
  <2> QED BY <2>1 DEF Offset
<1>2. /\ {trip.policy.restart, trip.policy.preferred, trip.policy.latest, trip.policy.lateCutoff, trip.policy.destination} \subseteq 0..48
      /\ trip.policy.restart < trip.policy.preferred /\ trip.policy.preferred <= trip.policy.latest
      /\ trip.policy.latest <= trip.policy.lateCutoff
  BY DEF TripTyped, PolicyTyped
<1>3. Cutoff \in Int /\ Cutoff <= 48 /\ trip.policy.preferred <= Cutoff /\ FinalCutoff \in Int
  BY <1>2, SMTT(30) DEF Cutoff, FinalCutoff, Least
<1>4. /\ Deadline(d, z) = 48 * d + Cutoff - Offset(z) /\ Preferred(d, z) = 48 * d + trip.policy.preferred - Offset(z)
      /\ FinalDeadline(d, z) = 48 * d + FinalCutoff - Offset(z)
      /\ Restart(d, z) = 48 * (d + 1) + trip.policy.restart - Offset(z)
  BY DEF Deadline, Preferred, FinalDeadline, Restart, At, Day
<1>5. Restart(d, z) + Offset(z) = 48 * (d + 1) + trip.policy.restart
  BY <1>1, <1>2, <1>4
<1>6. (48 * (d + 1) + trip.policy.restart) \div 48 = d + 1
  BY <1>2
<1>7. DateIn(Restart(d, z), z) = d + 1
  BY <1>5, <1>6 DEF DateIn, Day
<1> QED BY <1>1, <1>2, <1>3, <1>4, <1>7

\* What a course demands depends on the trip only.
LEMMA SameFit ==
  ASSUME trip' = trip, NEW stop, NEW before, NEW after
  PROVE  Fits(stop, before, after)' <=> Fits(stop, before, after)
BY DEF Fits, Deadline, FinalDeadline, FinalCutoff, Cutoff, Restart, DateIn, Starts, Windows, At, Offset, n

\* Nothing that leaves a trip alone disturbs its course.
LEMMA SameRoad ==
  ASSUME trip' = trip, Road(plan', check')
  PROVE  RoadInv'
<1>1. TripTyped' /\ PlanTyped(plan)' /\ CheckTyped(check)'
  BY DEF Road, TripTyped, PlanTyped, CheckTyped, n, Stops
<1>2. Ordered(plan, check)' /\ Excused(plan, check)'
  BY DEF Road, Ordered, Excused, FinalCutoff
<1>3. OnCourse(plan', check') => OnCourse(plan, check)'
  BY SameFit DEF OnCourse, Course
<1> QED BY <1>1, <1>2, <1>3 DEF Road, RoadInv

\* The next event of a plan on the way, and its deadline.
LEMMA OnTheWay ==
  ASSUME TripTyped, PlanTyped(plan), plan.at = "driving"
  PROVE  /\ plan.event \in 1..(n + 1) /\ Target(plan.event) \in Int /\ DriveLeft \in Nat
         /\ EventZone(plan.event) \in Zones /\ Dwell(plan.event) \in Nat /\ EventLimit \in Int
         /\ plan.event <= n => EventLimit <= Deadline(plan.day, EventZone(plan.event))
         /\ plan.event > n => EventLimit <= FinalDeadline(plan.day, EventZone(plan.event)) \/ FinalCutoff < trip.policy.preferred
<1>1. plan.event \in 1..(n + 1) /\ plan.driven \in Int /\ plan.day \in Int
  BY DEF PlanTyped
<1>2. Target(plan.event) \in Int
  BY <1>1 DEF TripTyped, Target
<1>3. DriveLeft \in Nat
  BY <1>1, <1>2 DEF DriveLeft, Most
<1>4. EventZone(plan.event) \in Zones
  BY DEF EventZone, PlaceZone, Zones
<1>5. Dwell(plan.event) \in Nat
  <2>1. CASE plan.event > n
    BY <2>1 DEF Dwell
  <2>2. CASE plan.event <= n
    <3>1. VisitTyped(trip.visits[plan.event])
      BY <1>1, <2>2 DEF TripTyped
    <3> QED BY <3>1, <1>1, <2>2 DEF Dwell, VisitTyped, TripTyped
  <2> QED BY <1>1, <2>1, <2>2 DEF TripTyped
<1>6. EventLimit \in Int /\ (plan.event <= n => EventLimit <= Deadline(plan.day, EventZone(plan.event)))
      /\ (plan.event > n => EventLimit <= FinalDeadline(plan.day, EventZone(plan.event)) \/ FinalCutoff < trip.policy.preferred)
  <2> DEFINE z == EventZone(plan.event)
  <2>1. /\ Deadline(plan.day, z) \in Int /\ Preferred(plan.day, z) \in Int /\ FinalDeadline(plan.day, z) \in Int
        /\ Preferred(plan.day, z) <= Deadline(plan.day, z)
        /\ Preferred(plan.day, z) <= FinalDeadline(plan.day, z) \/ FinalCutoff < trip.policy.preferred
    BY Clocks, <1>1, <1>4
  <2>2. EventLimit = IF ~CanFinish THEN Preferred(plan.day, z)
                     ELSE IF plan.event > n THEN FinalDeadline(plan.day, z) ELSE Deadline(plan.day, z)
    BY DEF EventLimit
  <2> QED BY <1>1, <2>1, <2>2 DEF TripTyped
<1> QED BY <1>1, <1>2, <1>3, <1>4, <1>5, <1>6

\* A stop that fits after the last moment continues the course.
LEMMA Continued ==
  ASSUME PlanTyped(plan), CheckTyped(check), OnCourse(plan, check), check.next = 1,
         NEW q, NEW stop \in Stops, NEW after \in Moments,
         q.stops = Append(plan.stops, stop), q.now = after.now, q.day = after.day,
         Fits(stop, [now |-> plan.now, day |-> plan.day], after)
  PROVE  OnCourse(q, check)
<1> DEFINE last == Len(plan.stops) + 1
<1>1. last \in Nat \ {0} /\ Len(q.stops) = last /\ q.stops[last] = stop
      /\ \A i \in 1..(last - 1) : q.stops[i] = plan.stops[i]
  BY DEF PlanTyped
<1>2. PICK clock : /\ Course(plan, clock)
                   /\ check.at = "timing" /\ ~check.slower => check.now <= clock[check.next].now /\ check.day = clock[check.next].day
  BY DEF OnCourse
<1> DEFINE longer == [i \in 1..(last + 1) |-> IF i <= last THEN clock[i] ELSE after]
<1>3. clock \in [1..last -> Moments] /\ clock[1] = [now |-> trip.departure, day |-> 0]
      /\ clock[last] = [now |-> plan.now, day |-> plan.day]
      /\ \A i \in 1..(last - 1) : Fits(plan.stops[i], clock[i], clock[i + 1])
  BY <1>2 DEF Course
<1>4. longer \in [1..(last + 1) -> Moments] /\ longer[1] = clock[1] /\ longer[last + 1] = after
  BY <1>1, <1>3
<1>5. after = [now |-> q.now, day |-> q.day]
  BY DEF Moments
<1>6. ASSUME NEW i \in 1..last PROVE Fits(q.stops[i], longer[i], longer[i + 1])
  <2>1. CASE i < last
    BY <1>1, <1>3, <2>1
  <2>2. CASE i = last
    BY <1>1, <1>3, <2>2
  <2> QED BY <1>1, <2>1, <2>2
<1> HIDE DEF longer
<1>7. Course(q, longer)
  BY <1>1, <1>3, <1>4, <1>5, <1>6 DEF Course
<1> QED BY <1>2, <1>4, <1>7 DEF OnCourse

-----------------------------------------------------------------------------
(* The steps of the scheduler and of the final check *)

\* A full visit starts at the first of the possible moments.
LEMMA StartsAreMoments ==
  ASSUME TripTyped, NEW k \in 1..n, NEW z \in Zones, NEW arrival \in Int, NEW deadline \in Int,
         Solvable(trip.visits[k], z, arrival, deadline)
  PROVE  LET v == trip.visits[k]
             start == Start(v, z, arrival, deadline)
         IN /\ start \in Int /\ arrival <= start /\ v.dwell \in Nat \ {0}
            /\ (v.calendar.any /\ start = arrival) \/ start \in Starts(v, z, arrival, deadline)
            /\ (v.calendar.any /\ start = arrival) \/ start + v.dwell <= deadline
            /\ \A s \in Starts(v, z, arrival, deadline) : start <= s
<1> DEFINE v == trip.visits[k]
           S == Starts(v, z, arrival, deadline)
           start == Start(v, z, arrival, deadline)
<1>1. v.dwell \in Nat \ {0}
  BY DEF TripTyped, VisitTyped
<1>2. S \in SUBSET Int /\ \A s \in S : arrival <= s /\ s + v.dwell <= deadline
  BY <1>1 DEF Starts
<1>3. CASE v.calendar.any
  BY <1>1, <1>2, <1>3 DEF Start
<1>4. CASE ~v.calendar.any
  <2>1. S # {}
    BY <1>4 DEF Solvable
  <2>2. Min(S) \in S /\ \A s \in S : Min(S) <= s
    BY <1>2, <2>1, EarliestExists
  <2>3. start = Min(S)
    BY <1>4 DEF Start
  <2> QED BY <1>1, <1>2, <1>4, <2>2, <2>3
<1> QED BY <1>3, <1>4

\* A visit, or the end, is a stop that fits.
LEMMA Arriving ==
  ASSUME Road(plan, check), Arrive
  PROVE  Road(plan', check')
<1> DEFINE k == plan.event
           z == EventZone(k)
           arrival == plan.now + DriveLeft
           here == [now |-> plan.now, day |-> plan.day]
<1>1. /\ TripTyped /\ PlanTyped(plan) /\ CheckTyped(check) /\ plan.at = "driving" /\ Reachable
      /\ check = NewCheck(trip.departure) /\ check' = check /\ check.next = 1 /\ check.at = "timing"
      /\ OnCourse(plan, check)
      /\ \A i \in 1..Len(plan.stops) : plan.stops[i].kind # "end"
  BY DEF Road, Ordered, Arrive, NewCheck
<1>2. /\ k \in 1..(n + 1) /\ n \in Nat /\ Target(k) \in Int /\ DriveLeft \in Nat /\ z \in Zones /\ Dwell(k) \in Nat /\ EventLimit \in Int
      /\ k <= n => EventLimit <= Deadline(plan.day, z)
      /\ k > n => EventLimit <= FinalDeadline(plan.day, z) \/ FinalCutoff < trip.policy.preferred
  BY <1>1, OnTheWay DEF TripTyped
<1>3. plan.now \in Int /\ plan.day \in Int /\ arrival \in Int /\ arrival + Dwell(k) <= EventLimit
  BY <1>1, <1>2, SMTT(30) DEF PlanTyped, Reachable
<1>4. Deadline(plan.day, z) \in Int /\ FinalDeadline(plan.day, z) \in Int
  BY <1>1, <1>2, <1>3, Clocks
<1>5. Excused(plan', check') /\ CheckTyped(check')
  BY <1>1 DEF Excused
<1>6. /\ k > n => plan' = [plan EXCEPT !.driven = Target(k), !.event = k + 1, !.zone = z, !.at = "scheduled", !.now = arrival,
                                         !.stops = Append(plan.stops, Stop("end", z, DriveLeft, 0))]
      /\ k <= n /\ Solvable(trip.visits[k], z, arrival, EventLimit) =>
           plan' = [plan EXCEPT !.driven = Target(k), !.event = k + 1, !.zone = z,
                                !.now = Start(trip.visits[k], z, arrival, EventLimit) + trip.visits[k].dwell,
                                !.stops = Append(plan.stops, Stop("stop", z, DriveLeft, k))]
      /\ k <= n /\ ~Solvable(trip.visits[k], z, arrival, EventLimit) => plan' = [plan EXCEPT !.at = "conflict"]
  BY <1>1, <1>2 DEF Arrive, PlanTyped
<1>7. k <= n => Dwell(k) = trip.visits[k].dwell
  BY <1>2 DEF Dwell
<1>8. k > n => Dwell(k) = 0
  BY <1>2 DEF Dwell
<1> HIDE DEF k, z, arrival
<1>9. CASE k > n
  <2> DEFINE stop == Stop("end", z, DriveLeft, 0)
             after == [now |-> arrival, day |-> plan.day]
  <2>1. stop \in Stops /\ after \in Moments /\ after.now = arrival /\ after.day = plan.day /\ stop.kind = "end" /\ stop.leg = DriveLeft /\ stop.zone = z
    BY <1>2, <1>3 DEF Stop, Stops, Moments, Zones
  <2>2. here.now + stop.leg = arrival
    BY <2>1 DEF arrival
  <2> HIDE DEF stop, after
  <2>a. Append(plan.stops, stop) \in Seq(Stops)
    BY <1>1, <2>1 DEF PlanTyped
  <2>b. plan' = [at |-> "scheduled", event |-> k + 1, driven |-> Target(k), now |-> arrival, day |-> plan.day, zone |-> z,
                 nights |-> plan.nights, stops |-> Append(plan.stops, stop)]
    BY <1>1, <1>6, <1>9 DEF PlanTyped, stop
  <2>c. /\ plan'.at = "scheduled" /\ plan'.stops = Append(plan.stops, stop) /\ plan'.now = arrival /\ plan'.day = plan.day
    BY <2>b
  <2>3. PlanTyped(plan')
    BY <1>1, <1>2, <1>3, <2>a, <2>b, SMTT(30) DEF PlanTyped
  <2>4. Fits(stop, here, after)
    BY <1>2, <1>3, <1>4, <1>8, <1>9, <2>1, <2>2 DEF Fits
  <2>5. OnCourse(plan', check')
    BY <1>1, <2>1, <2>c, <2>4, Continued
  <2>6. Ordered(plan', check')
    BY <1>1, <2>1, <2>c DEF Ordered, PlanTyped
  <2> QED BY <1>1, <1>5, <2>3, <2>c, <2>5, <2>6 DEF Road
<1>10. CASE k <= n /\ Solvable(trip.visits[k], z, arrival, EventLimit)
  <2> DEFINE v == trip.visits[k]
             start == Start(v, z, arrival, EventLimit)
             stop == Stop("stop", z, DriveLeft, k)
             after == [now |-> start + v.dwell, day |-> plan.day]
  <2>0. k \in 1..n
    BY <1>2, <1>10
  <2>1. /\ start \in Int /\ arrival <= start /\ v.dwell \in Nat \ {0}
        /\ (v.calendar.any /\ start = arrival) \/ start \in Starts(v, z, arrival, EventLimit)
        /\ (v.calendar.any /\ start = arrival) \/ start + v.dwell <= EventLimit
    BY <1>1, <1>2, <1>3, <1>10, <2>0, StartsAreMoments
  <2>2. plan' = [plan EXCEPT !.driven = Target(k), !.event = k + 1, !.zone = z, !.now = start + v.dwell,
                             !.stops = Append(plan.stops, stop)]
    BY <1>6, <1>10
  <2>3. v.calendar.any \/ start \in Starts(v, z, arrival, Deadline(plan.day, z))
    <3>1. ASSUME start \in Starts(v, z, arrival, EventLimit) PROVE start \in Starts(v, z, arrival, Deadline(plan.day, z))
      <4> HIDE DEF start, v
      <4> QED BY <1>2, <1>3, <1>4, <1>10, <2>1, <3>1 DEF Starts
    <3> QED BY <2>1, <3>1
  <2> HIDE DEF v, start
  <2>4. start + v.dwell <= EventLimit /\ EventLimit <= Deadline(plan.day, z)
    BY <1>2, <1>3, <1>7, <1>10, <2>1 DEF v
  <2>5. stop \in Stops /\ after \in Moments
        /\ stop.kind = "stop" /\ stop.visit = k /\ stop.zone = z /\ stop.leg = DriveLeft
        /\ after.day = plan.day /\ after.now = start + v.dwell
    BY <1>2, <1>3, <2>1 DEF Stop, Stops, Moments, Zones
  <2>6. here.now + stop.leg = arrival
    BY <2>5 DEF arrival
  <2> HIDE DEF stop, after
  <2>a. Append(plan.stops, stop) \in Seq(Stops) /\ start + v.dwell \in Int
    BY <1>1, <2>1, <2>5 DEF PlanTyped
  <2>7. /\ plan'.at = "driving" /\ plan'.stops = Append(plan.stops, stop)
        /\ plan'.now = start + v.dwell /\ plan'.day = plan.day
    BY <1>1, <2>2 DEF PlanTyped
  <2>c. plan' = [at |-> "driving", event |-> k + 1, driven |-> Target(k), now |-> start + v.dwell, day |-> plan.day, zone |-> z,
                 nights |-> plan.nights, stops |-> Append(plan.stops, stop)]
    BY <1>1, <2>2 DEF PlanTyped
  <2>d. plan' \in [at : {"waiting", "driving", "conflict", "refused", "scheduled"}, event : Nat, driven : Int, now : Int,
            day : Int, zone : Zones, nights : Int, stops : Seq(Stops)]
    BY <1>1, <1>2, <2>c, <2>a DEF PlanTyped
  <2>b. PlanTyped(plan')
    BY <1>2, <1>10, <2>c, <2>d DEF PlanTyped
  <2>8. Fits(stop, here, after)
    <3>1. arrival + v.dwell <= start + v.dwell /\ start + v.dwell <= Deadline(plan.day, z)
      BY <1>2, <1>3, <1>4, <2>1, <2>4
    <3>2. here.day = plan.day /\ trip.visits[stop.visit] = v
      BY <2>5 DEF v
    <3>4. after.now - v.dwell = start
      BY <2>1, <2>5
    <3> HIDE DEF here
    <3>3. v.calendar.any \/ after.now - v.dwell \in Starts(v, z, here.now + stop.leg, Deadline(plan.day, z))
      <4>1. ASSUME start \in Starts(v, z, arrival, Deadline(plan.day, z))
            PROVE  after.now - v.dwell \in Starts(v, z, here.now + stop.leg, Deadline(plan.day, z))
        BY <2>6, <3>4, <4>1
      <4> QED BY <2>3, <4>1
    <3> QED BY <2>0, <2>5, <2>6, <3>1, <3>2, <3>3, <3>4 DEF Fits
  <2>9. OnCourse(plan', check')
    BY <1>1, <2>5, <2>7, <2>8, Continued
  <2>10. Ordered(plan', check')
    BY <1>1, <2>5, <2>7 DEF Ordered, PlanTyped
  <2> QED BY <1>1, <1>5, <2>b, <2>7, <2>9, <2>10 DEF Road
<1>11. CASE k <= n /\ ~Solvable(trip.visits[k], z, arrival, EventLimit)
  <2>1. plan' = [plan EXCEPT !.at = "conflict"]
    BY <1>6, <1>11
  <2>2. PlanTyped(plan') /\ plan'.at = "conflict" /\ plan'.stops = plan.stops
    BY <1>1, <2>1 DEF PlanTyped
  <2>3. Ordered(plan', check')
    BY <1>1, <2>2 DEF Ordered, PlanTyped
  <2> QED BY <1>1, <1>5, <2>2, <2>3 DEF Road
<1> QED BY <1>2, <1>9, <1>10, <1>11

\* A drive before a night is not a negative one.
LEMMA NightDrives ==
  ASSUME TripTyped, PlanTyped(plan), plan.at = "driving", NEW d \in HotelDrives
  PROVE  d \in Nat
<1>1. DriveLeft \in Nat /\ plan.now \in Int /\ plan.day \in Int /\ plan.zone \in Zones
  BY OnTheWay DEF PlanTyped
<1>2. NightZone \in Zones
  <2> DEFINE refined == [z \in Zones |-> ZoneAfter(plan.driven + Towards(z))]
  <2>1. refined \in [Zones -> Zones]
    BY DEF ZoneAfter, Zones
  <2> HIDE DEF refined
  <2>2. refined[refined[refined[plan.zone]]] \in Zones
    BY <1>1, <2>1
  <2> QED BY <2>2 DEF NightZone, refined
<1> DEFINE base == Towards(NightZone)
           cutoff == Deadline(plan.day, NightZone) - plan.now - base
<1>3. Preferred(plan.day, NightZone) \in Int /\ Deadline(plan.day, NightZone) \in Int
  BY <1>1, <1>2, Clocks
<1>4. base \in Int /\ cutoff \in Int
  BY <1>1, <1>3 DEF Towards, Least, Most
<1> HIDE DEF base, cutoff
<1>5. PICK offset \in {0, -1, 1, -2, cutoff, -5} : d = Least(DriveLeft, Most(0, base + offset))
  BY DEF HotelDrives, base, cutoff
<1> QED BY <1>1, <1>4, <1>5 DEF Least, Most

\* A night is a stop that fits: it is reached before its deadline and before the next restart.
LEMMA Resting ==
  ASSUME Road(plan, check), plan.at = "driving", NEW d \in HotelDrives, NEW z \in Zones, Overnight(d, z)
  PROVE  Road(plan', check')
<1> DEFINE here == [now |-> plan.now, day |-> plan.day]
           arrival == plan.now + d
           restart == Restart(plan.day, z)
           stop == Stop("hotel", z, d, 0)
           after == [now |-> restart, day |-> DateIn(restart, z)]
           at == IF arrival < restart THEN "driving" ELSE "refused"
<1>1. /\ TripTyped /\ PlanTyped(plan) /\ CheckTyped(check)
      /\ check = NewCheck(trip.departure) /\ check' = check /\ check.next = 1 /\ check.at = "timing"
      /\ OnCourse(plan, check)
      /\ \A i \in 1..Len(plan.stops) : plan.stops[i].kind # "end"
  BY DEF Road, Ordered, Overnight, NewCheck
<1>2. d \in Nat /\ plan.now \in Int /\ plan.day \in Int /\ plan.driven \in Int /\ plan.nights \in Int /\ plan.event \in 1..(n + 1)
  BY <1>1, NightDrives DEF PlanTyped
<1>3. restart \in Int /\ DateIn(restart, z) = plan.day + 1
  BY <1>1, <1>2, Clocks
<1>4. plan' = [at |-> at, event |-> plan.event, driven |-> plan.driven + d, now |-> restart, day |-> DateIn(restart, z), zone |-> z,
               nights |-> plan.nights + 1, stops |-> Append(plan.stops, stop)]
      /\ arrival <= Deadline(plan.day, z)
  BY <1>1 DEF Overnight, HotelZone, PlanTyped
<1>5. Excused(plan', check') /\ CheckTyped(check')
  BY <1>1 DEF Excused
<1>6. stop \in Stops /\ after \in Moments /\ stop.kind = "hotel" /\ stop.zone = z /\ stop.leg = d /\ stop.day = plan.day
      /\ after.now = restart /\ after.day = DateIn(restart, z)
  BY <1>2, <1>3 DEF Stop, Stops, Moments
<1> HIDE DEF stop, after
<1>7. Append(plan.stops, stop) \in Seq(Stops) /\ restart \in Int /\ DateIn(restart, z) \in Int /\ plan.driven + d \in Int /\ plan.nights + 1 \in Int
      /\ at \in {"driving", "refused"}
  BY <1>1, <1>2, <1>3, <1>6 DEF PlanTyped
<1> HIDE DEF restart, at
<1>8. PlanTyped(plan')
  BY <1>1, <1>2, <1>4, <1>7 DEF PlanTyped, TripTyped
<1>9. plan'.stops = Append(plan.stops, stop) /\ plan'.now = after.now /\ plan'.day = after.day /\ plan'.at = at
  BY <1>4, <1>6
<1>10. ASSUME at # "refused" PROVE OnCourse(plan', check')
  <2>1. here.now + stop.leg = arrival /\ here.day = plan.day /\ arrival < restart
    BY <1>6, <1>10 DEF at
  <2>2. after = [now |-> restart, day |-> DateIn(restart, z)]
    BY DEF after
  <2> HIDE DEF here
  <2>3. Fits(stop, here, after)
    BY <1>4, <1>6, <2>1, <2>2 DEF Fits, restart
  <2> QED BY <1>1, <1>6, <1>9, <2>3, Continued DEF here
<1>11. Ordered(plan', check')
  BY <1>1, <1>6, <1>9 DEF Ordered, PlanTyped, at
<1> QED BY <1>1, <1>5, <1>8, <1>9, <1>10, <1>11 DEF Road

\* A plan that is given up keeps what it has, and no check follows it.
LEMMA GivingUp ==
  ASSUME Road(plan, check), GiveUp
  PROVE  Road(plan', check')
<1>1. /\ TripTyped /\ PlanTyped(plan) /\ CheckTyped(check) /\ plan.at = "driving"
      /\ plan' = [plan EXCEPT !.at = "refused"] /\ check' = check
  BY DEF Road, GiveUp
<1>2. PlanTyped(plan') /\ plan'.at = "refused" /\ plan'.stops = plan.stops
  BY <1>1 DEF PlanTyped
<1>3. Ordered(plan', check') /\ Excused(plan', check')
  BY <1>1, <1>2 DEF Road, Ordered, Excused
<1> QED BY <1>1, <1>2, <1>3 DEF Road

\* On the road, a stop that fits its plan passes unless a leg was longer than its estimate.
LEMMA Timing ==
  ASSUME Road(plan, check), NEW leg \in Int, Time(leg)
  PROVE  Road(plan', check')
<1> DEFINE stop == plan.stops[check.next]
           z == stop.zone
           arrival == check.now + leg
           deadline == Deadline(check.day, z)
           slower == check.slower \/ leg > stop.leg
           v == trip.visits[stop.visit]
           start == Start(v, z, arrival, deadline)
           restart == Restart(check.day, z)
           passed == [check EXCEPT !.next = check.next + 1, !.slower = slower]
<1>1. /\ TripTyped /\ PlanTyped(plan) /\ CheckTyped(check) /\ Ordered(plan, check)
      /\ plan.at = "scheduled" => OnCourse(plan, check)
  BY DEF Road
<1>2. plan' = plan /\ plan.at = "scheduled" /\ check.at = "timing" /\ check.next <= Len(plan.stops)
  BY DEF Time
<1>3. Len(plan.stops) \in Nat /\ \A i \in 1..Len(plan.stops) : plan.stops[i] \in Stops
  BY <1>1 DEF PlanTyped
<1>4. check.now \in Int /\ check.day \in Int /\ check.slower \in BOOLEAN /\ check.next \in Nat \ {0}
  BY <1>1 DEF CheckTyped
<1>5. /\ stop.kind = "stop" =>
           /\ ~Solvable(v, z, arrival, deadline) => check' = [passed EXCEPT !.at = "conflict"]
           /\ Solvable(v, z, arrival, deadline) /\ start + v.dwell > deadline => check' = [passed EXCEPT !.at = "late"]
           /\ Solvable(v, z, arrival, deadline) /\ ~(start + v.dwell > deadline) => check' = [passed EXCEPT !.now = start + v.dwell]
      /\ stop.kind = "hotel" =>
           /\ arrival > deadline => check' = [passed EXCEPT !.at = "late"]
           /\ ~(arrival > deadline) /\ stop.day # check.day => check' = [passed EXCEPT !.at = "stay changed"]
           /\ ~(arrival > deadline) /\ stop.day = check.day /\ arrival >= restart => check' = [passed EXCEPT !.at = "no night"]
           /\ ~(arrival > deadline) /\ stop.day = check.day /\ ~(arrival >= restart) =>
                check' = [passed EXCEPT !.now = restart, !.day = DateIn(restart, z)]
      /\ stop.kind = "end" =>
           /\ arrival > FinalDeadline(check.day, z) => check' = [passed EXCEPT !.at = "late"]
           /\ ~(arrival > FinalDeadline(check.day, z)) => check' = [passed EXCEPT !.at = "passed"]
  BY DEF Time
<1>6. stop \in Stops /\ check.next \in 1..Len(plan.stops)
  BY <1>2, <1>3, <1>4
<1>7. slower \in BOOLEAN /\ (~slower => ~check.slower /\ ~(leg > stop.leg))
  BY <1>4
<1>8. arrival \in Int /\ (~slower => arrival <= check.now + stop.leg)
  <2>1. stop.leg \in Int
    BY <1>6 DEF Stops
  <2> HIDE DEF stop, slower
  <2> QED BY <1>4, <1>7, <2>1
<1>9. check.next + 1 \in Nat \ {0} /\ passed \in [at : {"timing"}, next : {check.next + 1}, now : {check.now}, day : {check.day}, slower : {slower}]
  <2>1. check.next + 1 \in Nat \ {0}
    BY <1>4
  <2> HIDE DEF slower
  <2>2. passed \in [at : {"timing"}, next : {check.next + 1}, now : {check.now}, day : {check.day}, slower : {slower}]
    BY <1>1, <1>2 DEF CheckTyped
  <2> QED BY <2>1, <2>2
<1> HIDE DEF passed, slower, stop, v, start
<1>10. z \in Zones /\ stop.leg \in Int /\ stop.day \in Int /\ stop.kind \in {"stop", "hotel", "end"}
  BY <1>6 DEF Stops
<1>11. deadline \in Int /\ FinalDeadline(check.day, z) \in Int /\ restart \in Int /\ DateIn(restart, z) \in Int
  BY <1>1, <1>4, <1>10, Clocks
<1>12. PICK clock : /\ Course(plan, clock)
                    /\ check.at = "timing" /\ ~check.slower => check.now <= clock[check.next].now /\ check.day = clock[check.next].day
  BY <1>1, <1>2 DEF OnCourse
<1> DEFINE before == clock[check.next]
           after == clock[check.next + 1]
<1>13. Fits(stop, before, after) /\ before \in Moments /\ after \in Moments
  <2>1. check.next \in 1..(Len(plan.stops) + 1) /\ check.next + 1 \in 1..(Len(plan.stops) + 1)
    BY <1>3, <1>6
  <2> QED BY <1>6, <1>12, <2>1 DEF Course, stop
<1>14. ~slower => arrival <= before.now + stop.leg /\ check.day = before.day
  <2>1. before.now \in Int
    BY <1>13 DEF Moments
  <2>2. ~slower => check.now <= before.now /\ check.day = before.day
    BY <1>2, <1>7, <1>12
  <2> HIDE DEF before, arrival
  <2> QED BY <1>4, <1>8, <1>10, <2>1, <2>2
<1> HIDE DEF z, arrival, deadline, restart, before, after
<1>15. ASSUME NEW at \in {"timing", "conflict", "late", "stay changed", "no night", "passed"}, check' = [passed EXCEPT !.at = at]
       PROVE  CheckTyped(check') /\ check'.at = at /\ check'.next = check.next + 1 /\ check'.slower = slower
  <2>1. check' \in [at : {at}, next : {check.next + 1}, now : {check.now}, day : {check.day}, slower : {slower}]
    BY <1>9, <1>15
  <2>2. check'.at = at /\ check'.next = check.next + 1
    BY <2>1
  <2>3. check'.slower = slower
    BY <2>1
  <2>4. check' \in [at : {"timing", "conflict", "late", "stay changed", "no night", "passed"}, next : Nat \ {0}, now : Int, day : Int, slower : BOOLEAN]
    BY <1>4, <1>7, <1>9, <2>1
  <2> QED BY <2>2, <2>3, <2>4 DEF CheckTyped
<1>16. ASSUME NEW now \in Int, NEW today \in Int,
              check' \in [at : {"timing"}, next : {check.next + 1}, now : {now}, day : {today}, slower : {slower}]
       PROVE  CheckTyped(check') /\ check'.at = "timing" /\ check'.next = check.next + 1 /\ check'.slower = slower
              /\ check'.now = now /\ check'.day = today
  <2>1. check'.at = "timing" /\ check'.next = check.next + 1 /\ check'.now = now /\ check'.day = today
    BY <1>16
  <2>2. check'.slower = slower
    BY <1>16
  <2>3. check' \in [at : {"timing", "conflict", "late", "stay changed", "no night", "passed"}, next : Nat \ {0}, now : Int, day : Int, slower : BOOLEAN]
    BY <1>7, <1>9, <1>16
  <2> QED BY <2>1, <2>2, <2>3 DEF CheckTyped
\* What is left to show of an outcome.
<1>17. ASSUME CheckTyped(check'), check'.next = check.next + 1, Excused(plan, check'),
              check'.at = "timing" /\ ~check'.slower => check'.now <= after.now /\ check'.day = after.day
       PROVE  Road(plan', check')
  <2>1. OnCourse(plan, check')
    BY <1>12, <1>17 DEF OnCourse, after
  <2>2. Ordered(plan, check')
    BY <1>1, <1>2, <1>3, <1>6, <1>17 DEF Ordered
  <2> QED BY <1>1, <1>2, <1>17, <2>1, <2>2 DEF Road
<1>18. CASE stop.kind = "stop"
  <2>1. /\ stop.visit \in 1..n
        /\ ~slower => /\ after.day = check.day /\ after.now <= deadline
                      /\ arrival + v.dwell <= after.now
                      /\ v.calendar.any \/ after.now - v.dwell \in Starts(v, z, before.now + stop.leg, deadline)
    <3>1. /\ stop.visit \in 1..n /\ after.day = before.day /\ after.now <= Deadline(before.day, z)
          /\ before.now + stop.leg + v.dwell <= after.now
          /\ v.calendar.any \/ after.now - v.dwell \in Starts(v, z, before.now + stop.leg, Deadline(before.day, z))
      BY <1>13, <1>18 DEF Fits, v, z
    <3>2. v.dwell \in Int /\ before.now \in Int /\ after.now \in Int
      BY <1>1, <1>13, <3>1 DEF TripTyped, VisitTyped, v, Moments
    <3>3. ASSUME ~slower PROVE arrival + v.dwell <= after.now
      BY <1>8, <1>10, <1>14, <3>1, <3>2, <3>3
    <3>4. ASSUME ~slower PROVE Deadline(before.day, z) = deadline
      BY <1>14, <3>4 DEF deadline
    <3> QED BY <1>14, <3>1, <3>3, <3>4
  <2>2. v.dwell \in Nat \ {0} /\ after.now \in Int /\ before.now \in Int
    BY <1>1, <1>13, <2>1 DEF TripTyped, VisitTyped, v, Moments
  <2>3. ASSUME Solvable(v, z, arrival, deadline)
        PROVE  /\ start \in Int
               /\ (v.calendar.any /\ start = arrival) \/ start + v.dwell <= deadline
               /\ v.calendar.any \/ \A s \in Starts(v, z, arrival, deadline) : start <= s
    BY <1>1, <1>8, <1>10, <1>11, <2>1, <2>3, StartsAreMoments DEF v, start
  <2>4. ASSUME ~slower PROVE Solvable(v, z, arrival, deadline) /\ start + v.dwell <= after.now
    <3>1. CASE v.calendar.any
      BY <1>8, <2>1, <2>2, <2>3, <2>4, <3>1 DEF Solvable, Start, start
    <3>2. CASE ~v.calendar.any
      <4>1. after.now - v.dwell \in Starts(v, z, before.now + stop.leg, deadline)
        BY <2>1, <2>4, <3>2
      <4>2. arrival <= before.now + stop.leg
        BY <1>14, <2>4
      <4>3. after.now - v.dwell \in Starts(v, z, arrival, deadline)
        BY <1>8, <1>10, <1>11, <2>2, <4>1, <4>2 DEF Starts
      <4>4. Solvable(v, z, arrival, deadline)
        BY <4>3 DEF Solvable
      <4>5. start <= after.now - v.dwell /\ start \in Int
        BY <2>3, <3>2, <4>3, <4>4
      <4> QED BY <2>2, <4>4, <4>5
    <3> QED BY <3>1, <3>2
  <2>5. CASE ~Solvable(v, z, arrival, deadline)
    <3>1. check' = [passed EXCEPT !.at = "conflict"] /\ slower
      BY <1>5, <1>18, <2>4, <2>5
    <3> QED BY <1>15, <1>17, <3>1 DEF Excused
  <2>6. CASE Solvable(v, z, arrival, deadline) /\ start + v.dwell > deadline
    <3>1. check' = [passed EXCEPT !.at = "late"]
      BY <1>5, <1>18, <2>6
    <3>2. slower
      BY <1>11, <2>1, <2>2, <2>3, <2>4, <2>6
    <3> QED BY <1>15, <1>17, <3>1, <3>2 DEF Excused
  <2>7. CASE Solvable(v, z, arrival, deadline) /\ ~(start + v.dwell > deadline)
    <3>1. start + v.dwell \in Int
      BY <2>2, <2>3, <2>7
    <3>3. check' = [passed EXCEPT !.now = start + v.dwell]
      BY <1>5, <1>18, <2>7
    <3>4. check' \in [at : {"timing"}, next : {check.next + 1}, now : {start + v.dwell}, day : {check.day}, slower : {slower}]
      BY <1>9, <3>3
    <3>2. ~slower => start + v.dwell <= after.now /\ check.day = after.day
      BY <2>1, <2>4
    <3> QED BY <1>4, <1>16, <1>17, <3>1, <3>2, <3>4 DEF Excused
  <2> QED BY <2>5, <2>6, <2>7
<1>19. CASE stop.kind = "hotel"
  <2>1. ~slower => /\ stop.day = check.day /\ arrival <= deadline /\ arrival < restart
                   /\ after.now = restart /\ after.day = DateIn(restart, z)
    <3>1. ASSUME ~slower PROVE before.day = check.day /\ before.now + stop.leg <= deadline /\ before.now + stop.leg < restart
                               /\ stop.day = check.day /\ after.now = restart /\ after.day = DateIn(restart, z)
      BY <1>13, <1>14, <1>19, <3>1 DEF Fits, z, deadline, restart
    <3>2. before.now \in Int
      BY <1>13 DEF Moments
    <3> QED BY <1>8, <1>10, <1>11, <1>14, <3>1, <3>2
  <2>2. CASE ~slower
    <3>1. ~(arrival > deadline) /\ stop.day = check.day /\ ~(arrival >= restart)
      BY <1>8, <1>11, <2>1, <2>2
    <3>2. check' = [passed EXCEPT !.now = restart, !.day = DateIn(restart, z)]
      BY <1>5, <1>19, <3>1
    <3>3. check' \in [at : {"timing"}, next : {check.next + 1}, now : {restart}, day : {DateIn(restart, z)}, slower : {slower}]
      BY <1>9, <3>2
    <3>4. restart <= after.now /\ DateIn(restart, z) = after.day
      BY <1>11, <2>1, <2>2
    <3> QED BY <1>11, <1>16, <1>17, <3>3, <3>4 DEF Excused
  <2>3. CASE slower
    <3>1. ASSUME NEW at \in {"timing", "conflict", "late", "stay changed", "no night", "passed"}, check' = [passed EXCEPT !.at = at]
          PROVE  Road(plan', check')
      BY <1>15, <1>17, <2>3, <3>1 DEF Excused
    <3>2. ASSUME check' = [passed EXCEPT !.now = restart, !.day = DateIn(restart, z)]
          PROVE  Road(plan', check')
      <4>1. check' \in [at : {"timing"}, next : {check.next + 1}, now : {restart}, day : {DateIn(restart, z)}, slower : {slower}]
        BY <1>9, <3>2
      <4> QED BY <1>11, <1>16, <1>17, <2>3, <4>1 DEF Excused
    <3> QED BY <1>5, <1>19, <3>1, <3>2
  <2> QED BY <2>2, <2>3
<1>20. CASE stop.kind = "end"
  <2>1. CASE ~(arrival > FinalDeadline(check.day, z))
    <3>1. check' = [passed EXCEPT !.at = "passed"]
      BY <1>5, <1>20, <2>1
    <3> QED BY <1>15, <1>17, <3>1 DEF Excused
  <2>2. CASE arrival > FinalDeadline(check.day, z)
    <3>1. check' = [passed EXCEPT !.at = "late"]
      BY <1>5, <1>20, <2>2
    <3>2. slower \/ FinalCutoff < trip.policy.preferred
      <4>1. before.now + stop.leg <= FinalDeadline(before.day, z) \/ FinalCutoff < trip.policy.preferred
        BY <1>13, <1>20 DEF Fits, z
      <4>2. before.now \in Int
        BY <1>13 DEF Moments
      <4> QED BY <1>8, <1>10, <1>11, <1>14, <2>2, <4>1, <4>2
    <3>3. check.next + 1 = Len(plan.stops) + 1
      <4>1. check.next \notin 1..(Len(plan.stops) - 1)
        BY <1>1, <1>20 DEF Ordered, stop
      <4> QED BY <1>3, <1>6, <4>1
    <3> QED BY <1>15, <1>17, <3>1, <3>2, <3>3 DEF Excused
  <2> QED BY <2>1, <2>2
<1> QED BY <1>10, <1>18, <1>19, <1>20

-----------------------------------------------------------------------------
(* Departures *)

\* A record of typed parts is a plan.
LEMMA PlanOf ==
  ASSUME NEW at \in {"driving", "waiting"}, NEW event \in Nat, NEW driven \in Int, NEW now \in Int, NEW today \in Int,
         NEW zone \in Zones, NEW nights \in Int, NEW stops \in Seq(Stops)
  PROVE  [at |-> at, event |-> event, driven |-> driven, now |-> now, day |-> today, zone |-> zone, nights |-> nights, stops |-> stops]
           \in [at : {"waiting", "driving", "conflict", "refused", "scheduled"}, event : Nat, driven : Int, now : Int,
               day : Int, zone : Zones, nights : Int, stops : Seq(Stops)]
OBVIOUS

\* The positions of the events along a route are numbers.
LEMMA TargetsTyped ==
  ASSUME NEW route, NEW visits, RouteTyped(route), Len(visits) \in Nat, \A k \in 1..Len(visits) : VisitTyped(visits[k])
  PROVE  Targets(route, visits) \in [1..(Len(visits) + 1) -> Int]
<1> DEFINE m == Len(visits)
           detours[k \in 0..m] == IF k = 0 THEN 0 ELSE detours[k - 1] + visits[k].detour
<1>1. \A k \in 1..m : visits[k].detour \in Nat /\ visits[k].position \in Nat /\ visits[k].detour \div 2 \in Int
  <2> TAKE k \in 1..m
  <2>1. visits[k].detour \in Nat /\ visits[k].position \in Nat
    BY DEF VisitTyped
  <2> QED BY <2>1
<1>2. detours \in [0..m -> Int]
  BY <1>1, DetoursAdd
<1>3. Targets(route, visits) = [k \in 1..(m + 1) |->
                                  IF k > m THEN route.drive + detours[m]
                                  ELSE visits[k].position + detours[k - 1] + visits[k].detour \div 2]
  BY DEF Targets
<1> HIDE DEF detours
<1>4. ASSUME NEW k \in 1..(m + 1)
      PROVE  (IF k > m THEN route.drive + detours[m] ELSE visits[k].position + detours[k - 1] + visits[k].detour \div 2) \in Int
  <2>1. route.drive \in Int /\ detours[m] \in Int
    BY <1>2 DEF RouteTyped
  <2>2. CASE k > m
    BY <2>1, <2>2
  <2>3. CASE ~(k > m)
    <3>1. k \in 1..m /\ k - 1 \in 0..m
      BY <2>3
    <3>2. visits[k].position \in Int /\ visits[k].detour \div 2 \in Int
      BY <1>1, <3>1
    <3>3. detours[k - 1] \in Int
      BY <1>2, <3>1
    <3> QED BY <2>3, <3>2, <3>3
  <2> QED BY <2>2, <2>3
<1> QED BY <1>3, <1>4

\* A trip that begins has no stop behind it.
LEMMA Beginning ==
  ASSUME NEW policy, NEW departure \in Int, NEW route, NEW visits, NEW at \in {"driving", "waiting"},
         PolicyTyped(policy), RouteTyped(route), Len(visits) \in Nat, DOMAIN visits = 1..Len(visits),
         \A k \in 1..Len(visits) : VisitTyped(visits[k]),
         trip = TripOf(policy, departure, route, visits), plan = [NewPlan(departure) EXCEPT !.at = at], check = NewCheck(departure)
  PROVE  RoadInv
<1>1. trip = [policy |-> policy, departure |-> departure, route |-> route, visits |-> visits, targets |-> Targets(route, visits)]
  BY DEF TripOf
<1>2. n = Len(visits)
  BY <1>1 DEF n
<1>3. TripTyped
  BY <1>1, <1>2, TargetsTyped DEF TripTyped
<1>4. plan = [at |-> at, event |-> 1, driven |-> 0, now |-> departure, day |-> 0, zone |-> 0, nights |-> 0, stops |-> <<>>]
  BY DEF NewPlan
<1>5. PlanTyped(plan)
  <2>1. 0 \in Zones /\ <<>> \in Seq(Stops) /\ 1 \in 1..(n + 1)
    BY <1>2 DEF Zones
  <2>3. plan \in [at : {"waiting", "driving", "conflict", "refused", "scheduled"}, event : Nat, driven : Int, now : Int,
                  day : Int, zone : Zones, nights : Int, stops : Seq(Stops)]
    <3>1. [at |-> at, event |-> 1, driven |-> 0, now |-> departure, day |-> 0, zone |-> 0, nights |-> 0, stops |-> <<>>]
            \in [at : {"waiting", "driving", "conflict", "refused", "scheduled"}, event : Nat, driven : Int, now : Int,
                day : Int, zone : Zones, nights : Int, stops : Seq(Stops)]
      BY <2>1, PlanOf
    <3> QED BY <1>4, <3>1, Zenon
  <2> QED BY <1>4, <2>1, <2>3 DEF PlanTyped
<1>6. check = [at |-> "timing", next |-> 1, now |-> departure, day |-> 0, slower |-> FALSE]
  BY DEF NewCheck
<1>7. CheckTyped(check) /\ check.at = "timing" /\ check.next = 1 /\ check.now = departure /\ check.day = 0
  BY <1>6 DEF CheckTyped
<1>8. Len(plan.stops) = 0 /\ plan.at = at
  BY <1>4
<1>9. Ordered(plan, check) /\ Excused(plan, check)
  BY <1>1, <1>4, <1>7, <1>8 DEF Ordered, Excused
<1>10. OnCourse(plan, check)
  <2> DEFINE clock == [i \in 1..1 |-> [now |-> departure, day |-> 0]]
  <2>1. Course(plan, clock)
    BY <1>1, <1>4, <1>8 DEF Course, Moments
  <2> QED BY <1>7, <2>1 DEF OnCourse
<1> QED BY <1>3, <1>5, <1>7, <1>9, <1>10 DEF Road, RoadInv

\* A schedule that is asked for begins on its course, with policies and visits that exist.
LEMMA ScheduleBegins ==
  ASSUME ScheduleInit
  PROVE  RoadInv /\ trip.departure \in 0..47 /\ plan = NewPlan(trip.departure) /\ \A k \in 1..n : CalendarTyped(trip.visits[k].calendar)
<1>1. PICK policy \in Policies, departure \in Departures, route \in Routes, m \in 0..MaxVisits :
        \E visits \in [1..m -> Visits] : trip = TripOf(policy, departure, route, visits)
  BY DEF ScheduleInit
<1>2. PICK visits \in [1..m -> Visits] : trip = TripOf(policy, departure, route, visits)
  BY <1>1
<1>3. trip.departure = departure
  BY <1>2 DEF TripOf
<1>4. Len(visits) = m /\ m \in Nat /\ DOMAIN visits = 1..m
  BY ScheduleAssumption
<1>5. PolicyTyped(policy) /\ RouteTyped(route) /\ departure \in Int /\ \A k \in 1..m : VisitTyped(visits[k])
  BY ScheduleAssumption
<1>6. plan = [NewPlan(departure) EXCEPT !.at = "driving"] /\ check = NewCheck(departure)
  BY <1>3 DEF ScheduleInit, NewPlan
<1>7. RoadInv
  BY <1>2, <1>4, <1>5, <1>6, Beginning
<1>8. trip.departure \in 0..47 /\ plan = NewPlan(trip.departure)
  BY <1>3, ScheduleAssumption DEF ScheduleInit
<1>9. \A k \in 1..n : CalendarTyped(trip.visits[k].calendar)
  <2>1. trip.visits = visits
    BY <1>2 DEF TripOf
  <2> QED BY <1>4, <2>1, ScheduleAssumption DEF n
<1> QED BY <1>7, <1>8, <1>9

\* So does a trip to a place of the catalog.
LEMMA BeginsOnCourse == CatalogInit => RoadInv
<1>1. ASSUME NEW w \in Waiting, trip = TripOf(w.policy, w.departure, w.route, <<w.visit>>),
             plan = [NewPlan(trip.departure) EXCEPT !.at = "waiting"], check = NewCheck(trip.departure)
      PROVE  RoadInv
  <2>1. trip.departure = w.departure
    BY <1>1 DEF TripOf
  <2>2. PolicyTyped(w.policy) /\ w.departure \in Int /\ RouteTyped(w.route) /\ VisitTyped(w.visit)
    BY PublishedAssumption
  <2> DEFINE visits == <<w.visit>>
  <2>3. Len(visits) \in Nat /\ DOMAIN visits = 1..Len(visits) /\ \A k \in 1..Len(visits) : VisitTyped(visits[k])
    BY <2>2
  <2> HIDE DEF visits
  <2>4. trip = TripOf(w.policy, w.departure, w.route, visits)
    BY <1>1 DEF visits
  <2>5. plan = [NewPlan(w.departure) EXCEPT !.at = "waiting"] /\ check = NewCheck(w.departure)
    BY <1>1, <2>1
  <2> QED BY <2>2, <2>3, <2>4, <2>5, Beginning
<1>2. ASSUME ScheduleInit PROVE RoadInv
  BY <1>2, ScheduleBegins
<1> QED BY <1>1, <1>2 DEF CatalogInit, AnyVisitor, PublishedInit

\* A trip that departs gets the calendar of its place and keeps everything else.
LEMMA Departing ==
  ASSUME RoadInv, Depart
  PROVE  RoadInv'
<1> DEFINE calendars == [any |-> FALSE, windows |-> TripWindows(calendar), fixed |-> {}]
           visits == [trip.visits EXCEPT ![1] = [trip.visits[1] EXCEPT !.calendar = calendars]]
<1>1. /\ TripTyped /\ PlanTyped(plan) /\ CheckTyped(check) /\ Ordered(plan, check) /\ OnCourse(plan, check)
      /\ plan.at = "waiting" /\ plan.stops = <<>> /\ check = NewCheck(trip.departure)
  BY DEF RoadInv, Road, Ordered, Depart
<1>2. /\ trip' = [trip EXCEPT !.visits = visits] /\ plan' = [plan EXCEPT !.at = "driving"] /\ check' = check
  BY <1>1 DEF Depart, TripTyped
<1> HIDE DEF calendars
<1>3. /\ DOMAIN visits = DOMAIN trip.visits
      /\ \A k \in 1..n : VisitTyped(visits[k])
  <2>1. ASSUME NEW k \in 1..n PROVE VisitTyped(visits[k])
    <3>1. VisitTyped(trip.visits[k]) /\ k \in DOMAIN trip.visits
      BY <1>1 DEF TripTyped
    <3>2. CASE k = 1
      <4>1. visits[k] = [trip.visits[k] EXCEPT !.calendar = calendars]
        BY <3>1, <3>2
      <4>2. visits[k] \in [position : Nat, detour : Nat, dwell : Nat \ {0}, calendar : {calendars}] /\ visits[k].detour = trip.visits[k].detour
        BY <3>1, <4>1 DEF VisitTyped
      <4> HIDE DEF visits
      <4> QED BY <3>1, <4>2 DEF VisitTyped
    <3>3. CASE k # 1
      BY <3>1, <3>3
    <3> QED BY <3>2, <3>3
  <2> QED BY <2>1
<1> HIDE DEF visits
<1>4. /\ trip'.visits = visits /\ trip'.policy = trip.policy /\ trip'.route = trip.route /\ trip'.departure = trip.departure
      /\ trip'.targets = trip.targets
      /\ trip' \in [policy : {trip.policy}, departure : Int, route : {trip.route}, visits : {visits}, targets : [1..(n + 1) -> Int]]
  BY <1>1, <1>2 DEF TripTyped
<1>5. n' = n /\ n \in Nat /\ DOMAIN visits = 1..n
  BY <1>1, <1>3, <1>4 DEF TripTyped, n
<1>6. TripTyped'
  BY <1>1, <1>3, <1>4, <1>5 DEF TripTyped
<1>7. plan' \in [at : {"driving"}, event : 1..(n + 1), driven : Int, now : {plan.now}, day : {plan.day}, zone : Zones, nights : Int, stops : {<<>>}]
  BY <1>1, <1>2 DEF PlanTyped
<1>8. plan'.at = "driving" /\ plan'.stops = <<>> /\ plan'.now = plan.now /\ plan'.day = plan.day
  BY <1>7
<1>9. PlanTyped(plan)'
  BY <1>1, <1>2, <1>5, <1>8 DEF PlanTyped
<1>10. CheckTyped(check)' /\ check'.at = "timing" /\ check'.next = 1 /\ check'.slower = FALSE
  BY <1>1, <1>2 DEF CheckTyped, NewCheck
<1>11. Ordered(plan, check)' /\ Excused(plan, check)'
  BY <1>1, <1>2, <1>4, <1>8, <1>10 DEF Ordered, Excused
<1>12. OnCourse(plan, check)'
  <2>1. PICK clock : /\ Course(plan, clock)
                     /\ check.at = "timing" /\ ~check.slower => check.now <= clock[check.next].now /\ check.day = clock[check.next].day
    BY <1>1 DEF OnCourse
  <2>2. clock \in [1..(Len(plan'.stops) + 1) -> Moments] /\ clock[1] = [now |-> trip'.departure, day |-> 0]
        /\ clock[Len(plan'.stops) + 1] = [now |-> plan'.now, day |-> plan'.day] /\ Len(plan'.stops) = 0
    BY <1>1, <1>4, <1>8, <2>1 DEF Course
  <2>3. Course(plan, clock)'
    BY <2>2 DEF Course
  <2> QED BY <1>2, <2>1, <2>3 DEF OnCourse
<1> QED BY <1>6, <1>9, <1>10, <1>11, <1>12 DEF RoadInv, Road

\* Every step of the scheduler and of the check keeps the course.
LEMMA SchedulingStays == RoadInv /\ ScheduleNext => RoadInv'
<1> SUFFICES ASSUME RoadInv, ScheduleNext PROVE RoadInv'
  OBVIOUS
<1> USE DEF RoadInv
<1>1. CASE Arrive
  BY <1>1, Arriving, SameRoad DEF Arrive
<1>2. CASE GiveUp
  BY <1>2, GivingUp, SameRoad DEF GiveUp
<1>3. CASE plan.at = "driving" /\ ~Reachable /\ \E d \in HotelDrives, z \in Zones : Overnight(d, z)
  BY <1>3, Resting, SameRoad DEF Overnight
<1>4. CASE \E i \in DOMAIN plan.stops : \E leg \in 0..(plan.stops[i].leg + 1) : check.next = i /\ Time(leg)
  <2>1. PICK leg \in Int : Time(leg)
    BY <1>4
  <2>2. Road(plan', check')
    BY <2>1, Timing
  <2> QED BY <2>1, <2>2, SameRoad DEF Time
<1> QED BY <1>1, <1>2, <1>3, <1>4 DEF ScheduleNext

\* So does every step of the catalog, whose departures carry imported calendars.
LEMMA StaysOnCourse == RoadInv /\ [CatalogNext]_catalogVars => RoadInv'
<1> SUFFICES ASSUME RoadInv, [CatalogNext]_catalogVars PROVE RoadInv'
  OBVIOUS
<1> USE DEF RoadInv
<1>1. CASE UNCHANGED scheduleVars
  BY <1>1, SameRoad DEF scheduleVars
<1>2. CASE ScheduleNext
  BY <1>2, SchedulingStays
<1>3. CASE Depart
  BY <1>3, Departing
<1>4. CASE PublishedNext
  <2>1. ASSUME NEW source, Import(source) PROVE UNCHANGED scheduleVars
    BY <2>1 DEF Import
  <2> QED BY <1>1, <1>2, <1>3, <1>4, <2>1
        DEF PublishedNext, ImportNps, ImportNpsMore, ImportFacility, ImportUsfs, ImportUsfsCurrent, ImportEntries, ImportTable,
            ImportDaily, ImportGrid, ImportSessions, ImportEvents, ImportMonth, ImportGallery, ImportEvent, ImportShore,
            ImportMarket, ImportVenue
<1>5. CASE Look
  BY <1>1, <1>5 DEF Look
<1>6. CASE UNCHANGED publishedVars
  BY <1>1, <1>6 DEF publishedVars, scheduleVars
<1> QED BY <1>4, <1>5, <1>6 DEF CatalogNext, catalogVars

\* ScheduleHolds: for any policies, routes, visits and calendars, those of imported pages and of served rows
\* included, the final check refuses a schedule only for a leg that is longer than its estimate, or at a
\* destination whose deadline is before the preferred hotel arrival.
THEOREM ScheduleStands == CatalogSpec => []ScheduleHolds
<1>1. CatalogSpec => []RoadInv
  BY BeginsOnCourse, StaysOnCourse, PTL DEF CatalogSpec
<1>2. RoadInv => ScheduleHolds
  BY DEF RoadInv, Road, Excused, ScheduleHolds
<1> QED BY <1>1, <1>2, PTL

-----------------------------------------------------------------------------
(* Visits of a schedule and the filter before discovery *)

\* A plan is as old as its nights, never behind its departure, and visits what the filter lets pass.
AgeInv ==
  /\ RoadInv /\ (plan.at # "waiting" => \A k \in 1..n : CalendarTyped(trip.visits[k].calendar))
  /\ plan.nights \in 0..MaxNights /\ plan.day = plan.nights
  /\ plan.at \in {"waiting", "driving"} => trip.departure <= plan.now
  /\ VisitsWerePossible

\* A full visit within a schedule lies within a window of the longest trip.
LEMMA FullVisit ==
  ASSUME TripTyped, NEW v, VisitTyped(v), CalendarTyped(v.calendar), NEW z \in Zones,
         NEW d \in 0..MaxNights, NEW arrival \in Int, NEW deadline \in Int,
         trip.departure <= arrival, deadline <= Deadline(d, z),
         NEW start \in Starts(v, z, arrival, deadline)
  PROVE  PossibleVisit(v, z)
<1> DEFINE moment == start + Offset(z)
           earliest == trip.departure + Offset(z)
           first == earliest \div 48
           last == LastDay(first)
<1>1. /\ MaxNights \in Nat /\ v.dwell \in Nat \ {0} /\ trip.departure \in Int /\ Offset(z) \in Int
      /\ Deadline(d, z) \in Int /\ Deadline(d, z) + Offset(z) <= 48 * (d + 1)
  BY ScheduleAssumption, Clocks DEF TripTyped, VisitTyped
<1>2. /\ start \in Int /\ arrival <= start /\ start + v.dwell <= deadline
      /\ v.calendar.fixed # {} => moment \in v.calendar.fixed
  BY <1>1 DEF Starts
<1>3. PICK w \in Windows(v) : w[1] <= moment /\ moment + v.dwell <= w[2]
  BY DEF Starts
<1>4. w[1] \in Int /\ w[2] \in Int /\ w[2] <= 48 * (w[1] \div 48 + 2) /\ w[1] \div 48 \in Int /\ 48 * (w[1] \div 48) <= w[1]
  <2>1. w \in Int \X Int /\ w[2] <= 48 * (w[1] \div 48 + 2)
    BY <1>3 DEF CalendarTyped, Windows, Day
  <2> QED BY <2>1
<1>5. first \in Int /\ 48 * first <= earliest /\ earliest \in Int
  BY <1>1
<1>6. last \in Int /\ MaxNights <= last
  BY <1>1, <1>5 DEF LastDay, Most
<1>7. moment \in Int /\ earliest <= moment /\ moment + v.dwell <= 48 * (last + 1)
  <2>1. moment + v.dwell <= 48 * (d + 1) /\ d <= MaxNights /\ d \in Int
    BY <1>1, <1>2
  <2> QED BY <1>1, <1>2, <1>6, <2>1
<1> HIDE DEF moment, earliest, first, last
<1> DEFINE closes == Least(w[2], 48 * (last + 1))
           lower == Most(earliest, w[1])
           upper == closes - v.dwell
           day1 == w[1] \div 48
<1>8. moment + v.dwell <= closes /\ closes \in Int
  BY <1>1, <1>3, <1>4, <1>6, <1>7 DEF Least
<1>9. lower <= moment /\ lower \in Int
  BY <1>3, <1>4, <1>5, <1>7 DEF Most
<1> HIDE DEF closes, lower
<1>10. moment \in lower..upper /\ lower <= upper
  BY <1>1, <1>7, <1>8, <1>9
<1>11. day1 \in (first - 1)..last
  <2> HIDE DEF day1
  <2>1. day1 \in Int /\ 48 * day1 <= w[1] /\ w[2] <= 48 * (day1 + 2)
    BY <1>4 DEF day1
  <2>2. 48 * first < 48 * (day1 + 2)
    <3>1. 48 * first \in Int /\ 48 * (day1 + 2) \in Int /\ w[2] \in Int
      BY <1>4, <1>5, <2>1
    <3>2. 48 * first <= moment /\ moment < w[2]
      BY <1>1, <1>3, <1>5, <1>7, <3>1
    <3> QED BY <1>7, <2>1, <3>1, <3>2
  <2>3. 48 * day1 < 48 * (last + 1)
    BY <1>1, <1>3, <1>4, <1>6, <1>7, <2>1
  <2>4. first < day1 + 2 /\ day1 < last + 1
    BY <1>5, <1>6, <2>1, <2>2, <2>3
  <2> QED BY <1>5, <1>6, <2>1, <2>4
<1>12. IF v.calendar.fixed = {} THEN lower <= upper ELSE v.calendar.fixed \cap (lower..upper) # {}
  BY <1>2, <1>10
<1> QED BY <1>3, <1>11, <1>12 DEF PossibleVisit, Windows, Day, closes, lower, earliest, first, last

\* Whether a visit is possible depends on its trip only.
LEMMA SamePossible ==
  ASSUME trip' = trip, NEW v, NEW z
  PROVE  PossibleVisit(v, z)' <=> PossibleVisit(v, z)
BY DEF PossibleVisit, Windows, Offset

\* Trips that wait do nothing else, and those on the way never wait again.
LEMMA OnTheRoad ==
  ASSUME RoadInv, ScheduleNext
  PROVE  trip' = trip /\ plan.at # "waiting" /\ plan'.at # "waiting"
<1>1. trip' = trip /\ plan \in [at : {plan.at}, event : {plan.event}, driven : {plan.driven}, now : {plan.now}, day : {plan.day},
                                zone : {plan.zone}, nights : {plan.nights}, stops : {plan.stops}]
  BY DEF ScheduleNext, Arrive, GiveUp, Overnight, Time, RoadInv, Road, PlanTyped
<1>2. CASE Arrive
  BY <1>1, <1>2 DEF Arrive
<1>3. CASE GiveUp
  BY <1>1, <1>3 DEF GiveUp
<1>4. CASE plan.at = "driving" /\ ~Reachable /\ \E d \in HotelDrives, z \in Zones : Overnight(d, z)
  BY <1>1, <1>4 DEF Overnight
<1>5. CASE \E i \in DOMAIN plan.stops : \E leg \in 0..(plan.stops[i].leg + 1) : check.next = i /\ Time(leg)
  BY <1>1, <1>5 DEF Time
<1> QED BY <1>1, <1>2, <1>3, <1>4, <1>5 DEF ScheduleNext

\* Every step of the scheduler visits what the filter lets pass, and a night is a day.
LEMMA VisitsStay ==
  ASSUME AgeInv, ScheduleNext
  PROVE  AgeInv'
<1>1. /\ RoadInv /\ RoadInv' /\ TripTyped /\ PlanTyped(plan) /\ trip' = trip /\ n \in Nat
      /\ plan.stops \in Seq(Stops) /\ plan.day \in Int /\ plan.now \in Int /\ trip.departure \in Int /\ MaxNights \in Nat
  <2>1. RoadInv' /\ RoadInv
    BY SchedulingStays DEF AgeInv
  <2>2. trip' = trip
    BY DEF ScheduleNext, Arrive, GiveUp, Overnight, Time
  <2> QED BY <2>1, <2>2, ScheduleAssumption DEF RoadInv, Road, PlanTyped, TripTyped
<1>2. plan.at # "waiting" /\ plan'.at # "waiting" /\ \A k \in 1..n' : CalendarTyped(trip'.visits[k].calendar)
  BY <1>1, OnTheRoad DEF AgeInv, n
<1>3. ASSUME UNCHANGED <<plan.nights, plan.day>>, plan'.at # "driving" \/ (plan.at = "driving" /\ plan.now <= plan'.now),
             plan'.now \in Int, plan'.stops = plan.stops
      PROVE  AgeInv'
  <2>1. VisitsWerePossible'
    BY <1>1, <1>3, SamePossible DEF AgeInv, VisitsWerePossible
  <2>2. plan'.at = "driving" => trip'.departure <= plan'.now
    BY <1>1, <1>3 DEF AgeInv
  <2> QED BY <1>1, <1>2, <1>3, <2>1, <2>2 DEF AgeInv
<1>4. ASSUME NEW stop, plan'.stops = Append(plan.stops, stop),
             stop.kind = "stop" => PossibleVisit(trip.visits[stop.visit], stop.zone)
      PROVE  VisitsWerePossible'
  <2>1. ASSUME NEW i \in DOMAIN plan'.stops, plan'.stops[i].kind = "stop"
        PROVE  PossibleVisit(trip.visits[plan'.stops[i].visit], plan'.stops[i].zone)
    <3>1. CASE i \in DOMAIN plan.stops
      BY <1>1, <1>4, <2>1, <3>1 DEF AgeInv, VisitsWerePossible
    <3>2. CASE i \notin DOMAIN plan.stops
      BY <1>1, <1>4, <2>1, <3>2
    <3> QED BY <3>1, <3>2
  <2> QED BY <1>1, <2>1, SamePossible DEF VisitsWerePossible
<1>5. CASE Arrive
  <2> DEFINE k == plan.event
             z == EventZone(k)
             arrival == plan.now + DriveLeft
  <2>1. plan.at = "driving" /\ trip.departure <= plan.now
    BY <1>5 DEF Arrive, AgeInv
  <2>2. /\ k \in 1..(n + 1) /\ DriveLeft \in Nat /\ z \in Zones /\ EventLimit \in Int
        /\ k <= n => EventLimit <= Deadline(plan.day, z)
    BY <1>1, <2>1, OnTheWay
  <2>3. /\ k > n => plan' = [plan EXCEPT !.driven = Target(k), !.event = k + 1, !.zone = z, !.at = "scheduled", !.now = arrival,
                                           !.stops = Append(plan.stops, Stop("end", z, DriveLeft, 0))]
        /\ k <= n /\ Solvable(trip.visits[k], z, arrival, EventLimit) =>
             plan' = [plan EXCEPT !.driven = Target(k), !.event = k + 1, !.zone = z,
                                  !.now = Start(trip.visits[k], z, arrival, EventLimit) + trip.visits[k].dwell,
                                  !.stops = Append(plan.stops, Stop("stop", z, DriveLeft, k))]
        /\ k <= n /\ ~Solvable(trip.visits[k], z, arrival, EventLimit) => plan' = [plan EXCEPT !.at = "conflict"]
    BY <1>1, <1>5, <2>1, <2>2 DEF Arrive, PlanTyped
  <2>4. arrival \in Int /\ trip.departure <= arrival
    BY <1>1, <2>1, <2>2
  <2> HIDE DEF k, z, arrival
  <2>5. CASE k > n
    <3>1. /\ plan'.at = "scheduled" /\ plan'.stops = Append(plan.stops, Stop("end", z, DriveLeft, 0))
          /\ plan'.nights = plan.nights /\ plan'.day = plan.day
      BY <1>1, <2>3, <2>5 DEF PlanTyped
    <3>2. VisitsWerePossible'
      BY <1>4, <3>1 DEF Stop
    <3> QED BY <1>1, <1>2, <3>1, <3>2 DEF AgeInv
  <2>6. CASE k <= n /\ Solvable(trip.visits[k], z, arrival, EventLimit)
    <3> DEFINE v == trip.visits[k]
               start == Start(v, z, arrival, EventLimit)
    <3>1. k \in 1..n /\ VisitTyped(v) /\ CalendarTyped(v.calendar) /\ plan.day \in 0..MaxNights
      BY <1>1, <1>2, <2>2, <2>6 DEF TripTyped, AgeInv
    <3>2. /\ start \in Int /\ arrival <= start /\ v.dwell \in Nat \ {0}
          /\ (v.calendar.any /\ start = arrival) \/ start \in Starts(v, z, arrival, EventLimit)
      BY <1>1, <2>2, <2>4, <2>6, <3>1, StartsAreMoments
    <3>3. plan' = [plan EXCEPT !.driven = Target(k), !.event = k + 1, !.zone = z, !.now = start + v.dwell,
                               !.stops = Append(plan.stops, Stop("stop", z, DriveLeft, k))]
      BY <2>3, <2>6
    <3> HIDE DEF start, v
    <3>4. /\ plan'.stops = Append(plan.stops, Stop("stop", z, DriveLeft, k)) /\ plan'.now = start + v.dwell
          /\ plan'.nights = plan.nights /\ plan'.day = plan.day
      BY <1>1, <3>3 DEF PlanTyped
    <3>5. PossibleVisit(v, z)
      <4>1. CASE v.calendar.any
        BY <4>1 DEF PossibleVisit
      <4>2. CASE ~v.calendar.any
        BY <1>1, <2>2, <2>4, <2>6, <3>1, <3>2, <4>2, FullVisit
      <4> QED BY <4>1, <4>2
    <3>6. VisitsWerePossible'
      BY <1>4, <3>4, <3>5 DEF Stop, v
    <3>7. trip'.departure <= plan'.now
      BY <1>1, <2>4, <3>2, <3>4
    <3> QED BY <1>1, <1>2, <3>4, <3>6, <3>7 DEF AgeInv
  <2>7. CASE k <= n /\ ~Solvable(trip.visits[k], z, arrival, EventLimit)
    <3>1. plan'.at = "conflict" /\ plan'.stops = plan.stops /\ plan'.nights = plan.nights /\ plan'.day = plan.day /\ plan'.now = plan.now
      BY <1>1, <2>3, <2>7 DEF PlanTyped
    <3> QED BY <1>1, <1>3, <3>1
  <2> QED BY <1>1, <2>2, <2>5, <2>6, <2>7
<1>6. CASE plan.at = "driving" /\ ~Reachable /\ \E d \in HotelDrives, z \in Zones : Overnight(d, z)
  <2>1. PICK d \in HotelDrives, z \in Zones : Overnight(d, z)
    BY <1>6
  <2> DEFINE restart == Restart(plan.day, z)
  <2>2. d \in Nat
    BY <1>1, <1>6, NightDrives
  <2>3. /\ plan.nights < MaxNights
        /\ plan'.at = IF plan.now + d < restart THEN "driving" ELSE "refused"
        /\ plan'.nights = plan.nights + 1 /\ plan'.now = restart /\ plan'.day = DateIn(restart, z)
        /\ plan'.stops = Append(plan.stops, Stop("hotel", z, d, 0))
    BY <1>1, <2>1 DEF Overnight, PlanTyped
  <2>4. restart \in Int /\ DateIn(restart, z) = plan.day + 1
    BY <1>1, Clocks
  <2> HIDE DEF restart
  <2>5. plan.nights \in 0..MaxNights /\ plan.day = plan.nights /\ trip.departure <= plan.now
    BY <1>6 DEF AgeInv
  <2>6. plan'.nights \in 0..MaxNights /\ plan'.day = plan'.nights
    BY <1>1, <2>3, <2>4, <2>5
  <2>7. plan'.at = "driving" => trip'.departure <= plan'.now
    BY <1>1, <2>2, <2>3, <2>4, <2>5
  <2>8. VisitsWerePossible'
    BY <1>4, <2>3 DEF Stop
  <2> QED BY <1>1, <1>2, <2>6, <2>7, <2>8 DEF AgeInv
<1>7. CASE GiveUp
  <2>1. plan'.at = "refused" /\ plan'.stops = plan.stops /\ plan'.nights = plan.nights /\ plan'.day = plan.day /\ plan'.now = plan.now
    BY <1>1, <1>7 DEF GiveUp, PlanTyped
  <2> QED BY <1>1, <1>3, <2>1
<1>8. CASE \E i \in DOMAIN plan.stops : \E leg \in 0..(plan.stops[i].leg + 1) : check.next = i /\ Time(leg)
  <2>1. plan' = plan /\ plan.at = "scheduled"
    BY <1>8 DEF Time
  <2> QED BY <1>1, <1>3, <2>1
<1> QED BY <1>5, <1>6, <1>7, <1>8 DEF ScheduleNext

-----------------------------------------------------------------------------
(* Taken in turn *)

\* Candidates are kept in turn: where no group of them hinders each other in a circle, there is exactly what Kept
\* describes.
LEMMA KeptInTurn ==
  ASSUME NEW C, NEW H, \A S \in SUBSET C : S # {} => \E x \in S : \A y \in S : <<y, x>> \notin H
  PROVE  /\ Kept(C, H) \in SUBSET C
         /\ \A c \in C : c \in Kept(C, H) <=> ~\E d \in Kept(C, H) : <<d, c>> \in H
<1> DEFINE Right(D, K) == /\ D \subseteq C /\ K \subseteq D
                          /\ \A c \in D : \A d \in C : <<d, c>> \in H => d \in D
                          /\ \A c \in D : c \in K <=> ~\E d \in K : <<d, c>> \in H
           U == {c \in C : \E D, K \in SUBSET C : Right(D, K) /\ c \in D}
           V == {c \in C : \E D, K \in SUBSET C : Right(D, K) /\ c \in K}
<1>0. /\ U \subseteq C /\ V \subseteq C
      /\ \A c \in U : \E D, K \in SUBSET C : Right(D, K) /\ c \in D
      /\ \A c \in V : \E D, K \in SUBSET C : Right(D, K) /\ c \in K
      /\ \A D, K \in SUBSET C : Right(D, K) => D \subseteq U /\ K \subseteq V
  <2> HIDE DEF Right
  <2>1. U \subseteq C /\ V \subseteq C
    OBVIOUS
  <2>2. \A c \in U : \E D, K \in SUBSET C : Right(D, K) /\ c \in D
    OBVIOUS
  <2>3. \A c \in V : \E D, K \in SUBSET C : Right(D, K) /\ c \in K
    OBVIOUS
  <2>4. ASSUME NEW D \in SUBSET C, NEW K \in SUBSET C, Right(D, K) PROVE D \subseteq U /\ K \subseteq V
    BY <2>4
  <2> QED BY <2>1, <2>2, <2>3, <2>4
<1> HIDE DEF U, V
<1>1. ASSUME NEW D \in SUBSET C, NEW K \in SUBSET C, NEW E \in SUBSET C, NEW L \in SUBSET C,
             Right(D, K), Right(E, L), NEW c \in D \cap E
      PROVE  c \in K <=> c \in L
  <2> DEFINE S == {x \in D \cap E : ~(x \in K <=> x \in L)}
  <2> SUFFICES ASSUME S # {} PROVE FALSE
    OBVIOUS
  <2>1. PICK x \in S : \A y \in S : <<y, x>> \notin H
    OBVIOUS
  <2>2. ASSUME NEW y \in C, <<y, x>> \in H PROVE y \in K <=> y \in L
    BY <1>1, <2>1, <2>2
  <2>3. (\E y \in K : <<y, x>> \in H) <=> (\E y \in L : <<y, x>> \in H)
    BY <2>2
  <2> QED BY <1>1, <2>1, <2>3
<1>2. ASSUME NEW D \in SUBSET C, NEW K \in SUBSET C, Right(D, K), NEW c \in D
      PROVE  c \in V <=> c \in K
  <2>1. c \in K => c \in V
    <3> HIDE DEF Right
    <3> QED BY <1>0, <1>2
  <2>2. ASSUME c \in V PROVE c \in K
    <3>1. PICK E \in SUBSET C, L \in SUBSET C : Right(E, L) /\ c \in L
      <4> HIDE DEF Right
      <4> QED BY <1>0, <2>2
    <3>2. c \in D \cap E
      BY <1>2, <3>1
    <3>3. c \in K <=> c \in L
      <4> HIDE DEF Right
      <4> QED BY <1>1, <1>2, <3>1, <3>2
    <3> QED BY <3>1, <3>3
  <2> QED BY <2>1, <2>2
<1>3. Right(U, V)
  <2>1. V \subseteq U /\ U \subseteq C
    <3> SUFFICES ASSUME NEW c \in V PROVE c \in U
      BY <1>0
    <3>1. PICK D \in SUBSET C, K \in SUBSET C : Right(D, K) /\ c \in K
      <4> HIDE DEF Right
      <4> QED BY <1>0
    <3>2. c \in D
      BY <3>1
    <3> HIDE DEF Right
    <3> QED BY <1>0, <3>1, <3>2
  <2>2. ASSUME NEW c \in U
        PROVE  /\ \A d \in C : <<d, c>> \in H => d \in U
               /\ c \in V <=> ~\E d \in V : <<d, c>> \in H
    <3>1. PICK D \in SUBSET C, K \in SUBSET C : Right(D, K) /\ c \in D
      <4> HIDE DEF Right
      <4> QED BY <1>0, <2>2
    <3>2. \A d \in C : <<d, c>> \in H => d \in D
      BY <3>1
    <3>3. \A d \in D : d \in U /\ (d \in V <=> d \in K)
      <4> HIDE DEF Right
      <4> QED BY <1>0, <1>2, <3>1
    <3>4. c \in K <=> ~\E d \in K : <<d, c>> \in H
      BY <3>1
    <3>5. K \subseteq D /\ V \subseteq C
      BY <1>0, <3>1
    <3> HIDE DEF Right, U, V
    <3> QED BY <3>1, <3>2, <3>3, <3>4, <3>5
  <2> QED BY <2>1, <2>2
<1>4. U = C
  <2> SUFFICES ASSUME C \ U # {} PROVE FALSE
    BY <1>0
  <2>1. PICK x \in C \ U : \A y \in C \ U : <<y, x>> \notin H
    OBVIOUS
  <2> DEFINE W == IF \E d \in V : <<d, x>> \in H THEN V ELSE V \cup {x}
             T == U \cup {x}
  <2>2. T \in SUBSET C /\ W \in SUBSET C /\ W \subseteq T
    BY <1>3, <2>1
  <2>3. \A c \in T : \A d \in C : <<d, c>> \in H => d \in T
    BY <1>3, <2>1
  <2>4. ASSUME NEW c \in T PROVE c \in W <=> ~\E d \in W : <<d, c>> \in H
    <3>1. <<x, c>> \notin H
      BY <1>3, <2>1
    <3>2. (\E d \in W : <<d, c>> \in H) <=> (\E d \in V : <<d, c>> \in H)
      BY <3>1
    <3>3. CASE c = x
      BY <1>3, <2>1, <3>2, <3>3
    <3>4. CASE c \in U
      <4>1. c # x /\ (c \in V <=> ~\E d \in V : <<d, c>> \in H)
        BY <1>3, <2>1, <3>4
      <4> QED BY <3>2, <4>1
    <3> QED BY <3>3, <3>4
  <2>5. Right(T, W)
    BY <2>2, <2>3, <2>4
  <2>6. x \in U
    <3> HIDE DEF Right
    <3> QED BY <1>0, <2>2, <2>5
  <2> QED BY <2>1, <2>6
<1>5. V \in SUBSET C /\ V = {c \in C : ~\E d \in V : <<d, c>> \in H}
  BY <1>3, <1>4
<1>6. Kept(C, H) \in SUBSET C /\ Kept(C, H) = {c \in C : ~\E d \in Kept(C, H) : <<d, c>> \in H}
  BY <1>5 DEF Kept
<1> DEFINE kept == Kept(C, H)
<1> HIDE DEF kept
<1>7. kept \in SUBSET C /\ kept = {c \in C : ~\E d \in kept : <<d, c>> \in H}
  BY <1>6 DEF kept
<1>8. \A c \in C : c \in kept <=> ~\E d \in kept : <<d, c>> \in H
  BY <1>7
<1> QED BY <1>7, <1>8 DEF kept

-----------------------------------------------------------------------------
(* What an import admits *)

\* A row carries the pages of all that was merged into it.
Paged(r) == \A p \in Parts(r) : PageFits(p)

\* AsPublished on a given day, of a row that carries the evidence it was admitted on.
PublishedOn(r, today) ==
  /\ Paged(r)
  /\ {"source", "id", "says", "read", "donors"} \subseteq DOMAIN r
  /\ \A publisher \in DOMAIN r.says : r.says[publisher] # "closed"
  /\ r.source # "overture" => today - r.read \in 0..(Month + 1) /\ ("drive" \in DOMAIN r => r.drive.claimed <= Street)

\* Each source has a rule of its own.
LEMMA QualifiedBy ==
  ASSUME NEW r, NEW today, Qualifies(r, today)
  PROVE  /\ r.source = "overture" => PlaceQualifies(r)
         /\ r.source = "boulder" => TrailheadQualifies(r)
         /\ r.source = "nps" => ParkCenterQualifies(r)
         /\ r.source \in {"heritage", "nature"} => SiteCenterQualifies(r)
         /\ r.source = "beaches" => BeachLotQualifies(r)
         /\ r.source = "roadside" => RoadsideQualifies(r, today)
         /\ r.source = "usfs" => ReserveQualifies(r, today) /\ Drives(r)
         /\ r.source = "markets" => MarketQualifies(r, today)
         /\ r.source = "parks" => ParkQualifies(r, today)
         /\ r.source = "facilities" => FacilityQualifies(r, today)
         /\ r.source = "usfs_current" => PrimaryQualifies(r, 0) /\ Drives(r)
         /\ r.source = "cultural" => CulturalQualifies(r, today)
         /\ r.source = "coastal" => CoastalQualifies(r, today)
         /\ r.source = "ny_markets" => NyQualifies(r)
         /\ r.source = "ca_markets" => CaQualifies(r)
         /\ r.source = "more_ny_markets" => NyMoreQualifies(r)
         /\ r.source = "pilot" => ProspectQualifies(r, today)
BY DEF Qualifies

\* A record that qualifies is closed by none of its publishers.
LEMMA NoneSaysClosed ==
  ASSUME NEW b, NEW r \in b.records, NEW today, BatchTyped(b), Qualifies(r, today),
         b.source = "overture" /\ b.reviewed => PlaceReviewed(r, today),
         NEW p \in DOMAIN r.says
  PROVE  r.says[p] # "closed"
<1>1. r.source = b.source /\ p \in Publishers(b) /\ b.source \in Sources
  BY DEF BatchTyped, RecordTyped
<1>2. CASE b.source = "overture"
  <2>1. p = "overture" => r.says[p] = "open"
    BY <1>1, <1>2, QualifiedBy DEF PlaceQualifies, Says
  <2>2. b.reviewed => Says(r, "operator", {"open"})
    BY <1>2 DEF PlaceReviewed
  <2>3. p \in IF b.reviewed THEN {"overture", "operator"} ELSE {"overture"}
    BY <1>1, <1>2 DEF Publishers, ParkSources, ForestSources
  <2> QED BY <2>1, <2>2, <2>3 DEF Says
<1>3. CASE b.source = "boulder"
  BY <1>1, <1>3, QualifiedBy DEF Publishers, ParkSources, ForestSources, TrailheadQualifies, Says
<1>4. CASE b.source = "nps"
  BY <1>1, <1>4, QualifiedBy DEF Publishers, ParkSources, ForestSources, ParkCenterQualifies, CenterQualifies, Says
<1>5. CASE b.source \in {"heritage", "nature"}
  BY <1>1, <1>5, QualifiedBy DEF Publishers, ParkSources, ForestSources, SiteCenterQualifies, SiteListed, CenterQualifies, Says
<1>6. CASE b.source = "beaches"
  BY <1>1, <1>6, QualifiedBy DEF Publishers, ParkSources, ForestSources, BeachLotQualifies, Says
<1>7. CASE b.source = "roadside"
  BY <1>1, <1>7, QualifiedBy DEF Publishers, ParkSources, ForestSources, RoadsideQualifies, Says
<1>8. CASE b.source = "usfs"
  BY <1>1, <1>8, QualifiedBy DEF Publishers, ParkSources, ForestSources, ReserveQualifies, Says
<1>9. CASE b.source = "usfs_current"
  BY <1>1, <1>9, QualifiedBy DEF Publishers, ParkSources, ForestSources, PrimaryQualifies, Says
<1>10. CASE b.source = "parks"
  BY <1>1, <1>10, QualifiedBy DEF Publishers, ParkSources, ForestSources, ParkQualifies, Says
<1>11. CASE b.source = "cultural"
  BY <1>1, <1>11, QualifiedBy DEF Publishers, ParkSources, ForestSources, CulturalQualifies, Says
<1>12. CASE b.source = "coastal"
  BY <1>1, <1>12, QualifiedBy DEF Publishers, ParkSources, ForestSources, CoastalQualifies, Says
<1>13. CASE b.source = "pilot"
  BY <1>1, <1>13, QualifiedBy DEF Publishers, ParkSources, ForestSources, ProspectQualifies, Says
<1>14. CASE b.source \in Rosters \cup {"markets", "facilities"}
  BY <1>1, <1>14 DEF Publishers, ParkSources, ForestSources, Rosters
<1> QED
  BY <1>1, <1>2, <1>3, <1>4, <1>5, <1>6, <1>7, <1>8, <1>9, <1>10, <1>11, <1>12, <1>13, <1>14
     DEF Sources, ParkSources, ForestSources, Unrouted

\* A record with a drive ends at the place, wherever the source asks for one.
LEMMA EndsAtPlace ==
  ASSUME NEW b, NEW r \in b.records, NEW today, BatchTyped(b), Qualifies(r, today), b.source # "overture",
         "drive" \in DOMAIN r
  PROVE  r.drive.claimed <= Street
<1>1. r.source = b.source /\ b.source \in Sources /\ b.source \notin Unrouted
  BY DEF BatchTyped, RecordTyped
<1>2. CASE b.source = "roadside"
  <2>1. r.drive # NoProof /\ r.drive.claimed <= 1
    BY <1>1, <1>2, QualifiedBy DEF RoadsideQualifies
  <2>2. r.drive.claimed \in Nat
    BY <2>1 DEF BatchTyped, RecordTyped
  <2> QED BY <2>1, <2>2 DEF Street
<1>3. CASE b.source \in {"heritage", "nature", "usfs", "usfs_current", "facilities"}
  <2>1. Drives(r)
    BY <1>1, <1>3, QualifiedBy DEF SiteCenterQualifies, FacilityQualifies
  <2> QED BY <2>1 DEF Drives
<1>4. CASE b.source \in {"parks", "cultural", "coastal"}
  <2>1. Drives(r)
    BY <1>1, <1>4, QualifiedBy DEF ParkQualifies, ParkArrival, CulturalQualifies, CulturalArrival, CoastalQualifies, CoastalArrival
  <2> QED BY <2>1 DEF Drives
<1>5. CASE b.source \in Rosters \cup {"markets"}
  <2>1. Drives(r)
    BY <1>1, <1>5, QualifiedBy DEF Rosters, MarketQualifies, NyQualifies, CaQualifies, NyMoreQualifies
  <2> QED BY <2>1 DEF Drives
<1> QED BY <1>1, <1>2, <1>3, <1>4, <1>5 DEF Sources, ParkSources, ForestSources, Unrouted

\* Its pages are of the month before the import, a prospect's of a day more.
LEMMA ReadInTime ==
  ASSUME NEW b, NEW r \in b.records, NEW today, BatchTyped(b), Qualifies(r, today), InTime(b, today), b.source # "overture"
  PROVE  today - r.read \in 0..(Month + 1)
<1>1. CASE b.source = "pilot"
  <2>1. r.source = "pilot"
    BY <1>1 DEF BatchTyped, RecordTyped
  <2> QED BY <2>1, QualifiedBy DEF ProspectQualifies, Fresh
<1>2. CASE b.source # "pilot"
  <2>1. today - r.read \in 0..Month
    BY <1>2 DEF InTime, Fresh
  <2> QED BY <2>1, MonthAssumption
<1> QED BY <1>1, <1>2

\* Whether a page fits depends on what is recorded of hours only.
LEMMA SamePage ==
  ASSUME NEW q, PageFits(q), NEW r, DOMAIN r = DOMAIN q, \A f \in DOMAIN q \ {"at", "donors"} : r[f] = q[f]
  PROVE  PageFits(r) /\ r.source = q.source
<1>1. {"source", "page", "donors"} \subseteq DOMAIN q /\ r.source = q.source /\ r.page = q.page
  BY DEF PageFits
<1>2. CASE AtMarket(r)
  <2>1. r.feeds = q.feeds /\ r.officials = q.officials
    BY <1>1, <1>2 DEF PageFits, AtMarket
  <2>2. Agreeing(r) = Agreeing(q) /\ Fitting(r) = Fitting(q)
    BY <2>1 DEF Agreeing, Fitting
  <2>3. MarketPage(r) = MarketPage(q)
    BY <1>1, <2>1, <2>2 DEF MarketPage
  <2> QED BY <1>1, <2>3 DEF PageFits, AtMarket
<1>3. CASE ~AtMarket(r)
  BY <1>1, <1>3 DEF PageFits
<1> QED BY <1>1, <1>2, <1>3

\* A record of one source is all that is known of its place.
LEMMA RecordPaged ==
  ASSUME NEW r, NEW b, RecordTyped(r, b)
  PROVE  Paged(r)
<1>1. Parts(r) = {r}
  BY DEF RecordTyped, Parts
<1> QED BY <1>1 DEF RecordTyped, Paged

\* A qualified record is what its source's rule asks for.
LEMMA RecordPublished ==
  ASSUME NEW b, NEW r \in b.records, NEW today, BatchTyped(b), Qualifies(r, today), InTime(b, today),
         b.source = "overture" /\ b.reviewed => PlaceReviewed(r, today)
  PROVE  PublishedOn(r, today)
<1>1. {"source", "id", "says", "read", "donors"} \subseteq DOMAIN r /\ r.source = b.source
  BY DEF BatchTyped, RecordTyped
<1>2. \A publisher \in DOMAIN r.says : r.says[publisher] # "closed"
  BY NoneSaysClosed
<1>3. b.source # "overture" => today - r.read \in 0..(Month + 1)
  BY ReadInTime
<1>4. b.source # "overture" /\ "drive" \in DOMAIN r => r.drive.claimed <= Street
  BY EndsAtPlace
<1>5. Paged(r)
  BY RecordPaged DEF BatchTyped
<1> QED BY <1>1, <1>2, <1>3, <1>4, <1>5 DEF PublishedOn

\* The rule of a batch is its source's.
LEMMA AdmittedBy ==
  ASSUME NEW b, NEW qualified, NEW today, b.source \in Sources
  PROVE  /\ b.source = "overture" => Admitted(b, qualified, today) = OpenData(b, qualified, today)
         /\ b.source = "boulder" => Admitted(b, qualified, today) = TrailheadRows(b, qualified)
         /\ b.source = "nps" => Admitted(b, qualified, today) = CenterRows(b, qualified)
         /\ b.source \in {"heritage", "nature"} => Admitted(b, qualified, today) = SiteRows(b, qualified)
         /\ b.source = "beaches" => Admitted(b, qualified, today) = LargestLots(qualified)
         /\ b.source = "facilities" => Admitted(b, qualified, today) = FacilityRows(b, qualified)
         /\ b.source = "usfs" => Admitted(b, qualified, today) = ReserveRows(b, qualified)
         /\ b.source = "usfs_current" => Admitted(b, qualified, today) = ForestRows(b, qualified)
         /\ b.source = "roadside" => Admitted(b, qualified, today) = RoadsideRows(b, qualified)
         /\ b.source = "parks" => Admitted(b, qualified, today) = ParkRows(b, qualified)
         /\ b.source = "cultural" => Admitted(b, qualified, today) = MuseumRows(b, qualified)
         /\ b.source = "coastal" => Admitted(b, qualified, today) = ShoreRows(b, qualified)
         /\ b.source = "markets" => Admitted(b, qualified, today) = MarketRows(b, qualified)
         /\ b.source = "ny_markets" => Admitted(b, qualified, today) = NyRows(b, Lone(qualified, b.baseline))
         /\ b.source = "ca_markets" => Admitted(b, qualified, today) = CaRows(b, Lone(qualified, b.baseline))
         /\ b.source = "more_ny_markets" => Admitted(b, qualified, today) = NyMoreRows(b, Lone(qualified, b.baseline))
         /\ b.source = "pilot" => Admitted(b, qualified, today) = Prospects(b, qualified)
BY DEF Admitted

\* Prospects are kept in the order of their identities.
LEMMA ProspectsQualify ==
  ASSUME NEW b, NEW qualified, \A r \in qualified : r.id \in Nat, Prospects(b, qualified) # Refused
  PROVE  Prospects(b, qualified) \subseteq qualified
<1> DEFINE same(r, o) == \/ r.id = o.id \/ r.native = o.native
                         \/ r.region = o.region /\ r.names \cap o.names # {}
                         \/ Near(r, o)
           new == {r \in qualified : ~\E o \in b.baseline : same(r, o)}
           hinders == {pair \in new \X new : pair[1].id < pair[2].id /\ same(pair[2], pair[1])}
<1>1. Prospects(b, qualified) = Kept(new, hinders) /\ new \subseteq qualified
  BY DEF Prospects
<1>2. \A d, c : <<d, c>> \in hinders => d.id < c.id
  OBVIOUS
<1> HIDE DEF new, hinders
<1>3. ASSUME NEW S \in SUBSET new, S # {} PROVE \E x \in S : \A y \in S : <<y, x>> \notin hinders
  <2> DEFINE N == {r.id : r \in S}
  <2>1. N \in SUBSET Nat /\ N # {}
    BY <1>1, <1>3
  <2>2. PICK m \in N : \A j \in N : m <= j
    BY <2>1, LeastNumber
  <2>3. PICK x \in S : x.id = m
    OBVIOUS
  <2>4. ASSUME NEW y \in S, <<y, x>> \in hinders PROVE FALSE
    <3>1. y.id \in N /\ y.id \in Nat /\ m \in Nat
      BY <2>1
    <3>2. x.id <= y.id /\ y.id < x.id /\ x.id \in Nat
      BY <1>2, <2>2, <2>3, <2>4, <3>1
    <3> QED BY <3>1, <3>2
  <2> QED BY <2>4
<1>4. Kept(new, hinders) \in SUBSET new
  BY <1>3, KeptInTurn
<1> QED BY <1>1, <1>4

\* An adapter admits records that qualify; only a trailhead is moved.
LEMMA AdmittedQualify ==
  ASSUME NEW b, NEW today, BatchTyped(b), NEW qualified \in SUBSET b.records, Admitted(b, qualified, today) # Refused,
         b.source # "boulder"
  PROVE  Admitted(b, qualified, today) \subseteq qualified
<1> DEFINE admitted == Admitted(b, qualified, today)
<1>1. b.source \in Sources
  BY DEF BatchTyped
<1>2. CASE b.source = "overture"
  <2>1. admitted = OpenData(b, qualified, today)
    BY <1>1, <1>2, AdmittedBy
  <2> HIDE DEF admitted
  <2>2. admitted # Refused
    BY DEF admitted
  <2>3. admitted \subseteq qualified
    BY <2>1, <2>2 DEF OpenData
  <2> QED BY <2>3 DEF admitted
<1>3. CASE b.source \in {"nps", "heritage", "nature", "facilities", "usfs_current"}
  <2>1. admitted \in {CenterRows(b, qualified), SiteRows(b, qualified), FacilityRows(b, qualified), ForestRows(b, qualified)}
    BY <1>1, <1>3, AdmittedBy
  <2> HIDE DEF admitted
  <2>2. admitted # Refused
    BY DEF admitted
  <2>3. admitted \subseteq qualified
    BY <2>1, <2>2 DEF CenterRows, SiteRows, FacilityRows, ForestRows, Distinct
  <2> QED BY <2>3 DEF admitted
<1>4. CASE b.source = "beaches"
  <2>1. admitted = LargestLots(qualified)
    BY <1>1, <1>4, AdmittedBy
  <2> HIDE DEF admitted
  <2>2. admitted # Refused
    BY DEF admitted
  <2>3. admitted \subseteq qualified
    BY <2>1, <2>2 DEF LargestLots
  <2> QED BY <2>3 DEF admitted
<1>5. CASE b.source \in {"usfs", "roadside", "parks", "markets"}
  <2>1. admitted \in {ReserveRows(b, qualified), RoadsideRows(b, qualified), ParkRows(b, qualified), MarketRows(b, qualified)}
    BY <1>1, <1>5, AdmittedBy
  <2> HIDE DEF admitted
  <2>2. admitted # Refused
    BY DEF admitted
  <2>3. admitted \subseteq qualified
    BY <2>1, <2>2 DEF ReserveRows, RoadsideRows, ParkRows, MarketRows, Entire
  <2> QED BY <2>3 DEF admitted
<1>6. CASE b.source \in {"cultural", "coastal"}
  <2>1. admitted \in {MuseumRows(b, qualified), ShoreRows(b, qualified)}
    BY <1>1, <1>6, AdmittedBy
  <2> HIDE DEF admitted
  <2>2. admitted # Refused
    BY DEF admitted
  <2>3. admitted \subseteq qualified
    BY <2>1, <2>2 DEF MuseumRows, ShoreRows, Entire
  <2> QED BY <2>3 DEF admitted
<1>7. CASE b.source \in Rosters
  <2> DEFINE lone == Lone(qualified, b.baseline)
  <2>1. admitted \in {NyRows(b, lone), CaRows(b, lone), NyMoreRows(b, lone)}
    BY <1>1, <1>7, AdmittedBy DEF Rosters
  <2>2. lone \subseteq qualified /\ Reviewable(lone) \subseteq lone
    BY DEF Lone, Reviewable
  <2> HIDE DEF lone, admitted
  <2>3. admitted \in {lone, Reviewable(lone), Refused}
    BY <2>1 DEF NyRows, CaRows, NyMoreRows, Frozen
  <2> QED BY <2>2, <2>3 DEF admitted
<1>8. CASE b.source = "pilot"
  <2>1. \A r \in qualified : r.id \in Nat
    BY DEF BatchTyped, RecordTyped
  <2>2. admitted = Prospects(b, qualified)
    BY <1>1, <1>8, AdmittedBy
  <2> QED BY <2>1, <2>2, ProspectsQualify
<1> QED
  BY <1>1, <1>2, <1>3, <1>4, <1>5, <1>6, <1>7, <1>8 DEF Sources, ParkSources, ForestSources, Unrouted

\* Admitted trailheads stand where their parking is.
LEMMA TrailheadsMoved ==
  ASSUME NEW b, NEW today, BatchTyped(b), NEW qualified, Admitted(b, qualified, today) # Refused, b.source = "boulder"
  PROVE  Admitted(b, qualified, today) = {[q EXCEPT !.at = TrailheadPoint(q)] : q \in qualified}
<1>1. Admitted(b, qualified, today) = TrailheadRows(b, qualified)
  BY AdmittedBy DEF BatchTyped
<1> QED BY <1>1 DEF TrailheadRows, Distinct

\* What is replayed are rows of the batch's source with their pages.
LEMMA ReplayedFit ==
  ASSUME NEW b, NEW today, BatchTyped(b), Replay(b, today) # Refused, NEW r \in Replay(b, today)
  PROVE  r.source = b.source /\ PageFits(r) /\ Paged(r)
<1> DEFINE qualified == {q \in b.records : Qualifies(q, today)}
<1>1. Replay(b, today) = Admitted(b, qualified, today) /\ qualified \in SUBSET b.records
  BY DEF Replay
<1>2. \A q \in qualified : q.source = b.source /\ PageFits(q) /\ q.donors = {} /\ {"at", "donors"} \subseteq DOMAIN q
  BY <1>1 DEF BatchTyped, RecordTyped
<1> HIDE DEF qualified
<1>3. PICK q \in qualified : r = q \/ r = [q EXCEPT !.at = TrailheadPoint(q)]
  <2>1. CASE b.source # "boulder"
    BY <1>1, <2>1, AdmittedQualify
  <2>2. CASE b.source = "boulder"
    BY <1>1, <2>2, TrailheadsMoved
  <2> QED BY <2>1, <2>2
<1>4. DOMAIN r = DOMAIN q /\ \A f \in DOMAIN q \ {"at"} : r[f] = q[f]
  BY <1>3
<1>5. PageFits(r) /\ r.source = q.source /\ r.donors = {}
  BY <1>2, <1>4, SamePage
<1>6. Parts(r) = {r}
  BY <1>5 DEF Parts
<1> QED BY <1>2, <1>5, <1>6 DEF Paged

\* What is replayed on a day may be published on it.
LEMMA ReplayedArePublished ==
  ASSUME NEW b, NEW today, BatchTyped(b), Replay(b, today) # Refused, NEW r \in Replay(b, today)
  PROVE  PublishedOn(r, today)
<1> DEFINE qualified == {q \in b.records : Qualifies(q, today)}
<1>1. InTime(b, today) /\ Replay(b, today) = Admitted(b, qualified, today) /\ qualified \in SUBSET b.records
  BY DEF Replay
<1>2. b.source = "overture" /\ b.reviewed => \A q \in qualified : PlaceReviewed(q, today)
  BY <1>1, AdmittedBy, ZenonT(60) DEF OpenData, BatchTyped
<1>3. ASSUME NEW q \in qualified PROVE PublishedOn(q, today)
  BY <1>1, <1>2, RecordPublished
<1> HIDE DEF qualified
<1>4. CASE b.source # "boulder"
  BY <1>1, <1>3, <1>4, AdmittedQualify
<1>5. CASE b.source = "boulder"
  <2>1. PICK q \in qualified : r = [q EXCEPT !.at = TrailheadPoint(q)]
    BY <1>1, <1>5, TrailheadsMoved
  <2>2. PublishedOn(q, today)
    BY <1>3
  <2>3. DOMAIN r = DOMAIN q /\ \A f \in DOMAIN q \ {"at"} : r[f] = q[f]
    BY <2>1, <2>2 DEF PublishedOn
  <2>4. Paged(r)
    BY <1>1, ReplayedFit
  <2> QED BY <2>2, <2>3, <2>4 DEF PublishedOn
<1> QED BY <1>4, <1>5

-----------------------------------------------------------------------------
(* What a generation adds *)

\* The rows after each of a sequence of merges.
MergesOf(rows, merges, m) ==
  LET after[k \in 0..m] == IF k = 0 THEN rows ELSE Merge(after[k - 1], merges[k]) IN after

\* The merges of a base are applied one after the other.
LEMMA MergesApply ==
  ASSUME NEW rows, NEW merges, NEW m \in Nat
  PROVE  \A k \in 0..m : MergesOf(rows, merges, m)[k] = IF k = 0 THEN rows ELSE Merge(MergesOf(rows, merges, m)[k - 1], merges[k])
<1> DEFINE Applies(f, j) == f = [k \in 0..j |-> IF k = 0 THEN rows ELSE Merge(f[k - 1], merges[k])]
           N == {j \in 0..m : ~\E f : Applies(f, j)}
<1>1. N = {}
  <2> SUFFICES ASSUME N # {} PROVE FALSE
    OBVIOUS
  <2>1. PICK j \in N : \A i \in N : j <= i
    <3>1. N \in SUBSET Nat
      OBVIOUS
    <3> HIDE DEF N
    <3> QED BY <3>1, LeastNumber
  <2>2. CASE j = 0
    <3> DEFINE g == [k \in 0..0 |-> rows]
    <3>1. Applies(g, 0)
      OBVIOUS
    <3> QED BY <2>2, <3>1
  <2>3. CASE j > 0
    <3>0. j \in 0..m /\ j - 1 \in 0..m /\ ~(j <= j - 1)
      BY <2>3
    <3>1. j - 1 \in 0..m /\ j - 1 \notin N
      BY <2>1, <3>0
    <3>2. PICK f : Applies(f, j - 1)
      BY <3>1
    <3> DEFINE g == [k \in 0..j |-> IF k < j THEN f[k] ELSE Merge(f[j - 1], merges[j])]
    <3>4. ASSUME NEW k \in 0..j PROVE g[k] = IF k = 0 THEN rows ELSE Merge(g[k - 1], merges[k])
      <4>1. CASE k < j
        <5>1. f[k] = IF k = 0 THEN rows ELSE Merge(f[k - 1], merges[k])
          BY <3>2, <4>1, <2>3
        <5>2. g[k] = f[k] /\ (k # 0 => g[k - 1] = f[k - 1])
          BY <4>1, <2>3
        <5> QED BY <5>1, <5>2
      <4>2. CASE k = j
        BY <4>2, <2>3
      <4> QED BY <4>1, <4>2
    <3>5. Applies(g, j)
      BY <3>4
    <3> QED BY <2>1, <3>5
  <2> QED BY <2>2, <2>3
<1>2. \E f : Applies(f, m)
  <2> HIDE DEF Applies
  <2>1. m \in 0..m
    OBVIOUS
  <2>2. m \notin N
    <3> HIDE DEF N
    <3> QED BY <1>1
  <2> QED BY <2>1, <2>2
<1> DEFINE d == CHOOSE f : Applies(f, m)
<1>3. Applies(d, m)
  BY <1>2
<1> HIDE DEF d
<1>4. \A k \in 0..m : d[k] = IF k = 0 THEN rows ELSE Merge(d[k - 1], merges[k])
  BY <1>3
<1> QED BY <1>4 DEF d, MergesOf

\* A merge takes over what is recorded of a place, never the evidence it was admitted on.
LEMMA MergeKeepsEvidence ==
  ASSUME NEW rows, NEW rule, NEW today, \A r \in rows : PublishedOn(r, today), Merge(rows, rule) # Refused,
         NEW r \in Merge(rows, rule)
  PROVE  PublishedOn(r, today)
<1> DEFINE row(id) == CHOOSE q \in rows : q.id = id
           a == row(rule.keep)
           b == row(rule.merge)
<1>1. {rule.keep, rule.merge} \subseteq Ids(rows) /\ Merge(rows, rule) = (rows \ {a, b}) \cup {[a EXCEPT !.donors = @ \cup Parts(b)]}
  BY DEF Merge
<1>2. a \in rows /\ b \in rows
  BY <1>1 DEF Ids
<1> HIDE DEF a, b
<1>3. CASE r = [a EXCEPT !.donors = @ \cup Parts(b)]
  <2>1. PublishedOn(a, today) /\ PublishedOn(b, today)
    BY <1>2
  <2>2. DOMAIN r = DOMAIN a /\ \A f \in DOMAIN a \ {"donors"} : r[f] = a[f]
    BY <1>3
  <2>3. Parts(r) = {r} \cup a.donors \cup Parts(b)
    BY <1>3, <2>1 DEF Parts, PublishedOn
  <2>4. \A p \in a.donors \cup Parts(b) : PageFits(p)
    BY <2>1 DEF PublishedOn, Paged, Parts
  <2>5. PageFits(r)
    <3>1. PageFits(a)
      BY <2>1 DEF PublishedOn, Paged, Parts
    <3> QED BY <2>2, <3>1, SamePage
  <2>6. Paged(r)
    BY <2>3, <2>4, <2>5 DEF Paged
  <2> QED BY <2>1, <2>2, <2>6 DEF PublishedOn
<1> QED BY <1>1, <1>3

\* Merges of published rows are published, one merge after the other.
LEMMA JoinedArePublished ==
  ASSUME NEW rows, NEW merges, Len(merges) \in Nat, NEW today, \A r \in rows : PublishedOn(r, today),
         Joined(rows, merges) # Refused
  PROVE  \A r \in Joined(rows, merges).rows : PublishedOn(r, today)
<1> DEFINE m == Len(merges)
           after == MergesOf(rows, merges, m)
           Good(k) == after[k] # Refused => \A r \in after[k] : PublishedOn(r, today)
           N == {k \in 0..m : ~Good(k)}
<1>1. \A k \in 0..m : after[k] = IF k = 0 THEN rows ELSE Merge(after[k - 1], merges[k])
  BY MergesApply
<1>2. Joined(rows, merges) = [rows |-> after[m], calendars |-> <<>>] /\ after[m] # Refused
  BY DEF Joined, MergesOf
<1> HIDE DEF after
<1>3. N = {}
  <2> SUFFICES ASSUME N # {} PROVE FALSE
    OBVIOUS
  <2>1. PICK k \in N : \A i \in N : k <= i
    <3>1. N \in SUBSET Nat
      OBVIOUS
    <3> HIDE DEF N
    <3> QED BY <3>1, LeastNumber
  <2>2. CASE k = 0
    BY <1>1, <2>1, <2>2
  <2>3. CASE k # 0
    <3>1. k - 1 \in 0..m /\ k - 1 \notin N
      BY <2>1, <2>3
    <3>2. after[k] = Merge(after[k - 1], merges[k]) /\ after[k] # Refused
      BY <1>1, <2>1, <2>3
    <3>3. after[k - 1] # Refused
      BY <3>2 DEF Merge
    <3>4. \A r \in after[k - 1] : PublishedOn(r, today)
      BY <3>1, <3>3
    <3>5. \A r \in after[k] : PublishedOn(r, today)
      BY <3>2, <3>4, MergeKeepsEvidence
    <3> QED BY <2>1, <3>5
  <2> QED BY <2>2, <2>3
<1>4. m \in 0..m /\ m \notin N
  BY <1>3
<1>5. \A r \in after[m] : PublishedOn(r, today)
  BY <1>2, <1>4
<1> QED BY <1>2, <1>5

\* So is a base, whose inputs are replayed before they are merged.
LEMMA AssembledArePublished ==
  ASSUME NEW w, WorldTyped(w), NEW today, Assembled(w, today) # Refused
  PROVE  \A r \in Assembled(w, today).rows : PublishedOn(r, today)
<1> DEFINE replayed == {Replay(w.inputs[i], today) : i \in DOMAIN w.inputs}
           rows == UNION replayed
<1>1. Assembled(w, today) = Joined(rows, w.merges) /\ Refused \notin replayed
  BY DEF Assembled, Gathered
<1>2. ASSUME NEW r \in rows PROVE PublishedOn(r, today)
  <2>1. PICK i \in DOMAIN w.inputs : r \in Replay(w.inputs[i], today)
    OBVIOUS
  <2>2. BatchTyped(w.inputs[i])
    BY DEF WorldTyped
  <2>3. Replay(w.inputs[i], today) # Refused
    BY <1>1
  <2> QED BY <2>1, <2>2, <2>3, ReplayedArePublished
<1>3. Len(w.merges) \in Nat
  BY DEF WorldTyped
<1> HIDE DEF replayed, rows
<1> QED BY <1>1, <1>2, <1>3, JoinedArePublished

\* What an enrichment adds comes from the batches of its inputs.
LEMMA AddedWereReplayed ==
  ASSUME NEW c, NEW parent, NEW replayed, DOMAIN replayed = DOMAIN c.inputs, Enrichment(c, parent, replayed) # Refused,
         NEW r \in Enrichment(c, parent, replayed).rows, r \notin parent.rows
  PROVE  \E i \in DOMAIN c.inputs : replayed[i] # Refused /\ r \in replayed[i]
<1>1. \A i \in DOMAIN replayed : InputStands(c.inputs[i], replayed[i], parent)
  BY DEF Enrichment, Accepts
<1>2. Enrichment(c, parent, replayed).rows = parent.rows \cup AddedBy(ChosenBy(c, replayed))
  BY DEF Enrichment, Extended
<1>3. PICK i \in DOMAIN replayed : r \in Chosen(c.inputs[i], replayed[i])
  BY <1>2 DEF AddedBy, ChosenBy
<1>4. replayed[i] # Refused
  BY <1>1 DEF InputStands
<1> QED BY <1>3, <1>4 DEF Chosen

-----------------------------------------------------------------------------
(* Batches stay what an adapter can replay *)

\* Hours that an adapter made of their page, where it did not refuse it.
EntryMade(e) == PageTyped(e.page) /\ e.hours \in {Held, Unresolved, Adapted(e.page)}

EvidenceInv ==
  /\ \A g \in Generations \ {0} : offered[g] # NoProof =>
       /\ \A i \in DOMAIN offered[g].inputs : BatchTyped(offered[g].inputs[i].batch)
       /\ \A id \in DOMAIN offered[g].entries : EntryMade(offered[g].entries[id])
  /\ \A g \in Generations : staged[g] # NoProof => staged[g] # Refused

\* A facility that fails to load is left out, of a site its drive.
LEMMA AcquiredTyped ==
  ASSUME NEW refresh, NEW parent, NEW sources \in Acquired(refresh, parent),
         \A i \in DOMAIN refresh.sources : BatchTyped(refresh.sources[i]) /\ refresh.sources[i].source \in Unattended
  PROVE  /\ DOMAIN sources = DOMAIN refresh.sources
         /\ \A i \in DOMAIN sources : BatchTyped(sources[i]) /\ sources[i].source = refresh.sources[i].source
<1> DEFINE acquire(b, lost) == IF b.source = "facilities" THEN ParksAcquired(b, lost) ELSE ForestAcquired(b, refresh, parent, lost)
<1>1. PICK lost : sources = [i \in DOMAIN refresh.sources |-> acquire(refresh.sources[i], lost)]
  BY DEF Acquired
<1>2. ASSUME NEW b, BatchTyped(b), b.source = "facilities"
      PROVE  BatchTyped(ParksAcquired(b, lost)) /\ ParksAcquired(b, lost).source = b.source
  <2> DEFINE a == ParksAcquired(b, lost)
  <2>1. DOMAIN a = DOMAIN b /\ a.source = b.source /\ a.records = b.records \ lost
    BY <1>2 DEF ParksAcquired, BatchTyped
  <2> HIDE DEF a
  <2>2. Publishers(a) = {} /\ Publishers(b) = {}
    BY <1>2, <2>1 DEF Publishers, ParkSources, ForestSources
  <2>3. \A r \in b.records : RecordTyped(r, b) => RecordTyped(r, a)
    BY <2>1, <2>2 DEF RecordTyped
  <2>4. \A r, o \in a.records : r.id = o.id => r.native = o.native
    BY <1>2, <2>1 DEF BatchTyped, Unattended
  <2>5. BatchTyped(a)
    BY <1>2, <2>1, <2>3, <2>4 DEF BatchTyped
  <2> QED BY <2>1, <2>5 DEF a
<1>3. ASSUME NEW b, BatchTyped(b), b.source = "usfs_current"
      PROVE  BatchTyped(ForestAcquired(b, refresh, parent, lost)) /\ ForestAcquired(b, refresh, parent, lost).source = b.source
  <2> DEFINE a == ForestAcquired(b, refresh, parent, lost)
             fails(r) == IF r \in lost THEN [r EXCEPT !.drive = NoProof] ELSE r
  <2>1. /\ DOMAIN a = DOMAIN b /\ a.source = b.source
        /\ \A x \in a.records : \E r \in b.records : x = fails(r)
    BY <1>3 DEF ForestAcquired, BatchTyped
  <2> HIDE DEF a
  <2>2. Publishers(a) = {"construction", "public"} /\ Publishers(b) = {"construction", "public"}
    BY <1>3, <2>1 DEF Publishers, ParkSources, ForestSources
  <2>3. ASSUME NEW r \in b.records
        PROVE  /\ fails(r).id = r.id /\ fails(r).native = r.native /\ DOMAIN fails(r) = DOMAIN r
               /\ fails(r).source = r.source /\ fails(r).donors = r.donors /\ fails(r).says = r.says
               /\ fails(r).drive = r.drive \/ fails(r).drive = NoProof \/ "drive" \notin DOMAIN r
    BY DEF BatchTyped, RecordTyped
  <2>4. ASSUME NEW x \in a.records PROVE RecordTyped(x, a)
    <3>1. PICK r \in b.records : x = fails(r)
      BY <2>1
    <3>2. RecordTyped(r, b)
      BY <1>3 DEF BatchTyped
    <3>3. PageFits(fails(r))
      <4>1. PageFits(r) /\ r.source = "usfs_current" /\ fails(r).page = r.page
        BY <1>3, <3>2 DEF RecordTyped
      <4> HIDE DEF fails
      <4> QED BY <2>3, <4>1 DEF PageFits, AtMarket, Rosters
    <3> HIDE DEF fails
    <3> QED BY <2>1, <2>2, <2>3, <3>1, <3>2, <3>3 DEF RecordTyped
  <2>5. ASSUME NEW x \in a.records, NEW y \in a.records, x.id = y.id PROVE x.native = y.native
    <3>1. PICK r \in b.records, o \in b.records : x = fails(r) /\ y = fails(o)
      BY <2>1
    <3>2. r.id = o.id
      BY <2>3, <2>5, <3>1
    <3>3. r.native = o.native
      BY <1>3, <3>2 DEF BatchTyped, Unattended
    <3> QED BY <2>3, <3>1, <3>3
  <2>6. BatchTyped(a)
    BY <1>3, <2>1, <2>4, <2>5 DEF BatchTyped
  <2> QED BY <2>1, <2>6 DEF a
<1>4. ASSUME NEW i \in DOMAIN refresh.sources
      PROVE  /\ BatchTyped(acquire(refresh.sources[i], lost))
             /\ acquire(refresh.sources[i], lost).source = refresh.sources[i].source
  BY <1>2, <1>3 DEF Unattended
<1> HIDE DEF acquire
<1> QED BY <1>1, <1>4

\* A bundle carries the batches that its refresh acquired, and no reviewed entries.
LEMMA BundleBatches ==
  ASSUME NEW refresh, NEW sources, NEW replayed, NEW parent
  PROVE  /\ DOMAIN Bundle(refresh, sources, replayed, parent).inputs = DOMAIN sources
         /\ Bundle(refresh, sources, replayed, parent).entries = <<>>
         /\ \A i \in DOMAIN sources : Bundle(refresh, sources, replayed, parent).inputs[i].batch = sources[i]
BY DEF Bundle

\* The payloads of a world are what its adapters can replay.
LEMMA EvidenceBegins == CatalogInit => EvidenceInv
<1>1. ASSUME NoAdmission PROVE EvidenceInv
  BY <1>1 DEF NoAdmission, EvidenceInv, Generations
<1>2. ASSUME AdmissionInit PROVE EvidenceInv
  <2>1. WorldTyped(world) /\ Len(world.enrichments) \in Nat
    BY <1>2, WorldsAssumption DEF AdmissionInit, WorldTyped
  <2>2. Generations = 0..Len(world.enrichments) /\ \A g \in Generations : staged[g] = NoProof
    BY <1>2 DEF AdmissionInit, Generations
  <2>3. \A g \in Generations \ {0} : g \in 1..Len(world.enrichments)
    BY <2>1, <2>2
  <2> QED BY <1>2, <2>1, <2>2, <2>3 DEF AdmissionInit, EvidenceInv, WorldTyped, EntryMade
<1> QED BY <1>1, <1>2 DEF CatalogInit

LEMMA EvidenceStays == IInv /\ EvidenceInv /\ [CatalogNext]_catalogVars => EvidenceInv'
<1> SUFFICES ASSUME IInv, EvidenceInv, [CatalogNext]_catalogVars PROVE EvidenceInv'
  OBVIOUS
<1>1. ASSUME staged' = staged, offered' = offered PROVE EvidenceInv'
  BY <1>1 DEF EvidenceInv, Generations
<1>2. ASSUME NEW g \in Generations, NEW made, Stage(g, made) PROVE EvidenceInv'
  <2>1. offered' = offered /\ made # Refused /\ staged' = [staged EXCEPT ![g] = made]
    BY <1>2 DEF Stage
  <2>2. Generations' = Generations /\ \A h \in Generations : staged'[h] = IF h = g THEN made ELSE staged[h]
    BY <2>1 DEF Generations
  <2> QED BY <2>1, <2>2 DEF EvidenceInv
<1>3. CASE Refresh
  <2> DEFINE w == world.refresh.writes
  <2>1. /\ world # NoProof /\ world.refresh # NoProof /\ staged' = staged /\ WorldTyped(world)
    BY <1>3, WorldsAssumption DEF Refresh, IInv, ShapeInv
  <2>2. PICK sources \in Acquired(world.refresh, staged[serving].rows) :
          \E replayed \in {[i \in DOMAIN sources |-> Replay(sources[i], day)]} :
            \E payload \in {Bundle(world.refresh, sources, replayed, staged[serving])} :
              offered' = [offered EXCEPT ![w] = payload]
    BY <1>3, Zenon DEF Refresh
  <2>3. PICK replayed : offered' = [offered EXCEPT ![w] = Bundle(world.refresh, sources, replayed, staged[serving])]
    BY <2>2, Zenon
  <2> DEFINE payload == Bundle(world.refresh, sources, replayed, staged[serving])
  <2>4. \A i \in DOMAIN sources : BatchTyped(sources[i])
    <3>1. \A i \in DOMAIN world.refresh.sources : BatchTyped(world.refresh.sources[i]) /\ world.refresh.sources[i].source \in Unattended
      BY <2>1 DEF WorldTyped
    <3> QED BY <3>1, AcquiredTyped
  <2>5. /\ \A i \in DOMAIN payload.inputs : BatchTyped(payload.inputs[i].batch)
        /\ \A id \in DOMAIN payload.entries : EntryMade(payload.entries[id])
    <3>1. payload.entries = <<>> /\ DOMAIN payload.entries = {}
      BY BundleBatches
    <3> QED BY <2>4, <3>1, BundleBatches
  <2> HIDE DEF payload
  <2>6. \A g \in Generations \ {0} : g \in DOMAIN offered
    BY <2>1 DEF IInv, ShapeInv, Generations, WorldTyped
  <2>7. \A g \in Generations \ {0} : offered'[g] = IF g = w THEN payload ELSE offered[g]
    BY <2>3, <2>6 DEF payload
  <2> HIDE DEF w
  <2> QED BY <2>1, <2>5, <2>7 DEF EvidenceInv, Generations
<1>4. CASE AdmissionNext
  BY <1>1, <1>2, <1>4 DEF AdmissionNext, NextDay, Activate, Rollback, Freeze, Switch
<1>5. CASE Look \/ UNCHANGED admissionVars
  BY <1>1, <1>5 DEF Look, admissionVars
<1> QED BY <1>3, <1>4, <1>5 DEF CatalogNext, catalogVars

\* What is staged, or prepared again, on a day adds only what may be published on it.
LEMMA ContentIsPublished ==
  ASSUME IInv, EvidenceInv, NEW g \in Generations, Content(g, day) # Refused, NEW r \in Content(g, day).rows,
         g # 0 => r \notin staged[Parent(g)].rows
  PROVE  PublishedOn(r, day)
<1>1. WorldTyped(world)
  BY WorldsAssumption DEF IInv, ShapeInv, Generations
<1>2. CASE g = 0
  BY <1>1, <1>2, AssembledArePublished DEF Content
<1>3. CASE g # 0
  <2> DEFINE c == offered[g]
             parent == staged[Parent(g)]
             replayed == Replays(c, day)
  <2>1. c # NoProof /\ Content(g, day) = Enrichment(c, parent, replayed)
    BY <1>3 DEF Content, Enriched, Parent
  <2>2. \A i \in DOMAIN c.inputs : BatchTyped(c.inputs[i].batch)
    BY <1>3, <2>1 DEF EvidenceInv
  <2>3. DOMAIN replayed = DOMAIN c.inputs /\ \A i \in DOMAIN c.inputs : replayed[i] = Replay(c.inputs[i].batch, day)
    BY DEF Replays
  <2>4. r \notin parent.rows
    BY <1>3
  <2> HIDE DEF c, parent, replayed
  <2>5. PICK i \in DOMAIN c.inputs : replayed[i] # Refused /\ r \in replayed[i]
    BY <2>1, <2>3, <2>4, AddedWereReplayed
  <2> QED BY <2>2, <2>3, <2>5, ReplayedArePublished
<1> QED BY <1>2, <1>3

\* AdmittedAsPublished: for any worlds, refreshes and days, a generation that is staged, or whose receipt is frozen,
\* adds only places that no publisher calls closed and, but for the base map's own, from pages in time, with the
\* drive's end at the place.
THEOREM OnlyAsPublished == CatalogSpec => AdmittedAsPublished
<1>1. IInv /\ EvidenceInv /\ [CatalogNext]_catalogVars =>
        [\A g \in Generations : staged'[g] # staged[g] \/ g \in receipts' \ receipts =>
           \A r \in Additions(g) : AsPublished(r)]_admissionVars
  <2> SUFFICES ASSUME IInv, EvidenceInv, [CatalogNext]_catalogVars, admissionVars' # admissionVars,
                      NEW g \in Generations, staged'[g] # staged[g] \/ g \in receipts' \ receipts,
                      NEW r \in Additions(g)
               PROVE  AsPublished(r)
    BY Zenon
  <2>1. PICK h \in Generations : Stage(h, Content(h, day)) \/ Freeze(h, Content(h, day))
    <3>1. CASE AdmissionNext
      BY <3>1 DEF AdmissionNext, NextDay, Activate, Rollback, Switch
    <3>2. CASE Refresh \/ Look \/ UNCHANGED admissionVars
      BY <3>2 DEF Refresh, Look, admissionVars
    <3> QED BY <3>1, <3>2 DEF CatalogNext, catalogVars
  <2>2. g = h
    BY <2>1 DEF Stage, Freeze, Generations
  <2>3. staged'[g] = Content(g, day) /\ Content(g, day) # Refused
    BY <2>1, <2>2 DEF Stage, Freeze, Prepared, Generations, EvidenceInv
  <2>4. r \in Content(g, day).rows /\ (g # 0 => r \notin staged[Parent(g)].rows)
    BY <2>3 DEF Additions
  <2>5. PublishedOn(r, day)
    BY <2>3, <2>4, ContentIsPublished
  <2> QED BY <2>5 DEF PublishedOn, AsPublished
<1>2. CatalogSpec => []EvidenceInv
  BY EvidenceBegins, EvidenceStays, Invariant, PTL DEF CatalogSpec
<1> QED BY <1>1, <1>2, Invariant, PTL DEF CatalogSpec, AdmittedAsPublished

-----------------------------------------------------------------------------
(* What a refresh replays *)

\* The pages of an unattended source are all it depends on: in time on two days, it replays the same rows.
LEMMA SameReplay ==
  ASSUME NEW b, NEW then, NEW today, b.source \in Unattended, Replay(b, then) # Refused,
         \A r \in b.records : Fresh(r, today, Month), \A r \in b.records : r.source = b.source
  PROVE  Replay(b, today) = Replay(b, then)
<1>1. InTime(b, then)
  BY DEF Replay
<1>2. InTime(b, today)
  BY <1>1 DEF InTime, Unattended, Rosters
<1>3. ASSUME NEW r \in b.records PROVE Qualifies(r, today) <=> Qualifies(r, then)
  <2>1. Fresh(r, today, Month) /\ Fresh(r, then, Month) /\ r.source = b.source
    BY <1>1 DEF InTime, Unattended
  <2>2. CASE b.source = "facilities"
    <3>1. FacilityQualifies(r, today) <=> FacilityQualifies(r, then)
      BY <2>1 DEF FacilityQualifies
    <3> QED BY <2>1, <2>2, <3>1 DEF Qualifies
  <2>3. CASE b.source = "usfs_current"
    BY <2>1, <2>3 DEF Qualifies
  <2> QED BY <2>2, <2>3 DEF Unattended
<1>4. {r \in b.records : Qualifies(r, today)} = {r \in b.records : Qualifies(r, then)}
  BY <1>3
<1> DEFINE qualified == {r \in b.records : Qualifies(r, then)}
<1>5. Admitted(b, qualified, today) = Admitted(b, qualified, then)
  <2> HIDE DEF qualified
  <2>1. b.source \in Sources
    BY DEF Unattended, Sources, ParkSources, ForestSources
  <2>2. CASE b.source = "facilities"
    <3>1. \A d : Admitted(b, qualified, d) = FacilityRows(b, qualified)
      BY <2>1, <2>2, AdmittedBy
    <3> QED BY <3>1
  <2>3. CASE b.source = "usfs_current"
    <3>1. \A d : Admitted(b, qualified, d) = ForestRows(b, qualified)
      BY <2>1, <2>3, AdmittedBy
    <3> QED BY <3>1
  <2> QED BY <2>2, <2>3 DEF Unattended
<1> QED BY <1>1, <1>2, <1>4, <1>5 DEF Replay

\* A facility's hours are what the adapter of its page makes of it.
LEMMA HoursByPage ==
  ASSUME NEW r, r.source \in Unattended, PageFits(r)
  PROVE  HoursOf(r) = Adapted(r.page) /\ r.page.source = (IF r.source = "facilities" THEN "facility" ELSE "usfs_current")
BY DEF HoursOf, PageOf, PageFits, PagesOf, AtMarket, Rosters, Unattended

\* Hours that an unattended adapter makes say something.
LEMMA MadeExplicit ==
  ASSUME NEW r, r.source \in Unattended, PageFits(r), HoursOf(r) # Held
  PROVE  Explicit(HoursOf(r))
<1> USE DEF PagesOf
<1>1. CASE r.source = "facilities"
  <2>1. HoursOf(r) = FromFacility(r.page)
    BY <1>1, HoursByPage DEF Adapted
  <2>2. ASSUME NEW c, OrHeld(c) # Held PROVE OrHeld(c) = c /\ Positive(c)
    BY <2>2 DEF OrHeld
  <2>3. PICK c : FromFacility(r.page) = OrHeld(c)
    BY <2>1 DEF FromFacility
  <2> QED BY <2>1, <2>2, <2>3 DEF Explicit
<1>2. CASE r.source = "usfs_current"
  <2> DEFINE p == r.page
             hours == Narrow(p.literals.construction, p.literals.public)
             weekly == {[days |-> Weekdays, hours |-> w] : w \in hours}
  <2>1. HoursOf(r) = FromUsfsCurrent(p)
    BY <1>2, HoursByPage DEF Adapted
  <2>2. hours # {} /\ FromUsfsCurrent(p) = [Blank EXCEPT !.weekly = weekly, !.seasons = {Season(FALSE, 0, Horizon - 1)}]
    BY <2>1 DEF FromUsfsCurrent
  <2>3. FromUsfsCurrent(p).weekly = weekly
    BY <2>2 DEF Blank
  <2>4. weekly # {}
    <3>1. PICK w : w \in hours
      BY <2>2
    <3> QED BY <3>1
  <2> QED BY <2>1, <2>3, <2>4 DEF Explicit
<1> QED BY <1>1, <1>2 DEF Unattended

\* The rows of one unattended source.
Listed(rows, source) ==
  /\ rows # Refused /\ OneEach(rows) /\ \A r, o \in rows : r.native = o.native => r = o
  /\ \A r \in rows : r.id \in Nat /\ r.source = source /\ r.donors = {} /\ Explicit(HoursOf(r))

\* An unattended source replays rows of its own with explicit hours, one to each identity.
LEMMA ReplayedAreListed ==
  ASSUME NEW b, NEW today, BatchTyped(b), b.source \in Unattended, Replay(b, today) # Refused
  PROVE  Listed(Replay(b, today), b.source)
<1> DEFINE qualified == {r \in b.records : Qualifies(r, today)}
           dated == {r \in qualified : HoursOf(r) # Held}
           rows == Replay(b, today)
<1>1. rows = Admitted(b, qualified, today) /\ dated \subseteq b.records
  BY DEF Replay
<1>2. rows = dated /\ \A r, o \in dated : r.native = o.native => r = o
  <2>1. CASE b.source = "facilities"
    <3>1. rows = FacilityRows(b, qualified)
      BY <1>1, <2>1, AdmittedBy DEF BatchTyped
    <3> HIDE DEF qualified, rows
    <3>2. rows # Refused
      BY DEF rows
    <3> QED BY <3>1, <3>2 DEF FacilityRows, Distinct
  <2>2. CASE b.source = "usfs_current"
    <3>1. rows = ForestRows(b, qualified)
      BY <1>1, <2>2, AdmittedBy DEF BatchTyped
    <3>2. rows # Refused
      OBVIOUS
    <3> HIDE DEF qualified, rows
    <3>3. rows = dated /\ \A r, o \in b.records : r.native = o.native => r = o
      BY <3>1, <3>2 DEF ForestRows, Distinct
    <3> QED BY <1>1, <3>3
  <2> QED BY <2>1, <2>2 DEF Unattended
<1>3. \A r, o \in b.records : r.id = o.id => r.native = o.native
  BY DEF BatchTyped
<1>4. OneEach(rows)
  BY <1>1, <1>2, <1>3 DEF OneEach
<1>5. ASSUME NEW r \in rows PROVE r.id \in Nat /\ r.source = b.source /\ r.donors = {} /\ Explicit(HoursOf(r))
  <2>1. r \in b.records /\ HoursOf(r) # Held
    BY <1>1, <1>2
  <2>2. RecordTyped(r, b)
    BY <2>1 DEF BatchTyped
  <2> QED BY <2>1, <2>2, MadeExplicit DEF RecordTyped
<1> QED BY <1>2, <1>4, <1>5 DEF Listed

-----------------------------------------------------------------------------
(* What a refresh writes *)

\* The batches of one refresh, with the rows that are replayed from them.
Refreshable(sources, replayed) ==
  /\ DOMAIN sources \subseteq Nat \ {0} /\ DOMAIN replayed = DOMAIN sources
  /\ \A i \in DOMAIN sources : sources[i].source \in Unattended /\ Listed(replayed[i], sources[i].source)
  /\ \A i, j \in DOMAIN sources : sources[i].source = sources[j].source => i = j

\* A row of an unattended source has the key of its own facility.
LEMMA OwnKey ==
  ASSUME NEW r, r.donors = {}, r.source \in Unattended
  PROVE  Keys(r) = {<<IF r.source = "facilities" THEN "park" ELSE "forest", r.native>>}
<1>1. Parts(r) = {r}
  BY DEF Parts
<1>2. CASE r.source = "facilities"
  <2>1. {q \in Parts(r) : r.source \in ForestSources /\ q.source \in ForestSources} = {}
    BY <1>2 DEF ForestSources
  <2>2. {q \in Parts(r) : r.source \in ParkSources \cup {"beaches"} /\ q.source \in ParkSources} = {r}
    BY <1>1, <1>2 DEF ParkSources
  <2> QED BY <1>2, <2>1, <2>2 DEF Keys
<1>3. CASE r.source = "usfs_current"
  <2>1. {q \in Parts(r) : r.source \in ForestSources /\ q.source \in ForestSources} = {r}
    BY <1>1, <1>3 DEF ForestSources
  <2>2. {q \in Parts(r) : r.source \in ParkSources \cup {"beaches"} /\ q.source \in ParkSources} = {}
    BY <1>3 DEF ParkSources
  <2> QED BY <1>3, <2>1, <2>2 DEF Keys
<1> QED BY <1>2, <1>3 DEF Unattended

\* A binding names the place of one row, which has its key and no hours yet.
LEMMA Bound ==
  ASSUME NEW parent, NEW rows, NEW id \in DOMAIN Bindings(parent, rows)
  PROVE  \E r \in rows : \E o \in parent.rows :
           /\ r.id = id /\ Bindings(parent, rows)[id] = o.id
           /\ Keys(o) = Keys(r) /\ Binds(r, o) /\ o.id \notin DOMAIN parent.calendars
<1> DEFINE places(r) == {o \in parent.rows : Cardinality(Keys(o)) = 1 /\ Keys(o) = Keys(r)}
           bound == {r \in rows : Cardinality(places(r)) = 1 /\ \A o \in places(r) : o.id \notin DOMAIN parent.calendars /\ Binds(r, o)}
           row(i) == CHOOSE r \in bound : r.id = i
           place(i) == CHOOSE o \in places(row(i)) : TRUE
<1>1. Bindings(parent, rows) = [i \in Ids(bound) |-> place(i).id]
  BY DEF Bindings
<1>2. id \in Ids(bound) /\ Bindings(parent, rows)[id] = place(id).id
  BY <1>1
<1> HIDE DEF bound
<1>3. row(id) \in bound /\ row(id).id = id
  BY <1>2 DEF Ids
<1> HIDE DEF row
<1>4. places(row(id)) # {}
  <2>1. Cardinality(places(row(id))) = 1
    BY <1>3 DEF bound
  <2> HIDE DEF places
  <2> QED BY <2>1, FS_EmptySet
<1>5. place(id) \in places(row(id))
  BY <1>4
<1> HIDE DEF place
<1>6. row(id) \in rows /\ place(id).id \notin DOMAIN parent.calendars /\ Binds(row(id), place(id))
  BY <1>3, <1>5 DEF bound
<1> QED BY <1>2, <1>3, <1>5, <1>6

\* The same for the place, which the row and the key determine.
LEMMA BoundTo ==
  ASSUME NEW parent, NEW rows, NEW source \in Unattended, Listed(rows, source), OneEach(parent.rows),
         NEW r \in rows, NEW o \in parent.rows, r.id \in DOMAIN Bindings(parent, rows), Bindings(parent, rows)[r.id] = o.id
  PROVE  Keys(o) = Keys(r) /\ Binds(r, o) /\ o.id \notin DOMAIN parent.calendars
<1>1. PICK s \in rows, p \in parent.rows :
        /\ s.id = r.id /\ Bindings(parent, rows)[r.id] = p.id
        /\ Keys(p) = Keys(s) /\ Binds(s, p) /\ p.id \notin DOMAIN parent.calendars
  BY Bound
<1>2. s = r /\ p = o
  BY <1>1 DEF Listed, OneEach
<1> QED BY <1>1, <1>2

\* Two rows are not bound to one place.
LEMMA BoundOnce ==
  ASSUME NEW parent, NEW rows, NEW source \in Unattended, Listed(rows, source), OneEach(parent.rows),
         NEW i \in DOMAIN Bindings(parent, rows), NEW j \in DOMAIN Bindings(parent, rows),
         Bindings(parent, rows)[i] = Bindings(parent, rows)[j]
  PROVE  i = j
<1>1. PICK r \in rows, p \in parent.rows : r.id = i /\ Bindings(parent, rows)[i] = p.id /\ Keys(p) = Keys(r)
  BY Bound
<1>2. PICK s \in rows, q \in parent.rows : s.id = j /\ Bindings(parent, rows)[j] = q.id /\ Keys(q) = Keys(s)
  BY Bound
<1>3. p = q
  BY <1>1, <1>2 DEF OneEach
<1>4. Keys(r) = Keys(s)
  BY <1>1, <1>2, <1>3
<1>5. r.native = s.native
  <2>1. r.donors = {} /\ s.donors = {} /\ r.source = s.source /\ r.source \in Unattended
    BY DEF Listed
  <2> DEFINE family == IF r.source = "facilities" THEN "park" ELSE "forest"
  <2>2. Keys(r) = {<<family, r.native>>} /\ Keys(s) = {<<family, s.native>>}
    BY <2>1, OwnKey
  <2> HIDE DEF family
  <2>3. <<family, r.native>> = <<family, s.native>>
    BY <1>4, <2>2
  <2> QED BY <2>3
<1> QED BY <1>1, <1>2, <1>5 DEF Listed

\* What is selected was not held back, neither by the parent nor by one another.
LEMMA SelectedApart ==
  ASSUME NEW sources, NEW replayed, Refreshable(sources, replayed), NEW parent
  PROVE  /\ \A r \in Arrivals(parent, replayed) : \A o \in parent : ~Conflict(r, o)
         /\ \A i, j \in DOMAIN sources : \A r \in Arrivals(parent, replayed) \cap replayed[i], o \in Arrivals(parent, replayed) \cap replayed[j] :
              i < j \/ (i = j /\ r.id < o.id) => ~Conflict(o, r)
<1> DEFINE new == Unheld(parent, replayed)
           H == {dc \in new \X new : Before(dc[1], dc[2]) /\ Conflict(dc[2][2], dc[1][2])}
           kept == Kept(new, H)
<1>1. \A c \in new : /\ c[1] \in DOMAIN sources /\ c[2] \in replayed[c[1]] /\ c = <<c[1], c[2]>>
                     /\ \A o \in parent : ~Conflict(c[2], o)
  BY DEF Unheld, Candidates, Refreshable
<1>2. \A c \in new : c[1] \in Nat /\ c[2].id \in Nat
  BY <1>1 DEF Refreshable, Listed
<1>3. \A d, c \in new : <<d, c>> \in H <=> Before(d, c) /\ Conflict(c[2], d[2])
  OBVIOUS
<1>4. Arrivals(parent, replayed) = {c[2] : c \in kept}
  BY DEF Arrivals
<1>5. ASSUME NEW d, NEW c, <<d, c>> \in H PROVE Before(d, c)
  BY <1>5
<1> HIDE DEF new, H
<1>6. ASSUME NEW S \in SUBSET new, S # {} PROVE \E x \in S : \A y \in S : <<y, x>> \notin H
  <2> DEFINE I == {c[1] : c \in S}
  <2>1. I \in SUBSET Nat /\ I # {}
    BY <1>2, <1>6
  <2>2. PICK i \in I : \A j \in I : i <= j
    <3> HIDE DEF I
    <3> QED BY <2>1, LeastNumber
  <2> DEFINE N == {c[2].id : c \in {s \in S : s[1] = i}}
  <2>3. N \in SUBSET Nat /\ N # {}
    BY <1>2
  <2>4. PICK m \in N : \A j \in N : m <= j
    <3> HIDE DEF N
    <3> QED BY <2>3, LeastNumber
  <2>5. PICK x \in S : x[1] = i /\ x[2].id = m
    OBVIOUS
  <2>6. ASSUME NEW y \in S, <<y, x>> \in H PROVE FALSE
    <3>1. y[1] < x[1] \/ (y[1] = x[1] /\ y[2].id < x[2].id)
      BY <1>5, <2>6 DEF Before
    <3>2. y[1] \in Nat /\ x[1] \in Nat /\ y[2].id \in Nat /\ x[2].id \in Nat
      BY <1>2
    <3>3. x[1] <= y[1]
      BY <2>2, <2>5
    <3>4. y[1] = x[1] /\ y[2].id < x[2].id
      BY <3>1, <3>2, <3>3
    <3>5. x[2].id <= y[2].id
      BY <2>4, <2>5, <3>4
    <3> QED BY <3>2, <3>4, <3>5
  <2> QED BY <2>6
<1>7. kept \in SUBSET new /\ \A c \in new : c \in kept <=> ~\E d \in kept : <<d, c>> \in H
  BY <1>6, KeptInTurn
<1> HIDE DEF kept
<1>8. ASSUME NEW i \in DOMAIN sources, NEW r \in Arrivals(parent, replayed) \cap replayed[i]
      PROVE  <<i, r>> \in kept
  <2>1. PICK c \in kept : r = c[2]
    BY <1>4
  <2>2. c[1] \in DOMAIN sources /\ r \in replayed[c[1]] /\ c = <<c[1], r>>
    BY <1>1, <1>7, <2>1
  <2>3. c[1] = i
    BY <2>2 DEF Refreshable, Listed
  <2> QED BY <2>1, <2>2, <2>3
<1>9. ASSUME NEW i \in DOMAIN sources, NEW j \in DOMAIN sources, NEW r \in Arrivals(parent, replayed) \cap replayed[i],
             NEW o \in Arrivals(parent, replayed) \cap replayed[j], i < j \/ (i = j /\ r.id < o.id), Conflict(o, r)
      PROVE  FALSE
  <2>1. <<i, r>> \in kept /\ <<j, o>> \in kept
    BY <1>8
  <2>2. Before(<<i, r>>, <<j, o>>)
    BY <1>9 DEF Before
  <2>3. << <<i, r>>, <<j, o>> >> \in H
    BY <1>3, <1>7, <1>9, <2>1, <2>2
  <2> QED BY <1>7, <2>1, <2>3
<1>10. \A r \in Arrivals(parent, replayed) : \A o \in parent : ~Conflict(r, o)
  BY <1>1, <1>4, <1>7
<1> QED BY <1>9, <1>10

\* One input of what is written: the selected rows S of a source that are not bound, and its bindings.
Bundled(item, rows, parent, S) ==
  /\ item.batch.source \in Unattended /\ Listed(rows, item.batch.source) /\ OneEach(parent.rows) /\ S \subseteq rows
  /\ item.bindings = Bindings(parent, rows) /\ "selected" \in DOMAIN item /\ item.selected = Ids(S) \ DOMAIN item.bindings

\* What a bundle selects are rows of the batch, each by its identity.
LEMMA BundledChoice ==
  ASSUME NEW item, NEW rows, NEW parent, NEW S, Bundled(item, rows, parent, S)
  PROVE  /\ item.selected \subseteq Ids(rows)
         /\ Chosen(item, rows) \subseteq S /\ Ids(Chosen(item, rows)) = item.selected
<1>1. item.selected \in SUBSET Nat /\ item.selected \subseteq Ids(rows)
  BY DEF Bundled, Ids, Listed
<1>2. "selected" \in DOMAIN item
  BY DEF Bundled
<1>3. Chosen(item, rows) = {r \in rows : r.id \in item.selected}
  BY <1>2 DEF Chosen
<1>4. ASSUME NEW r \in rows, r.id \in item.selected PROVE r \in S
  <2>1. PICK s \in S : s.id = r.id
    BY <1>4 DEF Bundled, Ids
  <2> QED BY <2>1 DEF Bundled, Listed, OneEach
<1>5. Ids(Chosen(item, rows)) = item.selected
  BY <1>1, <1>3 DEF Ids
<1> QED BY <1>1, <1>2, <1>3, <1>4, <1>5

\* What it binds are served rows without hours that are the same place.
LEMMA BundledFills ==
  ASSUME NEW item, NEW rows, NEW parent, NEW S, Bundled(item, rows, parent, S)
  PROVE  /\ DOMAIN item.bindings \subseteq Ids(rows)
         /\ \A id \in Filled(item) : \E o \in parent.rows : \E r \in rows :
              o.id = id /\ Keys(o) = Keys(r) /\ o.id \notin DOMAIN parent.calendars
<1>1. item.bindings = Bindings(parent, rows)
  BY DEF Bundled
<1>2. \A id \in DOMAIN item.bindings : \E r \in rows : \E o \in parent.rows :
         /\ r.id = id /\ item.bindings[id] = o.id /\ Keys(o) = Keys(r) /\ o.id \notin DOMAIN parent.calendars
  BY <1>1, Bound
<1> QED BY <1>2 DEF Filled, Ids

\* So each input of a bundle passes its own checks.
LEMMA BundledStands ==
  ASSUME NEW item, NEW rows, NEW parent, NEW S, Bundled(item, rows, parent, S)
  PROVE  InputStands(item, rows, parent)
<1>1. /\ item.batch.source \in Unattended /\ Listed(rows, item.batch.source) /\ OneEach(parent.rows)
      /\ item.bindings = Bindings(parent, rows) /\ item.selected \cap DOMAIN item.bindings = {}
  BY DEF Bundled
<1>2. item.batch.source \in Adapters /\ rows # Refused
  BY <1>1 DEF Unattended, Adapters, Listed
<1>3. "selected" \in DOMAIN item /\ item.selected \subseteq Ids(rows)
  BY BundledChoice DEF Bundled
<1>4. DOMAIN item.bindings \subseteq Ids(rows) /\ Filled(item) \subseteq Ids(parent.rows)
  BY BundledFills DEF Ids
<1>5. \A i, j \in DOMAIN item.bindings : item.bindings[i] = item.bindings[j] => i = j
  BY <1>1, BoundOnce
<1>6. \A r \in rows, o \in parent.rows : r.id \in DOMAIN item.bindings /\ o.id = item.bindings[r.id] => Binds(r, o)
  BY <1>1, BoundTo
<1>7. OneEach(Chosen(item, rows))
  BY <1>1 DEF Listed, OneEach, Chosen
<1> QED BY <1>1, <1>2, <1>3, <1>4, <1>5, <1>6, <1>7 DEF InputStands

\* And it gives hours to exactly the rows that it selects or fills.
LEMMA BundledEntries ==
  ASSUME NEW item, NEW rows, NEW parent, NEW S, Bundled(item, rows, parent, S)
  PROVE  /\ DOMAIN Entries(item, rows) = item.selected \cup Filled(item)
         /\ \A id \in DOMAIN Entries(item, rows) : Explicit(Entries(item, rows)[id].hours)
<1> DEFINE added == IF item.batch.source = "pilot" THEN {} ELSE Chosen(item, rows)
           bound == {r \in rows : r.id \in DOMAIN item.bindings}
           names(id, r) == id = IF r \in bound THEN item.bindings[r.id] ELSE r.id
           maker(id) == CHOOSE r \in added \cup bound : names(id, r)
           ids == Ids(added) \cup {item.bindings[r.id] : r \in bound}
<1>1. Entries(item, rows) = [id \in ids |-> Calendar(maker(id))]
  BY DEF Entries
<1>2. added = Chosen(item, rows)
  BY DEF Bundled, Unattended
<1>3. \A r \in added : r \notin bound /\ r \in rows
  BY <1>2, BundledChoice DEF Bundled, Chosen
<1>4. {item.bindings[r.id] : r \in bound} = Filled(item)
  BY BundledFills DEF Filled, Ids
<1>5. ids = item.selected \cup Filled(item)
  BY <1>2, <1>4, BundledChoice
<1>6. ASSUME NEW id \in ids PROVE \E r \in added \cup bound : names(id, r)
  <2>1. CASE id \in Ids(added)
    <3>1. PICK r \in added : r.id = id
      BY <2>1 DEF Ids
    <3> QED BY <1>3, <3>1
  <2>2. CASE \E r \in bound : id = item.bindings[r.id]
    BY <2>2
  <2> QED BY <2>1, <2>2
<1>7. ASSUME NEW id \in ids PROVE maker(id) \in rows
  <2> HIDE DEF names
  <2>1. maker(id) \in added \cup bound
    BY <1>6
  <2> QED BY <1>3, <2>1
<1> HIDE DEF ids, maker
<1>8. ASSUME NEW id \in ids PROVE Explicit(Entries(item, rows)[id].hours)
  <2>1. Entries(item, rows)[id].hours = HoursOf(maker(id))
    BY <1>1 DEF Calendar
  <2> QED BY <1>7, <2>1 DEF Bundled, Listed
<1> QED BY <1>1, <1>5, <1>8

\* The inputs of the artifact are bundled each with its own batch.
SelectedBy(refresh, parent, replayed) == {r \in Arrivals(parent.rows, replayed) : OnRoute(refresh, r)}

\* A refresh bundles the batch of each source with what it selects from it.
LEMMA BundleInputs ==
  ASSUME NEW refresh, NEW sources, NEW replayed, NEW parent, Refreshable(sources, replayed), OneEach(parent.rows),
         NEW c, c = Bundle(refresh, sources, replayed, parent)
  PROVE  /\ c.entries = <<>> /\ DOMAIN c.inputs = DOMAIN sources
         /\ \A i \in DOMAIN sources :
              Bundled(c.inputs[i], replayed[i], parent, SelectedBy(refresh, parent, replayed) \cap replayed[i])
<1> DEFINE selected == SelectedBy(refresh, parent, replayed)
<1>1. c.entries = <<>> /\ DOMAIN c.inputs = DOMAIN sources
  BY DEF Bundle
<1>2. ASSUME NEW i \in DOMAIN sources PROVE Bundled(c.inputs[i], replayed[i], parent, selected \cap replayed[i])
  <2>1. c.inputs[i] = [batch |-> sources[i], bindings |-> Bindings(parent, replayed[i]),
                       selected |-> Ids(selected \cap replayed[i]) \ DOMAIN Bindings(parent, replayed[i])]
    BY DEF Bundle, SelectedBy
  <2> HIDE DEF selected
  <2>2. /\ c.inputs[i].batch = sources[i] /\ c.inputs[i].bindings = Bindings(parent, replayed[i])
        /\ "selected" \in DOMAIN c.inputs[i]
        /\ c.inputs[i].selected = Ids(selected \cap replayed[i]) \ DOMAIN c.inputs[i].bindings
    BY <2>1
  <2> QED BY <2>2 DEF Bundled, Refreshable
<1> QED BY <1>1, <1>2

\* Near places conflict, whichever is named first.
LEMMA NearConflict == ASSUME NEW r, NEW o, Near(r, o) PROVE Conflict(r, o) /\ Conflict(o, r)
BY DistanceSymmetric DEF Conflict, Near

\* What a refresh writes fits the parent it was made for, as long as its batches are replayed alike.
LEMMA BundleAccepted ==
  ASSUME NEW refresh, NEW sources, NEW replayed, NEW parent, Refreshable(sources, replayed), OneEach(parent.rows),
         Usable(Bundle(refresh, sources, replayed, parent))
  PROVE  Accepts(Bundle(refresh, sources, replayed, parent), parent, replayed)
<1> DEFINE c == Bundle(refresh, sources, replayed, parent)
           selected == SelectedBy(refresh, parent, replayed)
           chosen == ChosenBy(c, replayed)
           made == MadeBy(c, replayed)
<1>0. c = Bundle(refresh, sources, replayed, parent)
  OBVIOUS
<1>2. Usable(c)
  OBVIOUS
<1> HIDE DEF c, selected
<1>1. /\ c.entries = <<>> /\ DOMAIN c.inputs = DOMAIN sources /\ DOMAIN replayed = DOMAIN sources
      /\ \A i \in DOMAIN sources : Bundled(c.inputs[i], replayed[i], parent, selected \cap replayed[i])
      /\ DOMAIN sources \subseteq Nat \ {0}
  <2>1. c.entries = <<>> /\ DOMAIN c.inputs = DOMAIN sources
    BY <1>0, BundleInputs
  <2>2. \A i \in DOMAIN sources : Bundled(c.inputs[i], replayed[i], parent, selected \cap replayed[i])
    BY <1>0, BundleInputs DEF selected
  <2> QED BY <2>1, <2>2 DEF Refreshable
<1>3. \A i \in DOMAIN replayed : InputStands(c.inputs[i], replayed[i], parent)
  BY <1>1, BundledStands
<1>4. /\ DOMAIN chosen = DOMAIN sources /\ \A i \in DOMAIN sources : chosen[i] = Chosen(c.inputs[i], replayed[i])
      /\ DOMAIN made = DOMAIN sources \cup {0} /\ made[0] = <<>>
      /\ \A i \in DOMAIN sources : made[i] = Entries(c.inputs[i], replayed[i])
  BY <1>1 DEF ChosenBy, MadeBy
<1> HIDE DEF chosen, made
<1>5. ASSUME NEW i \in DOMAIN sources
      PROVE  /\ chosen[i] \subseteq Arrivals(parent.rows, replayed) \cap replayed[i]
             /\ Ids(chosen[i]) = c.inputs[i].selected
  <2>1. Bundled(c.inputs[i], replayed[i], parent, selected \cap replayed[i]) /\ chosen[i] = Chosen(c.inputs[i], replayed[i])
    BY <1>1, <1>4
  <2>2. chosen[i] \subseteq selected \cap replayed[i] /\ Ids(chosen[i]) = c.inputs[i].selected
    BY <2>1, BundledChoice
  <2> QED BY <2>2 DEF selected, SelectedBy
<1>6. \A i \in DOMAIN sources : DOMAIN made[i] = c.inputs[i].selected \cup Filled(c.inputs[i])
  BY <1>1, <1>4, BundledEntries
<1>7. ASSUME NEW i \in DOMAIN sources, NEW id \in Filled(c.inputs[i])
      PROVE  \E o \in parent.rows : \E r \in replayed[i] :
               o.id = id /\ Keys(o) = Keys(r) /\ o.id \notin DOMAIN parent.calendars
  <2>1. Bundled(c.inputs[i], replayed[i], parent, selected \cap replayed[i])
    BY <1>1
  <2> QED BY <2>1, BundledFills
<1>8. ASSUME NEW i \in DOMAIN sources, NEW j \in DOMAIN sources, i < j
      PROVE  Ids(chosen[i]) \cap Ids(chosen[j]) = {}
  <2>1. ASSUME NEW r \in chosen[i], NEW o \in chosen[j], r.id = o.id PROVE FALSE
    <3>1. ~Conflict(o, r)
      BY <1>5, <1>8, SelectedApart
    <3> QED BY <2>1, <3>1 DEF Conflict
  <2> QED BY <2>1 DEF Ids
<1>9. ASSUME NEW i \in DOMAIN sources PROVE Ids(chosen[i]) \cap Ids(parent.rows) = {}
  <2>1. ASSUME NEW r \in chosen[i], NEW o \in parent.rows, r.id = o.id PROVE FALSE
    <3>1. ~Conflict(r, o)
      BY <1>5, SelectedApart
    <3> QED BY <2>1, <3>1 DEF Conflict
  <2> QED BY <2>1 DEF Ids
<1>10. ASSUME NEW i \in DOMAIN sources, NEW j \in DOMAIN sources, i < j
       PROVE  Filled(c.inputs[i]) \cap Filled(c.inputs[j]) = {}
  <2> SUFFICES ASSUME NEW id \in Filled(c.inputs[i]), id \in Filled(c.inputs[j]) PROVE FALSE
    OBVIOUS
  <2>1. PICK o \in parent.rows, r \in replayed[i] : o.id = id /\ Keys(o) = Keys(r)
    BY <1>7
  <2>2. PICK p \in parent.rows, s \in replayed[j] : p.id = id /\ Keys(p) = Keys(s)
    BY <1>7
  <2>3. o = p
    BY <2>1, <2>2 DEF OneEach
  <2>4. /\ r.donors = {} /\ s.donors = {} /\ r.source = sources[i].source /\ s.source = sources[j].source
        /\ r.source \in Unattended /\ s.source \in Unattended
    BY DEF Refreshable, Listed
  <2>5. r.source # s.source
    <3>1. i # j
      BY <1>1, <1>10
    <3> QED BY <2>4, <3>1 DEF Refreshable
  <2> DEFINE family(x) == IF x.source = "facilities" THEN "park" ELSE "forest"
  <2>6. family(r) # family(s)
    BY <2>4, <2>5 DEF Unattended
  <2>7. Keys(r) = {<<family(r), r.native>>} /\ Keys(s) = {<<family(s), s.native>>}
    BY <2>4, OwnKey
  <2> HIDE DEF family
  <2>8. <<family(r), r.native>> = <<family(s), s.native>>
    BY <2>1, <2>2, <2>3, <2>7
  <2> QED BY <2>6, <2>8
<1>11. ASSUME NEW i \in DOMAIN sources PROVE Filled(c.inputs[i]) \subseteq Ids(parent.rows)
  BY <1>7 DEF Ids
<1>12. ASSUME NEW i \in DOMAIN made, NEW j \in DOMAIN made, i < j PROVE DOMAIN made[i] \cap DOMAIN made[j] = {}
  <2>1. CASE i = 0 \/ j = 0
    BY <1>4, <2>1
  <2>2. CASE i # 0 /\ j # 0
    <3>1. i \in DOMAIN sources /\ j \in DOMAIN sources
      BY <1>4, <2>2
    <3>2. /\ DOMAIN made[i] = Ids(chosen[i]) \cup Filled(c.inputs[i])
          /\ DOMAIN made[j] = Ids(chosen[j]) \cup Filled(c.inputs[j])
      BY <1>5, <1>6, <3>1
    <3>3. Ids(chosen[i]) \cap Ids(chosen[j]) = {} /\ Filled(c.inputs[i]) \cap Filled(c.inputs[j]) = {}
      BY <1>8, <1>10, <1>12, <3>1
    <3>4. /\ Ids(chosen[i]) \cap Ids(parent.rows) = {} /\ Ids(chosen[j]) \cap Ids(parent.rows) = {}
          /\ Filled(c.inputs[i]) \subseteq Ids(parent.rows) /\ Filled(c.inputs[j]) \subseteq Ids(parent.rows)
      BY <1>9, <1>11, <3>1
    <3> QED BY <3>2, <3>3, <3>4
  <2> QED BY <2>1, <2>2
<1>13. ASSUME NEW r \in AddedBy(chosen)
       PROVE  \E i \in DOMAIN sources : r \in chosen[i]
  BY <1>4 DEF AddedBy
<1>14. Ids(AddedBy(chosen)) \cap Ids(parent.rows) = {}
  BY <1>9, <1>13 DEF Ids
<1>15. Across(parent.rows, AddedBy(chosen))
  <2> SUFFICES ASSUME NEW r \in AddedBy(chosen), NEW o \in parent.rows \cup AddedBy(chosen), r # o, Near(r, o) PROVE FALSE
    BY DEF Across
  <2>1. PICK i \in DOMAIN sources : r \in chosen[i]
    BY <1>13
  <2>2. Conflict(r, o) /\ Conflict(o, r)
    BY NearConflict
  <2>3. CASE o \in parent.rows
    BY <1>5, <2>1, <2>2, <2>3, SelectedApart
  <2>4. CASE o \in AddedBy(chosen)
    <3>1. PICK j \in DOMAIN sources : o \in chosen[j]
      BY <1>13, <2>4
    <3>2. r \in Arrivals(parent.rows, replayed) \cap replayed[i] /\ o \in Arrivals(parent.rows, replayed) \cap replayed[j]
      BY <1>5, <2>1, <3>1
    <3>3. ~(i < j \/ (i = j /\ r.id < o.id)) /\ ~(j < i \/ (j = i /\ o.id < r.id))
      BY <2>2, <3>2, SelectedApart
    <3>4. i \in Nat /\ j \in Nat /\ r.id \in Nat /\ o.id \in Nat
      BY <1>1, <3>2 DEF Refreshable, Listed
    <3>5. i = j /\ r.id = o.id
      BY <3>3, <3>4
    <3> QED BY <3>2, <3>5 DEF Refreshable, Listed, OneEach
  <2> QED BY <2>3, <2>4
<1>16. ASSUME NEW id \in NamedBy(made) PROVE id \in Ids(parent.rows \cup AddedBy(chosen))
  <2>1. PICK i \in DOMAIN made : id \in DOMAIN made[i]
    BY DEF NamedBy
  <2>2. i \in DOMAIN sources
    BY <1>4, <2>1
  <2>3. CASE id \in Filled(c.inputs[i])
    BY <1>11, <2>2, <2>3 DEF Ids
  <2>4. CASE id \in Ids(chosen[i])
    BY <1>4, <2>2, <2>4 DEF Ids, AddedBy
  <2> QED BY <1>5, <1>6, <2>1, <2>2, <2>3, <2>4
<1>17. ASSUME NEW i \in DOMAIN made, NEW id \in DOMAIN made[i] PROVE Explicit(made[i][id].hours)
  <2>1. i \in DOMAIN sources
    BY <1>4, <1>17
  <2>2. PICK S : Bundled(c.inputs[i], replayed[i], parent, S)
    BY <1>1, <2>1
  <2>3. \A e \in DOMAIN Entries(c.inputs[i], replayed[i]) : Explicit(Entries(c.inputs[i], replayed[i])[e].hours)
    BY <2>2, BundledEntries
  <2>4. made[i] = Entries(c.inputs[i], replayed[i])
    BY <1>4, <2>1
  <2> QED BY <1>17, <2>3, <2>4
<1>18. NamedBy(made) # {}
  <2>1. PICK i \in DOMAIN sources : c.inputs[i].selected # {} \/ DOMAIN c.inputs[i].bindings # {}
    BY <1>1, <1>2 DEF Usable
  <2>2. CASE c.inputs[i].selected # {}
    BY <1>4, <1>6, <2>1, <2>2 DEF NamedBy
  <2>3. CASE DOMAIN c.inputs[i].bindings # {}
    <3>3. Filled(c.inputs[i]) # {}
      BY <2>3 DEF Filled
    <3> QED BY <1>4, <1>6, <2>1, <3>3 DEF NamedBy
  <2> QED BY <2>1, <2>2, <2>3
<1>19. ~Occupied(parent, UNION {Filled(c.inputs[i]) : i \in DOMAIN c.inputs})
  <2> SUFFICES ASSUME NEW i \in DOMAIN c.inputs, NEW id \in Filled(c.inputs[i]), id \in DOMAIN parent.calendars PROVE FALSE
    BY DEF Occupied
  <2>1. i \in DOMAIN sources
    BY <1>1
  <2>2. PICK o \in parent.rows, r \in replayed[i] : o.id = id /\ o.id \notin DOMAIN parent.calendars
    BY <1>7, <2>1
  <2> QED BY <2>2
<1>20. FitsParent(c, parent, chosen, made)
  <2>1. \A i, j \in DOMAIN [k \in DOMAIN chosen |-> Ids(chosen[k])] : i # j =>
          [k \in DOMAIN chosen |-> Ids(chosen[k])][i] \cap [k \in DOMAIN chosen |-> Ids(chosen[k])][j] = {}
    <3>1. ASSUME NEW i \in DOMAIN sources, NEW j \in DOMAIN sources, i # j PROVE Ids(chosen[i]) \cap Ids(chosen[j]) = {}
      <4>1. i < j \/ j < i
        BY <1>1, <3>1
      <4> QED BY <1>8, <4>1
    <3> QED BY <1>4, <3>1
  <2>2. \A i, j \in DOMAIN [k \in DOMAIN made |-> DOMAIN made[k]] : i # j =>
          [k \in DOMAIN made |-> DOMAIN made[k]][i] \cap [k \in DOMAIN made |-> DOMAIN made[k]][j] = {}
    <3>1. ASSUME NEW i \in DOMAIN made, NEW j \in DOMAIN made, i # j PROVE DOMAIN made[i] \cap DOMAIN made[j] = {}
      <4>1. i < j \/ j < i
        BY <1>1, <1>4, <3>1
      <4> QED BY <1>12, <4>1
    <3> QED BY <3>1
  <2> QED BY <1>14, <1>15, <1>16, <1>17, <1>18, <1>19, <2>1, <2>2 DEF FitsParent
<1>21. Accepts(c, parent, replayed)
  BY <1>3, <1>20 DEF Accepts, chosen, made
<1> QED BY <1>21 DEF c

-----------------------------------------------------------------------------
(* The importer accepts it *)

\* The identities of rows that are staged name one row each.
NamedInv == \A g \in Generations : staged[g] # NoProof => OneEach(staged[g].rows)

\* What is served is staged, and the base has no recovery receipt.
ServingInv == 0 \notin receipts /\ (serving = NoProof \/ (serving \in Generations /\ staged[serving] # NoProof))

\* The payload of a refresh is accepted by its parent on every day its pages are in time.
AcceptedInv ==
  world # NoProof /\ world.refresh # NoProof /\ offered[world.refresh.writes] # NoProof =>
    LET payload == offered[world.refresh.writes]
        parent == world.refresh.parent
    IN /\ payload.parent = parent /\ staged[parent] # NoProof
       /\ \A today : (\A i \in DOMAIN payload.inputs : \A r \in payload.inputs[i].batch.records : Fresh(r, today, Month)) =>
            Accepts(payload, staged[parent], Replays(payload, today))

RefreshInvariant == NamedInv /\ ServingInv /\ AcceptedInv

\* A merge of two rows keeps the identity of one of them.
LEMMA MergeKeepsNames ==
  ASSUME NEW rows, NEW rule, \A r \in rows : "id" \in DOMAIN r, OneEach(rows), Merge(rows, rule) # Refused
  PROVE  OneEach(Merge(rows, rule)) /\ \A r \in Merge(rows, rule) : "id" \in DOMAIN r
<1> DEFINE row(id) == CHOOSE q \in rows : q.id = id
           a == row(rule.keep)
           b == row(rule.merge)
           m == [a EXCEPT !.donors = @ \cup Parts(b)]
<1>1. rule.keep \in Ids(rows) /\ Merge(rows, rule) = (rows \ {a, b}) \cup {m}
  BY DEF Merge
<1>2. a \in rows
  BY <1>1 DEF Ids
<1> HIDE DEF a, b
<1>3. "id" \in DOMAIN m /\ m.id = a.id
  BY <1>2
<1> HIDE DEF m
<1> QED BY <1>1, <1>2, <1>3 DEF OneEach

\* Merges keep identities apart, one merge after the other.
LEMMA JoinedNames ==
  ASSUME NEW rows, NEW merges, Len(merges) \in Nat, \A r \in rows : "id" \in DOMAIN r, Joined(rows, merges) # Refused
  PROVE  OneEach(Joined(rows, merges).rows)
<1> DEFINE m == Len(merges)
           after == MergesOf(rows, merges, m)
           Good(k) == after[k] # Refused => OneEach(after[k]) /\ \A r \in after[k] : "id" \in DOMAIN r
           N == {k \in 0..m : ~Good(k)}
<1>1. \A k \in 0..m : after[k] = IF k = 0 THEN rows ELSE Merge(after[k - 1], merges[k])
  BY MergesApply
<1>2. Joined(rows, merges) = [rows |-> after[m], calendars |-> <<>>] /\ after[m] # Refused /\ OneEach(rows)
  BY DEF Joined, MergesOf
<1> HIDE DEF after
<1>3. N = {}
  <2> SUFFICES ASSUME N # {} PROVE FALSE
    OBVIOUS
  <2>1. PICK k \in N : \A i \in N : k <= i
    <3>1. N \in SUBSET Nat
      OBVIOUS
    <3> HIDE DEF N
    <3> QED BY <3>1, LeastNumber
  <2>2. CASE k = 0
    BY <1>1, <1>2, <2>1, <2>2
  <2>3. CASE k # 0
    <3>1. k - 1 \in 0..m /\ k - 1 \notin N
      BY <2>1, <2>3
    <3>2. after[k] = Merge(after[k - 1], merges[k]) /\ after[k] # Refused
      BY <1>1, <2>1, <2>3
    <3>3. after[k - 1] # Refused
      BY <3>2 DEF Merge
    <3>4. OneEach(after[k - 1]) /\ \A r \in after[k - 1] : "id" \in DOMAIN r
      BY <3>1, <3>3
    <3>5. OneEach(after[k]) /\ \A r \in after[k] : "id" \in DOMAIN r
      BY <3>2, <3>4, MergeKeepsNames
    <3> QED BY <2>1, <3>5
  <2> QED BY <2>2, <2>3
<1>4. m \in 0..m /\ m \notin N
  BY <1>3
<1> QED BY <1>2, <1>4

\* A base has one row to an identity.
LEMMA AssembledNames ==
  ASSUME NEW w, WorldTyped(w), NEW today, Assembled(w, today) # Refused
  PROVE  OneEach(Assembled(w, today).rows)
<1> DEFINE replayed == {Replay(w.inputs[i], today) : i \in DOMAIN w.inputs}
           rows == UNION replayed
<1>1. Assembled(w, today) = Joined(rows, w.merges) /\ Refused \notin replayed
  BY DEF Assembled, Gathered
<1>2. ASSUME NEW r \in rows PROVE "id" \in DOMAIN r
  <2>1. PICK i \in DOMAIN w.inputs : r \in Replay(w.inputs[i], today)
    OBVIOUS
  <2>2. BatchTyped(w.inputs[i])
    BY DEF WorldTyped
  <2>3. Replay(w.inputs[i], today) # Refused
    BY <1>1
  <2> QED BY <2>1, <2>2, <2>3, ReplayedArePublished DEF PublishedOn
<1>3. Len(w.merges) \in Nat
  BY DEF WorldTyped
<1> HIDE DEF replayed, rows
<1> QED BY <1>1, <1>2, <1>3, JoinedNames

\* An enrichment adds rows of other identities than its parent's, each once.
LEMMA EnrichmentNames ==
  ASSUME NEW c, NEW parent, NEW replayed, OneEach(parent.rows), Enrichment(c, parent, replayed) # Refused
  PROVE  OneEach(Enrichment(c, parent, replayed).rows)
<1> DEFINE chosen == ChosenBy(c, replayed)
           added == AddedBy(chosen)
<1>1. /\ \A i \in DOMAIN replayed : InputStands(c.inputs[i], replayed[i], parent)
      /\ FitsParent(c, parent, chosen, MadeBy(c, replayed))
      /\ Enrichment(c, parent, replayed).rows = parent.rows \cup added
  BY DEF Enrichment, Accepts, Extended
<1>2. DOMAIN chosen = DOMAIN replayed /\ \A i \in DOMAIN chosen : OneEach(chosen[i])
  BY <1>1 DEF ChosenBy, InputStands
<1> HIDE DEF chosen
<1>3. Ids(added) \cap Ids(parent.rows) = {} /\ \A i, j \in DOMAIN chosen : i # j => Ids(chosen[i]) \cap Ids(chosen[j]) = {}
  <2>1. \A i, j \in DOMAIN [k \in DOMAIN chosen |-> Ids(chosen[k])] : i # j =>
          [k \in DOMAIN chosen |-> Ids(chosen[k])][i] \cap [k \in DOMAIN chosen |-> Ids(chosen[k])][j] = {}
    BY <1>1 DEF FitsParent
  <2> QED BY <1>1, <2>1 DEF FitsParent
<1>4. ASSUME NEW a \in added, NEW b \in added, a.id = b.id PROVE a = b
  <2>1. PICK i \in DOMAIN chosen, j \in DOMAIN chosen : a \in chosen[i] /\ b \in chosen[j]
    BY DEF AddedBy
  <2>2. i = j
    BY <1>3, <1>4, <2>1 DEF Ids
  <2> QED BY <1>2, <1>4, <2>1, <2>2 DEF OneEach
<1> HIDE DEF added
<1> QED BY <1>1, <1>3, <1>4 DEF OneEach, Ids

\* So has whatever is prepared for a generation.
LEMMA ContentNames ==
  ASSUME IInv, EvidenceInv, NamedInv, NEW g \in Generations, Content(g, day) # Refused
  PROVE  OneEach(Content(g, day).rows)
<1>1. WorldTyped(world)
  BY WorldsAssumption DEF IInv, ShapeInv, Generations
<1>2. CASE g = 0
  BY <1>1, <1>2, AssembledNames DEF Content
<1>3. CASE g # 0
  <2> DEFINE c == offered[g]
             parent == staged[Parent(g)]
             replayed == Replays(c, day)
  <2>1. c # NoProof /\ parent # NoProof /\ Content(g, day) = Enrichment(c, parent, replayed)
    BY <1>3 DEF Content, Enriched, Parent
  <2>2. OneEach(parent.rows)
    BY <1>3, <2>1 DEF IInv, ShapeInv, NamedInv
  <2> HIDE DEF c, parent, replayed
  <2> QED BY <2>1, <2>2, EnrichmentNames
<1> QED BY <1>2, <1>3

\* The payload that a refresh writes, with what it was made of.
LEMMA RefreshWrites ==
  ASSUME IInv, EvidenceInv, NamedInv, ServingInv, Refresh
  PROVE  \E payload :
           /\ offered' = [offered EXCEPT ![world.refresh.writes] = payload]
           /\ payload.parent = world.refresh.parent /\ staged[world.refresh.parent] # NoProof
           /\ \A today : (\A i \in DOMAIN payload.inputs : \A r \in payload.inputs[i].batch.records : Fresh(r, today, Month)) =>
                Accepts(payload, staged[world.refresh.parent], Replays(payload, today))
<1> DEFINE refresh == world.refresh
           parent == staged[serving]
<1>1. /\ WorldTyped(world) /\ refresh # NoProof /\ serving = refresh.parent
  BY WorldsAssumption DEF Refresh, IInv, ShapeInv
<1>2. parent # NoProof /\ serving \in Generations
  <2>1. serving \in Nat
    BY <1>1 DEF WorldTyped
  <2>2. serving # NoProof
    BY <2>1, AdmissionAssumption
  <2> QED BY <2>2 DEF ServingInv
<1>3. OneEach(parent.rows)
  BY <1>2 DEF NamedInv
<1>4. PICK sources \in Acquired(refresh, parent.rows) :
        \E replayed \in {[i \in DOMAIN sources |-> Replay(sources[i], day)]} :
          /\ Refused \notin Range(replayed)
          /\ \E payload \in {Bundle(refresh, sources, replayed, parent)} :
               /\ Usable(payload)
               /\ offered' = [offered EXCEPT ![refresh.writes] = payload]
  BY Zenon DEF Refresh
<1> DEFINE replayed == [i \in DOMAIN sources |-> Replay(sources[i], day)]
           payload == Bundle(refresh, sources, replayed, parent)
<1>5. Refused \notin Range(replayed) /\ Usable(payload) /\ offered' = [offered EXCEPT ![refresh.writes] = payload]
  BY <1>4, Zenon
<1>6. /\ DOMAIN sources = DOMAIN refresh.sources
      /\ \A i \in DOMAIN sources : BatchTyped(sources[i]) /\ sources[i].source = refresh.sources[i].source
  <2>1. \A i \in DOMAIN refresh.sources : BatchTyped(refresh.sources[i]) /\ refresh.sources[i].source \in Unattended
    BY <1>1 DEF WorldTyped
  <2> HIDE DEF refresh, parent
  <2> QED BY <2>1, AcquiredTyped
<1>7. /\ DOMAIN sources \subseteq Nat \ {0}
      /\ \A i \in DOMAIN sources : sources[i].source \in Unattended
      /\ \A i, j \in DOMAIN sources : sources[i].source = sources[j].source => i = j
  BY <1>1, <1>6 DEF WorldTyped
<1>8. ASSUME NEW i \in DOMAIN sources PROVE replayed[i] # Refused /\ Listed(replayed[i], sources[i].source)
  <2>1. replayed[i] # Refused /\ replayed[i] = Replay(sources[i], day)
    BY <1>5 DEF Range
  <2> HIDE DEF replayed
  <2> QED BY <1>6, <1>7, <2>1, ReplayedAreListed
<1>9. Refreshable(sources, replayed)
  BY <1>7, <1>8 DEF Refreshable
<1>10. ASSUME NEW today, \A i \in DOMAIN sources : \A r \in sources[i].records : Fresh(r, today, Month)
       PROVE  [i \in DOMAIN sources |-> Replay(sources[i], today)] = replayed
  <2>1. ASSUME NEW i \in DOMAIN sources PROVE Replay(sources[i], today) = Replay(sources[i], day)
    <3>1. Replay(sources[i], day) # Refused
      BY <1>8
    <3>2. \A r \in sources[i].records : r.source = sources[i].source
      BY <1>6 DEF BatchTyped, RecordTyped
    <3> QED BY <1>7, <1>10, <3>1, <3>2, SameReplay
  <2> QED BY <2>1
<1>11. DOMAIN payload.inputs = DOMAIN sources /\ \A i \in DOMAIN sources : payload.inputs[i].batch = sources[i]
  BY BundleBatches
<1>12. payload.parent = refresh.parent
  BY BundleParent
<1> HIDE DEF replayed
<1>13. Accepts(payload, parent, replayed)
  BY <1>3, <1>5, <1>9, BundleAccepted
<1> HIDE DEF payload
<1>14. ASSUME NEW today, \A i \in DOMAIN payload.inputs : \A r \in payload.inputs[i].batch.records : Fresh(r, today, Month)
       PROVE  Accepts(payload, parent, Replays(payload, today))
  <2>1. \A i \in DOMAIN sources : \A r \in sources[i].records : Fresh(r, today, Month)
    BY <1>11, <1>14
  <2>2. Replays(payload, today) = [i \in DOMAIN sources |-> Replay(sources[i], today)]
    BY <1>11 DEF Replays
  <2> QED BY <1>10, <1>13, <2>1, <2>2
<1> QED BY <1>1, <1>2, <1>5, <1>12, <1>14

LEMMA RefreshBegins == CatalogInit => RefreshInvariant
<1>1. ASSUME NoAdmission PROVE RefreshInvariant
  BY <1>1 DEF NoAdmission, RefreshInvariant, NamedInv, ServingInv, AcceptedInv, Generations
<1>2. ASSUME AdmissionInit PROVE RefreshInvariant
  <2>1. WorldTyped(world) /\ Len(world.enrichments) \in Nat
    BY <1>2, WorldsAssumption DEF AdmissionInit, WorldTyped
  <2>2. \A g \in Generations : staged[g] = NoProof
    BY <1>2 DEF AdmissionInit, Generations
  <2>3. world.refresh # NoProof => offered[world.refresh.writes] = NoProof
    BY <1>2, <2>1 DEF AdmissionInit, WorldTyped
  <2> QED BY <1>2, <2>2, <2>3 DEF AdmissionInit, RefreshInvariant, NamedInv, ServingInv, AcceptedInv
<1> QED BY <1>1, <1>2 DEF CatalogInit

LEMMA RefreshStays == IInv /\ EvidenceInv /\ RefreshInvariant /\ [CatalogNext]_catalogVars => RefreshInvariant'
<1> SUFFICES ASSUME IInv, EvidenceInv, RefreshInvariant, [CatalogNext]_catalogVars PROVE RefreshInvariant'
  OBVIOUS
<1>1. ASSUME world' = world, staged' = staged, offered' = offered PROVE NamedInv' /\ AcceptedInv'
  BY <1>1 DEF RefreshInvariant, NamedInv, AcceptedInv, Generations
<1>2. ASSUME staged' = staged, receipts' = receipts, serving' = serving PROVE ServingInv'
  BY <1>2 DEF RefreshInvariant, ServingInv, Generations
<1>3. ASSUME NEW g \in Generations, NEW made, made = Content(g, day), Stage(g, made) PROVE RefreshInvariant'
  <2>1. /\ offered' = offered /\ world' = world /\ receipts' = receipts /\ serving' = serving
        /\ made # Refused /\ staged[g] = NoProof /\ staged' = [staged EXCEPT ![g] = made]
    BY <1>3 DEF Stage
  <2>2. /\ Generations' = Generations
        /\ \A h \in Generations : staged'[h] = IF h = g THEN made ELSE staged[h]
    BY <2>1 DEF Generations
  <2>3. NamedInv'
    BY <1>3, <2>1, <2>2, ContentNames DEF RefreshInvariant, NamedInv
  <2>4. ServingInv'
    BY <2>1, <2>2, <1>3 DEF RefreshInvariant, ServingInv
  <2>5. ASSUME world # NoProof, world.refresh # NoProof, offered[world.refresh.writes] # NoProof
        PROVE  staged'[world.refresh.parent] = staged[world.refresh.parent]
    <3>1. staged[world.refresh.parent] # NoProof
      BY <2>5 DEF RefreshInvariant, AcceptedInv
    <3>2. world.refresh.parent \in Generations
      BY <2>5, WorldsAssumption DEF IInv, ShapeInv, WorldTyped, Generations
    <3> QED BY <2>1, <2>2, <3>1, <3>2
  <2>6. AcceptedInv'
    BY <2>1, <2>5 DEF RefreshInvariant, AcceptedInv
  <2> QED BY <2>3, <2>4, <2>6 DEF RefreshInvariant
<1>4. ASSUME NEW g \in Generations, NEW made, Switch(g, made) PROVE RefreshInvariant'
  <2>1. /\ world' = world /\ staged' = staged /\ offered' = offered /\ receipts' = receipts
        /\ g # 0 /\ staged[g] # NoProof /\ serving' \in {Parent(g), g}
    BY <1>4 DEF Switch, Prepared
  <2>2. Parent(g) \in Generations /\ staged[Parent(g)] # NoProof
    BY <2>1 DEF IInv, ShapeInv, ContentInv
  <2>3. ServingInv'
    BY <2>1, <2>2 DEF RefreshInvariant, ServingInv, Generations
  <2> QED BY <1>1, <2>1, <2>3 DEF RefreshInvariant
<1>5. ASSUME NEW g \in Generations, NEW made, Freeze(g, made) PROVE RefreshInvariant'
  <2>1. /\ world' = world /\ staged' = staged /\ offered' = offered /\ serving' = serving
        /\ g # 0 /\ receipts' = receipts \cup {g}
    BY <1>5 DEF Freeze
  <2>2. ServingInv'
    BY <2>1 DEF RefreshInvariant, ServingInv, Generations
  <2> QED BY <1>1, <2>1, <2>2 DEF RefreshInvariant
<1>6. ASSUME NEW g \in Generations, Activate(g) PROVE RefreshInvariant'
  <2>1. /\ world' = world /\ staged' = staged /\ offered' = offered /\ receipts' = receipts
        /\ staged[g] # NoProof /\ serving' = g
    BY <1>6 DEF Activate
  <2>2. ServingInv'
    BY <2>1 DEF RefreshInvariant, ServingInv, Generations
  <2> QED BY <1>1, <2>1, <2>2 DEF RefreshInvariant
<1>7. ASSUME NEW g \in Generations, Rollback(g) PROVE RefreshInvariant'
  <2>1. /\ world' = world /\ staged' = staged /\ offered' = offered /\ receipts' = receipts
        /\ g \in receipts /\ serving = g /\ serving' = Parent(g)
    BY <1>7 DEF Rollback
  <2>2. g # 0
    BY <2>1 DEF RefreshInvariant, ServingInv
  <2>3. serving = NoProof \/ staged[g] # NoProof
    BY <2>1 DEF RefreshInvariant, ServingInv
  <2>4. g # NoProof
    <3>1. g \in Nat
      BY WorldsAssumption DEF IInv, ShapeInv, Generations, WorldTyped
    <3> QED BY <3>1, AdmissionAssumption
  <2>5. Parent(g) \in Generations /\ staged[Parent(g)] # NoProof
    BY <2>1, <2>2, <2>3, <2>4 DEF IInv, ShapeInv, ContentInv
  <2>6. ServingInv'
    BY <2>1, <2>5 DEF RefreshInvariant, ServingInv, Generations
  <2> QED BY <1>1, <2>1, <2>6 DEF RefreshInvariant
<1>8. CASE Refresh
  <2>1. PICK payload :
          /\ offered' = [offered EXCEPT ![world.refresh.writes] = payload]
          /\ payload.parent = world.refresh.parent /\ staged[world.refresh.parent] # NoProof
          /\ \A today : (\A i \in DOMAIN payload.inputs : \A r \in payload.inputs[i].batch.records : Fresh(r, today, Month)) =>
               Accepts(payload, staged[world.refresh.parent], Replays(payload, today))
    BY <1>8, RefreshWrites DEF RefreshInvariant
  <2>2. world' = world /\ staged' = staged /\ receipts' = receipts /\ serving' = serving
    BY <1>8 DEF Refresh
  <2>3. world.refresh.writes \in DOMAIN offered
    BY <1>8, WorldsAssumption DEF Refresh, IInv, ShapeInv, WorldTyped
  <2>4. offered'[world.refresh.writes] = payload
    BY <2>1, <2>3
  <2>5. AcceptedInv'
    BY <2>1, <2>2, <2>4 DEF AcceptedInv
  <2>6. NamedInv'
    BY <2>2 DEF RefreshInvariant, NamedInv, Generations
  <2> QED BY <1>2, <2>2, <2>5, <2>6 DEF RefreshInvariant
<1>9. CASE NextDay \/ Look \/ UNCHANGED admissionVars
  <2>1. world' = world /\ staged' = staged /\ offered' = offered /\ receipts' = receipts /\ serving' = serving
    BY <1>9 DEF NextDay, Look, admissionVars
  <2> QED BY <1>1, <1>2, <2>1 DEF RefreshInvariant
<1>10. CASE AdmissionNext
  BY <1>3, <1>4, <1>5, <1>6, <1>7, <1>9, <1>10 DEF AdmissionNext
<1> QED BY <1>8, <1>9, <1>10 DEF CatalogNext, catalogVars

\* RefreshIsAccepted: whatever units failed to load and whatever the sources and the parent have in common, the
\* importer accepts what a refresh wrote as long as its parent is served and its pages are in time.
THEOREM RefreshStands == CatalogSpec => []RefreshIsAccepted
<1>1. RefreshInvariant => RefreshIsAccepted
  BY DEF RefreshInvariant, AcceptedInv, RefreshIsAccepted
<1>2. CatalogSpec => []EvidenceInv
  BY EvidenceBegins, EvidenceStays, Invariant, PTL DEF CatalogSpec
<1>3. CatalogSpec => []RefreshInvariant
  BY <1>2, RefreshBegins, RefreshStays, Invariant, PTL DEF CatalogSpec
<1> QED BY <1>1, <1>3, PTL

-----------------------------------------------------------------------------
(* What is left of hours, statement by statement *)

\* One statement after the other.
InTurn(f, hours, s, m, enough) ==
  /\ f[0] = hours /\ f[m] = Restricted(hours, s, enough)
  /\ \A j \in 1..m : f[j] = IF f[j - 1] \in enough THEN f[j - 1] ELSE IF s[j] \in enough THEN s[j] ELSE Common(f[j - 1], s[j])

\* There is such a sequence of the hours left after each of them.
LEMMA RestrictedInTurn ==
  ASSUME NEW hours, NEW s, NEW m \in Nat, DOMAIN s = 1..m, NEW enough
  PROVE  \E f : InTurn(f, hours, s, m, enough)
<1> DEFINE after(left, said) == IF left \in enough THEN left ELSE IF said \in enough THEN said ELSE Common(left, said)
           Turn(f, j) == f = [S \in SUBSET (1..j) |-> IF S = {} THEN hours ELSE after(f[S \ {Max(S)}], s[Max(S)])]
           N == {j \in 0..m : ~\E f : Turn(f, j)}
<1> HIDE DEF after
<1>1. ASSUME NEW j \in 1..m, NEW S \in SUBSET (1..j), j \in S PROVE Max(S) = j
  <2>1. j \in S /\ \A y \in S : j >= y
    BY <1>1
  <2>2. ASSUME NEW x \in S, \A y \in S : x >= y PROVE x = j
    BY <1>1, <2>2
  <2> QED BY <2>1, <2>2 DEF Max
<1>2. N = {}
  <2> SUFFICES ASSUME N # {} PROVE FALSE
    OBVIOUS
  <2>1. PICK j \in N : \A i \in N : j <= i
    <3>1. N \in SUBSET Nat
      OBVIOUS
    <3> QED BY <3>1, LeastNumber
  <2>2. CASE j = 0
    <3>1. Turn([S \in SUBSET (1..0) |-> hours], 0)
      OBVIOUS
    <3> QED BY <2>2, <3>1
  <2>3. CASE j > 0
    <3>0. j \in 1..m /\ j - 1 \in 0..m /\ ~(j <= j - 1)
      BY <2>3
    <3>1. j - 1 \notin N
      BY <2>1, <3>0
    <3>2. PICK f : Turn(f, j - 1)
      BY <3>0, <3>1
    <3> DEFINE g == [S \in SUBSET (1..j) |-> IF j \in S THEN after(f[S \ {j}], s[j]) ELSE f[S]]
    <3>3. ASSUME NEW S \in SUBSET (1..j) PROVE g[S] = IF S = {} THEN hours ELSE after(g[S \ {Max(S)}], s[Max(S)])
      <4>1. CASE j \in S
        <5>1. Max(S) = j /\ S \ {j} \in SUBSET (1..j)
          BY <1>1, <3>0, <4>1
        <5> QED BY <4>1, <5>1
      <4>2. CASE j \notin S
        <5>1. S \in SUBSET (1..(j - 1))
          BY <3>0, <4>2
        <5>2. S \ {Max(S)} \in SUBSET (1..j) /\ j \notin S \ {Max(S)}
          BY <4>2
        <5>3. f[S] = IF S = {} THEN hours ELSE after(f[S \ {Max(S)}], s[Max(S)])
          BY <3>2, <5>1
        <5> QED BY <4>2, <5>2, <5>3
      <4> QED BY <4>1, <4>2
    <3>4. Turn(g, j)
      BY <3>3
    <3> QED BY <2>1, <3>4
  <2> QED BY <2>2, <2>3
<1>3. \E f : Turn(f, m)
  <2> HIDE DEF Turn
  <2>1. m \notin N
    <3> HIDE DEF N
    <3> QED BY <1>2
  <2> QED BY <2>1
<1> DEFINE iter == CHOOSE f : Turn(f, m)
<1>4. Turn(iter, m)
  BY <1>3
<1>5. Restricted(hours, s, enough) = iter[1..m]
  BY Zenon DEF Restricted, FoldLeft, MapThenFoldSet, after
<1> HIDE DEF iter
<1> DEFINE f == [j \in 0..m |-> iter[1..j]]
<1>6. iter[{}] = hours /\ 1..0 = {} /\ {} \in SUBSET (1..m)
  BY <1>4
<1>7. ASSUME NEW j \in 1..m PROVE f[j] = after(f[j - 1], s[j])
  <2>0. (1..j) \ {j} = 1..(j - 1)
    OBVIOUS
  <2>1. 1..j \in SUBSET (1..m) /\ j \in 1..j /\ (1..j) \ {j} = 1..(j - 1) /\ j - 1 \in 0..m /\ j \in 0..m
    BY <2>0
  <2>2. Max(1..j) = j
    BY <1>1, <2>1
  <2> QED BY <1>4, <2>1, <2>2
<1>8. f[0] = hours /\ f[m] = Restricted(hours, s, enough)
  BY <1>5, <1>6
<1> HIDE DEF f
<1> QED BY <1>7, <1>8 DEF after, InTurn

\* What two sets of windows have in common, both of them have.
LEMMA CommonWithin ==
  ASSUME NEW left, NEW right, left \subseteq Spans, right \subseteq Spans
  PROVE  /\ Common(left, right) \subseteq Spans
         /\ \A t \in Int : Within(Common(left, right), t) => Within(left, t) /\ Within(right, t)
<1>1. ASSUME NEW a \in left, NEW b \in right
      PROVE  /\ <<Most(a[1], b[1]), Least(a[2], b[2])>> \in Spans
             /\ \A t \in Int : Most(a[1], b[1]) <= t /\ t < Least(a[2], b[2]) => a[1] <= t /\ t < a[2] /\ b[1] <= t /\ t < b[2]
  <2>1. a \in (0..96) \X (0..96) /\ b \in (0..96) \X (0..96)
    BY DEF Spans, Late, Day
  <2>2. a[1] \in 0..96 /\ a[2] \in 0..96 /\ b[1] \in 0..96 /\ b[2] \in 0..96
    BY <2>1
  <2>3. Most(a[1], b[1]) \in 0..96 /\ Least(a[2], b[2]) \in 0..96
    BY <2>2 DEF Most, Least
  <2> QED BY <2>2, <2>3 DEF Most, Least, Spans, Late, Day
<1>2. ASSUME NEW w \in Common(left, right)
      PROVE  \E a \in left, b \in right : w = <<Most(a[1], b[1]), Least(a[2], b[2])>>
  BY DEF Common
<1>3. Common(left, right) \subseteq Spans
  BY <1>1, <1>2
<1>4. ASSUME NEW t \in Int, NEW w \in Common(left, right), w[1] <= t, t < w[2]
      PROVE  Within(left, t) /\ Within(right, t)
  <2>1. PICK a \in left, b \in right : w = <<Most(a[1], b[1]), Least(a[2], b[2])>>
    BY <1>2
  <2>2. Most(a[1], b[1]) <= t /\ t < Least(a[2], b[2])
    BY <1>4, <2>1
  <2> QED BY <1>1, <2>2 DEF Within
<1> QED BY <1>3, <1>4 DEF Within

\* Hours, or no answer where that is enough to withhold the date.
Readable(hours, enough) == hours \in enough \cap {Held} \/ hours \subseteq Spans
\* What is left lies within the hours and within every statement, unless it is an answer that was enough.
LEMMA RestrictedWithin ==
  ASSUME NEW hours, NEW s, NEW m \in Nat, DOMAIN s = 1..m, NEW enough \in SUBSET {Held, {}},
         Readable(hours, enough), \A i \in 1..m : Readable(s[i], enough),
         Restricted(hours, s, enough) \notin enough \cap {Held}
  PROVE  /\ Restricted(hours, s, enough) \subseteq Spans
         /\ \A t \in Int : Within(Restricted(hours, s, enough), t) =>
              /\ hours \notin enough \cap {Held} /\ Within(hours, t)
              /\ \A i \in 1..m : s[i] \notin enough \cap {Held} /\ Within(s[i], t)
<1> DEFINE V == enough \cap {Held}
<1>0. PICK f : InTurn(f, hours, s, m, enough)
  BY RestrictedInTurn
<1>1. /\ f[0] = hours /\ f[m] = Restricted(hours, s, enough)
      /\ \A j \in 1..m : f[j] = IF f[j - 1] \in enough THEN f[j - 1] ELSE IF s[j] \in enough THEN s[j] ELSE Common(f[j - 1], s[j])
  BY <1>0 DEF InTurn
<1> DEFINE Left(j) == f[j] \notin V =>
             /\ f[j] \subseteq Spans
             /\ \A t \in Int : Within(f[j], t) =>
                  hours \notin V /\ Within(hours, t) /\ \A i \in 1..j : s[i] \notin V /\ Within(s[i], t)
           B == {j \in 0..m : ~Left(j)}
<1>2. B = {}
  <2> SUFFICES ASSUME B # {} PROVE FALSE
    OBVIOUS
  <2>1. PICK j \in B : \A i \in B : j <= i
    <3>1. B \in SUBSET Nat
      OBVIOUS
    <3> QED BY <3>1, LeastNumber
  <2>2. CASE j = 0
    <3>1. Left(0)
      BY <1>1 DEF Readable
    <3> QED BY <2>1, <2>2, <3>1
  <2>3. CASE j > 0
    <3>1. j \in 1..m /\ j - 1 \in 0..m /\ Left(j - 1) /\ 1..j = (1..(j - 1)) \cup {j}
      <4>1. j \in 1..m /\ j - 1 \in 0..m /\ ~(j <= j - 1)
        BY <2>3
      <4>2. Left(j - 1)
        BY <2>1, <4>1
      <4>3. 1..j = (1..(j - 1)) \cup {j}
        BY <4>1
      <4> QED BY <4>1, <4>2, <4>3
    <3>2. f[j] = IF f[j - 1] \in enough THEN f[j - 1] ELSE IF s[j] \in enough THEN s[j] ELSE Common(f[j - 1], s[j])
      BY <1>1, <3>1
    <3>3. Readable(s[j], enough)
      BY <3>1
    <3>4. ASSUME NEW x, x \in enough, x \notin V PROVE x = {} /\ x \subseteq Spans /\ \A t \in Int : ~Within(x, t)
      BY <3>4 DEF Within
    <3> HIDE DEF V
    <3>5. CASE f[j] \in enough
      BY <3>4, <3>5, <2>1
    <3>6. CASE f[j] \notin enough
      <4>1. f[j - 1] \notin enough /\ s[j] \notin enough /\ f[j] = Common(f[j - 1], s[j])
        BY <3>2, <3>6
      <4>2. f[j - 1] \notin V /\ s[j] \notin V /\ s[j] \subseteq Spans
        BY <3>3, <4>1 DEF Readable, V
      <4>3. f[j - 1] \subseteq Spans
        BY <3>1, <4>2
      <4>4. f[j] \subseteq Spans
        BY <4>1, <4>2, <4>3, CommonWithin
      <4>5. ASSUME NEW t \in Int, Within(f[j], t)
            PROVE  hours \notin V /\ Within(hours, t) /\ \A i \in 1..j : s[i] \notin V /\ Within(s[i], t)
        <5>1. Within(f[j - 1], t) /\ Within(s[j], t)
          BY <4>1, <4>2, <4>3, <4>5, CommonWithin
        <5> QED BY <3>1, <4>2, <5>1
      <4>6. Left(j)
        BY <4>4, <4>5
      <4> QED BY <2>1, <4>6
    <3> QED BY <3>5, <3>6
  <2> QED BY <2>2, <2>3
<1>3. Left(m)
  <2>1. m \in 0..m /\ m \notin B
    BY <1>2
  <2> HIDE DEF Left
  <2> QED BY <2>1
<1> QED BY <1>1, <1>3

\* Both sides have to be readable, and restrict.
LEMMA NarrowWithin ==
  ASSUME NEW left, NEW right, left = Held \/ left \subseteq Spans, right = Held \/ right \subseteq Spans, Narrow(left, right) # Held
  PROVE  /\ left # Held /\ right # Held /\ Narrow(left, right) \subseteq Spans
         /\ \A t \in Int : Within(Narrow(left, right), t) => Within(left, t) /\ Within(right, t)
<1>1. left # Held /\ right # Held /\ Narrow(left, right) = Common(left, right)
  BY DEF Narrow
<1> QED BY <1>1, CommonWithin

\* Hours that a statement gives, or none that can be read.
Stated(hours) == hours = Held \/ hours \subseteq Spans
\* What is left of hours is within them and within every statement.
LeftOf(rest, hours, s) ==
  rest # Held =>
    /\ rest \subseteq Spans
    /\ \A t \in Int : Within(rest, t) => hours # Held /\ Within(hours, t) /\ \A i \in DOMAIN s : s[i] # Held /\ Within(s[i], t)

\* A list is numbered from 1.
LEMMA ListLength == ASSUME NEW s, IsList(s) PROVE \E m \in Nat : DOMAIN s = 1..m
BY DEF IsList

\* Both ways of restricting hours that may be withheld.
LEMMA NarrowedWithin ==
  ASSUME NEW list, IsList(list), NEW hours, NEW s, DOMAIN s = DOMAIN list, Stated(hours), \A i \in DOMAIN list : Stated(s[i])
  PROVE  LeftOf(Narrowed(hours, s), hours, s) /\ LeftOf(UntilClosed(hours, s), hours, s)
<1>1. PICK m \in Nat : DOMAIN s = 1..m
  BY ListLength
<1>2. ASSUME NEW enough \in SUBSET {Held, {}}, Held \in enough PROVE LeftOf(Restricted(hours, s, enough), hours, s)
  <2>1. enough \cap {Held} = {Held} /\ Readable(hours, enough) /\ \A i \in 1..m : Readable(s[i], enough)
    BY <1>1, <1>2 DEF Stated, Readable
  <2>2. ASSUME Restricted(hours, s, enough) # Held
        PROVE  /\ Restricted(hours, s, enough) \subseteq Spans
               /\ \A t \in Int : Within(Restricted(hours, s, enough), t) =>
                    hours # Held /\ Within(hours, t) /\ \A i \in 1..m : s[i] # Held /\ Within(s[i], t)
    <3>1. /\ Restricted(hours, s, enough) \subseteq Spans
          /\ \A t \in Int : Within(Restricted(hours, s, enough), t) =>
               /\ hours \notin enough \cap {Held} /\ Within(hours, t)
               /\ \A i \in 1..m : s[i] \notin enough \cap {Held} /\ Within(s[i], t)
      BY <1>1, <2>1, <2>2, RestrictedWithin
    <3> QED BY <2>1, <3>1
  <2> QED BY <1>1, <2>2 DEF LeftOf
<1> QED BY <1>2 DEF Narrowed, UntilClosed

\* Hours and statements that are all readable.
LEMMA SharedWithin ==
  ASSUME NEW list, IsList(list), NEW hours, NEW s, DOMAIN s = DOMAIN list, hours \subseteq Spans, \A i \in DOMAIN list : s[i] \subseteq Spans
  PROVE  /\ Shared(hours, s) \subseteq Spans
         /\ \A t \in Int : Within(Shared(hours, s), t) => Within(hours, t) /\ \A i \in DOMAIN s : Within(s[i], t)
<1>1. PICK m \in Nat : DOMAIN s = 1..m
  BY ListLength
<1>2. {} \cap {Held} = {} /\ {} \in SUBSET {Held, {}} /\ Readable(hours, {}) /\ \A i \in 1..m : Readable(s[i], {})
  BY <1>1 DEF Readable
<1> QED BY <1>1, <1>2, RestrictedWithin DEF Shared

-----------------------------------------------------------------------------
(* One date of a page *)

\* The units of time, and the days of a week and of a year.
LEMMA Calendars ==
  /\ Week \in Nat \ {0} /\ Year \in Nat \ {0} /\ Horizon \in Nat \ {0}
  /\ Silent \subseteq Spans /\ AllDay \subseteq Spans /\ Spans \subseteq Int \X Int
  /\ \A d \in Int : Weekday(d) \in Weekdays /\ YearDay(d) \in 0..(Year - 1)
  /\ 0..(Year - 1) \subseteq Int
<1>1. Week \in Nat \ {0} /\ Year \in Nat \ {0} /\ Horizon \in Nat \ {0}
  BY PublishedAssumption
<1>2. ASSUME NEW d \in Int, NEW m \in Nat \ {0} PROVE d % m \in 0..(m - 1)
  OBVIOUS
<1>3. \A d \in Int : Weekday(d) \in Weekdays /\ YearDay(d) \in 0..(Year - 1)
  BY <1>1, <1>2 DEF Weekday, YearDay, Weekdays
<1>4. Silent \subseteq Spans /\ AllDay \subseteq Spans
  BY DEF Silent, AllDay, Spans, Late, Day
<1>5. Spans \subseteq Int \X Int
  BY DEF Spans, Late, Day
<1>6. 0..(Year - 1) \subseteq Int
  BY <1>1
<1> QED BY <1>1, <1>3, <1>4, <1>5, <1>6

\* A cell of a table.
LEMMA TableWithin ==
  ASSUME NEW table, TableTyped(table), NEW d \in Int
  PROVE  /\ Stated(TableHours(table, d))
         /\ TableHours(table, d) # Held => \A t \in Int : Within(TableHours(table, d), t) => CellPermits(table, d, t)
<1> DEFINE cell == table[Weekday(d)]
<1>1. cell.is = "clocks" => cell.from \in 0..48 /\ cell.to \in 0..48
  BY Calendars DEF TableTyped, Day
<1>2. CASE cell.is = "shut"
  BY <1>2 DEF TableHours, Stated, Within
<1>3. CASE cell.is = "clocks" /\ cell.from < cell.to
  <2>1. TableHours(table, d) = {<<cell.from, cell.to>>}
    BY <1>3 DEF TableHours
  <2>2. <<cell.from, cell.to>> \in Spans
    BY <1>1, <1>3 DEF Spans, Late, Day
  <2> QED BY <1>3, <2>1, <2>2 DEF Stated, Within, CellPermits
<1>4. CASE cell.is # "shut" /\ ~(cell.is = "clocks" /\ cell.from < cell.to)
  BY <1>4 DEF TableHours, Stated
<1> QED BY <1>2, <1>3, <1>4

\* A range of days that may pass the year's end, read day by day and as a whole.
LEMMA DaysInRange ==
  ASSUME NEW range \in Int \X Int, NEW d \in Int
  PROVE  /\ WithinYear(range, YearDay(d)) => YearDay(d) \in DaysOf(range)
         /\ range \in (0..(Year - 1)) \X (0..(Year - 1)) => (YearDay(d) \in DaysOf(range) => WithinYear(range, YearDay(d)))
<1>1. range[1] \in Int /\ range[2] \in Int /\ Year \in Nat /\ YearDay(d) \in 0..(Year - 1)
  BY Calendars
<1>2. WithinYear(range, YearDay(d)) => YearDay(d) \in DaysOf(range)
  BY <1>1 DEF DaysOf, WithinYear
<1>3. ASSUME range \in (0..(Year - 1)) \X (0..(Year - 1)), YearDay(d) \in DaysOf(range) PROVE WithinYear(range, YearDay(d))
  <2>1. ASSUME NEW A, NEW r \in A \X A PROVE r[1] \in A /\ r[2] \in A
    OBVIOUS
  <2>2. range[1] \in 0..(Year - 1) /\ range[2] \in 0..(Year - 1)
    BY <1>3, <2>1
  <2> QED BY <1>1, <1>3, <2>2 DEF DaysOf, WithinYear
<1> QED BY <1>2, <1>3

\* The exceptions of a schedule: first and second review, of a schedule of its own or of a parent.
LeftByExceptions(rest, p, schedule, d, base, unconditional) ==
  rest # Held =>
    /\ rest \subseteq Spans
    /\ \A t \in Int : Within(rest, t) => base # Held /\ Within(base, t) /\ ExceptionsPermit(p, schedule, d, t, unconditional)

\* Hours after the exceptions of a schedule are permitted by each that applies.
LEMMA ExceptionsWithin ==
  ASSUME NEW p, NEW schedule, ScheduleTyped(schedule), NEW d \in Int, NEW base, Stated(base),
         NEW needsCell, needsCell = (p.source # "nps_more"), NEW unconditional \in BOOLEAN
  PROVE  LeftByExceptions(AfterExceptions(schedule, d, base, needsCell, unconditional), p, schedule, d, base, unconditional)
<1> DEFINE rest == AfterExceptions(schedule, d, base, needsCell, unconditional)
<1> HIDE DEF rest
<1> SUFFICES ASSUME rest # Held
             PROVE  /\ rest \subseteq Spans
                    /\ \A t \in Int : Within(rest, t) => base # Held /\ Within(base, t) /\ ExceptionsPermit(p, schedule, d, t, unconditional)
  BY DEF LeftByExceptions, rest
<1> DEFINE list == schedule.exceptions
           says(e) == IF e.dates = {} /\ ~(e.always /\ unconditional) THEN Held
                      ELSE IF (e.always /\ unconditional) \/ Selects(e, d) THEN ExceptionHours(e, d, needsCell)
                      ELSE Silent
           s == [i \in DOMAIN list |-> says(list[i])]
           applies(e) == (e.always /\ unconditional) \/ \E range \in e.dates : YearDay(d) \in DaysOf(range)
           closed(e) == e.prose = "closed" /\ (p.source = "nps_more" \/ \E w \in Weekdays : e.table[w].is = "shut")
<1>1. IsList(list) /\ \A i \in DOMAIN list : TableTyped(list[i].table) /\ list[i].dates \subseteq (0..(Year - 1)) \X (0..(Year - 1))
  BY DEF ScheduleTyped, Range
<1>2. ASSUME NEW e, TableTyped(e.table), e.dates \subseteq (0..(Year - 1)) \X (0..(Year - 1))
      PROVE  /\ Stated(says(e))
             /\ says(e) # Held => \A t \in Int : Within(says(e), t) => (applies(e) => ~closed(e) /\ CellPermits(e.table, d, t))
  <2>1. /\ Stated(ExceptionHours(e, d, needsCell))
        /\ ExceptionHours(e, d, needsCell) # Held =>
             \A t \in Int : Within(ExceptionHours(e, d, needsCell), t) => ~closed(e) /\ CellPermits(e.table, d, t)
    <3>1. closed(e) => ExceptionHours(e, d, needsCell) = {}
      BY DEF ExceptionHours, ClosedWithCell, ClosedByProse
    <3>2. ExceptionHours(e, d, needsCell) = {} \/ ExceptionHours(e, d, needsCell) = TableHours(e.table, d)
      BY DEF ExceptionHours
    <3>3. \A t \in Int : ~Within({}, t)
      BY DEF Within
    <3>4. Stated({})
      BY DEF Stated
    <3> HIDE DEF closed
    <3> QED BY <1>2, <3>1, <3>2, <3>3, <3>4, TableWithin
  <2>2. Selects(e, d) <=> \E range \in e.dates : YearDay(d) \in DaysOf(range)
    <3>1. ASSUME NEW range \in e.dates PROVE WithinYear(range, YearDay(d)) <=> YearDay(d) \in DaysOf(range)
      <4>1. range \in (0..(Year - 1)) \X (0..(Year - 1))
        BY <1>2
      <4>2. 0..(Year - 1) \subseteq Int
        BY Calendars
      <4>3. range \in Int \X Int
        BY <4>1, <4>2
      <4> QED BY <4>1, <4>3, DaysInRange
    <3> QED BY <3>1 DEF Selects
  <2>3. Stated(Silent) /\ Stated(Held)
    BY Calendars DEF Stated
  <2> HIDE DEF closed
  <2> QED BY <2>1, <2>2, <2>3
<1> HIDE DEF says
<1>3. DOMAIN s = DOMAIN list /\ \A i \in DOMAIN list : s[i] = says(list[i]) /\ Stated(s[i])
  BY <1>1, <1>2
<1>4. rest = UntilClosed(base, s)
  BY DEF AfterExceptions, s, list, says, rest
<1> HIDE DEF s, list
<1>5. LeftOf(rest, base, s)
  BY <1>1, <1>3, <1>4, NarrowedWithin
<1>6. /\ rest \subseteq Spans
      /\ \A t \in Int : Within(rest, t) => base # Held /\ Within(base, t) /\ \A i \in DOMAIN list : s[i] # Held /\ Within(s[i], t)
  BY <1>3, <1>5 DEF LeftOf
<1>7. ASSUME NEW t \in Int, Within(rest, t) PROVE ExceptionsPermit(p, schedule, d, t, unconditional)
  <2>1. \A i \in DOMAIN list : applies(list[i]) => ~closed(list[i]) /\ CellPermits(list[i].table, d, t)
    BY <1>1, <1>2, <1>3, <1>6, <1>7
  <2> QED BY <2>1 DEF ExceptionsPermit, list
<1> QED BY <1>6, <1>7

\* A schedule with its exceptions.
HoursOfSchedule(hours, p, schedule, d) ==
  Stated(hours) /\ (hours # Held => \A t \in Int : Within(hours, t) => SchedulePermits(p, schedule, d, t))

\* The hours of a schedule are those of its table that its exceptions permit.
LEMMA ScheduleWithin ==
  ASSUME NEW p, NEW schedule, ScheduleTyped(schedule), NEW d \in Int, NEW needsCell, needsCell = (p.source # "nps_more")
  PROVE  HoursOfSchedule(ScheduleHours(schedule, d, needsCell), p, schedule, d)
<1> DEFINE base == TableHours(schedule.table, d)
           hours == ScheduleHours(schedule, d, needsCell)
<1>1. TableTyped(schedule.table)
  BY DEF ScheduleTyped
<1>2. Stated(base) /\ (base # Held => \A t \in Int : Within(base, t) => CellPermits(schedule.table, d, t))
  BY <1>1, TableWithin
<1>3. hours = AfterExceptions(schedule, d, base, needsCell, FALSE)
  BY DEF ScheduleHours
<1> HIDE DEF base, hours
<1>4. ASSUME hours # Held
      PROVE  /\ hours \subseteq Spans
             /\ \A t \in Int : Within(hours, t) => base # Held /\ Within(base, t) /\ ExceptionsPermit(p, schedule, d, t, FALSE)
  <2>1. LeftByExceptions(hours, p, schedule, d, base, FALSE)
    BY <1>2, <1>3, ExceptionsWithin
  <2> QED BY <1>4, <2>1 DEF LeftByExceptions
<1>5. Stated(hours) /\ (hours # Held => \A t \in Int : Within(hours, t) => SchedulePermits(p, schedule, d, t))
  BY <1>2, <1>4 DEF Stated, SchedulePermits
<1> QED BY <1>5 DEF hours, HoursOfSchedule

-----------------------------------------------------------------------------
(* Parks and facilities *)

\* The hours that an adapter makes of one date of its page, if any, are permitted.
MadeOf(hours, p, d) ==
  hours # Held => hours \subseteq Spans /\ \A t \in Int : Within(hours, t) => Permits(p, d, t)

\* Closures and caps that only the prose states.
LEMMA ProseWithin ==
  ASSUME NEW hours, Stated(hours), NEW rules, IsList(rules), \A r \in Range(rules) : r.hours \subseteq Spans, NEW d \in Int,
         AfterProse(hours, rules, d) # Held
  PROVE  /\ AfterProse(hours, rules, d) \subseteq Spans
         /\ \A t \in Int : Within(AfterProse(hours, rules, d), t) =>
              hours # Held /\ Within(hours, t) /\ \A i \in DOMAIN rules : d \in rules[i].days => rules[i].found /\ Within(rules[i].hours, t)
<1> DEFINE says(r) == IF d \notin r.days THEN Silent ELSE IF r.found THEN r.hours ELSE Held
           s == [i \in DOMAIN rules |-> says(rules[i])]
           rest == AfterProse(hours, rules, d)
<1>1. rest = Narrowed(hours, s)
  BY DEF AfterProse
<1>2. \A r : says(r) = Silent \/ says(r) = r.hours \/ says(r) = Held
  OBVIOUS
<1>3. \A i \in DOMAIN rules : Stated(s[i])
  <2>1. ASSUME NEW i \in DOMAIN rules PROVE Stated(s[i])
    <3>1. rules[i].hours \subseteq Spans
      BY DEF Range
    <3> QED BY <1>2, <3>1, Calendars DEF Stated
  <2> QED BY <2>1
<1>4. DOMAIN s = DOMAIN rules
  OBVIOUS
<1>5. \A i \in DOMAIN rules : s[i] # Held => (d \in rules[i].days => rules[i].found /\ s[i] = rules[i].hours)
  OBVIOUS
<1> HIDE DEF s, rest
<1>6. LeftOf(rest, hours, s)
  BY <1>1, <1>3, <1>4, NarrowedWithin
<1>7. /\ rest \subseteq Spans
      /\ \A t \in Int : Within(rest, t) => hours # Held /\ Within(hours, t) /\ \A i \in DOMAIN rules : s[i] # Held /\ Within(s[i], t)
  BY <1>4, <1>6 DEF LeftOf, rest
<1> QED BY <1>5, <1>7 DEF rest

\* The first review.
LEMMA NpsSays ==
  ASSUME NEW p, p.source = "nps", ParkTyped(p), NEW d \in 0..p.until
  PROVE  MadeOf(NpsDay(p, d), p, d)
<1> DEFINE scope(parent) == IF parent.role = "exceptions" THEN AllDay ELSE TableHours(parent.schedule.table, d)
           says(parent) == IF parent.role = "other" THEN Silent
                           ELSE AfterExceptions(parent.schedule, d, scope(parent), TRUE, TRUE)
           s == [i \in DOMAIN p.parents |-> says(p.parents[i])]
           base == ScheduleHours(p.selected, d, TRUE)
           accessible == UntilClosed(base, s)
           rest == NpsDay(p, d)
<1> SUFFICES ASSUME rest # Held PROVE rest \subseteq Spans /\ \A t \in Int : Within(rest, t) => Permits(p, d, t)
  BY DEF MadeOf
<1>1. d \in Int /\ ScheduleTyped(p.selected) /\ IsList(p.parents) /\ IsList(p.prose) /\ p.closures = {}
      /\ (\A i \in DOMAIN p.parents : ScheduleTyped(p.parents[i].schedule)) /\ \A r \in Range(p.prose) : r.hours \subseteq Spans
  BY DEF ParkTyped, Range
<1>2. d \notin p.unclear /\ rest = AfterProse(accessible, p.prose, d)
  BY DEF NpsDay
<1>3. HoursOfSchedule(base, p, p.selected, d)
  BY <1>1, ScheduleWithin
<1>4. ASSUME NEW i \in DOMAIN p.parents
      PROVE  Stated(s[i]) /\ (s[i] # Held => \A t \in Int : Within(s[i], t) => ParentPermits(p, p.parents[i], d, t))
  <2> DEFINE parent == p.parents[i]
  <2>1. s[i] = says(parent) /\ ScheduleTyped(parent.schedule) /\ TableTyped(parent.schedule.table)
    BY <1>1 DEF ScheduleTyped
  <2> HIDE DEF s, parent
  <2>2. CASE parent.role = "other"
    BY <2>1, <2>2, Calendars DEF Stated, ParentPermits, parent
  <2>3. CASE parent.role # "other"
    <3>1. Stated(scope(parent)) /\ (parent.role # "exceptions" /\ scope(parent) # Held =>
             \A t \in Int : Within(scope(parent), t) => CellPermits(parent.schedule.table, d, t))
      BY <1>1, <2>1, TableWithin, Calendars DEF Stated
    <3>2. says(parent) = AfterExceptions(parent.schedule, d, scope(parent), TRUE, TRUE)
      BY <2>3
    <3> HIDE DEF scope, says
    <3>3. LeftByExceptions(says(parent), p, parent.schedule, d, scope(parent), TRUE)
      BY <1>1, <2>1, <3>1, <3>2, ExceptionsWithin
    <3> QED BY <2>1, <2>3, <3>1, <3>3 DEF LeftByExceptions, Stated, ParentPermits, parent
  <2> QED BY <2>2, <2>3
<1>5. DOMAIN s = DOMAIN p.parents
  OBVIOUS
<1> HIDE DEF s, base, rest
<1>6. LeftOf(accessible, base, s)
  BY <1>1, <1>3, <1>4, <1>5, NarrowedWithin DEF HoursOfSchedule
<1> HIDE DEF accessible
<1>7. Stated(accessible)
  BY <1>6 DEF LeftOf, Stated
<1>8. /\ rest \subseteq Spans
      /\ \A t \in Int : Within(rest, t) =>
           /\ accessible # Held /\ Within(accessible, t)
           /\ \A i \in DOMAIN p.prose : d \in p.prose[i].days => p.prose[i].found /\ Within(p.prose[i].hours, t)
  BY <1>1, <1>2, <1>7, ProseWithin
<1>9. ASSUME NEW t \in Int, Within(rest, t) PROVE Permits(p, d, t)
  <2>1. accessible # Held /\ Within(accessible, t)
    BY <1>8, <1>9
  <2>2. base # Held /\ Within(base, t) /\ \A i \in DOMAIN p.parents : s[i] # Held /\ Within(s[i], t)
    BY <1>5, <1>6, <2>1 DEF LeftOf
  <2>3. SchedulePermits(p, p.selected, d, t) /\ \A i \in DOMAIN p.parents : ParentPermits(p, p.parents[i], d, t)
    BY <1>3, <1>4, <2>2 DEF HoursOfSchedule
  <2>4. ParkPermits(p, d, t)
    BY <1>1, <1>2, <1>8, <1>9, <2>3 DEF ParkPermits
  <2> QED BY <2>4 DEF Permits
<1> QED BY <1>8, <1>9

\* The second review.
LEMMA NpsMoreSays ==
  ASSUME NEW p, p.source = "nps_more", ParkTyped(p), NEW d \in 0..p.until
  PROVE  MadeOf(NpsMoreDay(p, d), p, d)
<1> DEFINE says(parent) == IF parent.role # "full" THEN Silent ELSE ScheduleHours(parent.schedule, d, FALSE)
           s == [i \in DOMAIN p.parents |-> says(p.parents[i])]
           base == ScheduleHours(p.selected, d, FALSE)
           accessible == UntilClosed(base, s)
           rest == NpsMoreDay(p, d)
<1> SUFFICES ASSUME rest # Held PROVE rest \subseteq Spans /\ \A t \in Int : Within(rest, t) => Permits(p, d, t)
  BY DEF MadeOf
<1>1. d \in Int /\ ScheduleTyped(p.selected) /\ IsList(p.parents) /\ IsList(p.prose) /\ p.unclear = {}
      /\ (\A i \in DOMAIN p.parents : ScheduleTyped(p.parents[i].schedule) /\ p.parents[i].role # "exceptions")
      /\ \A r \in Range(p.prose) : r.hours \subseteq Spans
  BY DEF ParkTyped, Range
<1>2. CASE YearDay(d) \in p.closures
  <2>1. rest = {}
    BY <1>2 DEF NpsMoreDay
  <2> QED BY <2>1 DEF Within
<1>3. CASE YearDay(d) \notin p.closures
  <2>2. rest = AfterProse(accessible, p.prose, d)
    BY <1>3 DEF NpsMoreDay
  <2>3. HoursOfSchedule(base, p, p.selected, d)
    BY <1>1, ScheduleWithin
  <2>4. ASSUME NEW i \in DOMAIN p.parents
        PROVE  Stated(s[i]) /\ (s[i] # Held => \A t \in Int : Within(s[i], t) => ParentPermits(p, p.parents[i], d, t))
    <3> DEFINE parent == p.parents[i]
    <3>1. s[i] = says(parent) /\ ScheduleTyped(parent.schedule) /\ parent.role # "exceptions"
      BY <1>1
    <3> HIDE DEF s, parent
    <3>2. CASE parent.role # "full"
      BY <3>1, <3>2, Calendars DEF Stated, ParentPermits, parent
    <3>3. CASE parent.role = "full"
      <4>1. HoursOfSchedule(says(parent), p, parent.schedule, d)
        <5>1. HoursOfSchedule(ScheduleHours(parent.schedule, d, FALSE), p, parent.schedule, d)
          BY <1>1, <3>1, ScheduleWithin
        <5> QED BY <3>3, <5>1
      <4> HIDE DEF says
      <4> QED BY <3>1, <3>3, <4>1 DEF HoursOfSchedule, SchedulePermits, ParentPermits, parent
    <3> QED BY <3>2, <3>3
  <2>5. DOMAIN s = DOMAIN p.parents
    OBVIOUS
  <2> HIDE DEF s, base, rest
  <2>6. LeftOf(accessible, base, s)
    BY <1>1, <2>3, <2>4, <2>5, NarrowedWithin DEF HoursOfSchedule
  <2> HIDE DEF accessible
  <2>7. Stated(accessible)
    BY <2>6 DEF LeftOf, Stated
  <2>8. /\ rest \subseteq Spans
        /\ \A t \in Int : Within(rest, t) =>
             /\ accessible # Held /\ Within(accessible, t)
             /\ \A i \in DOMAIN p.prose : d \in p.prose[i].days => p.prose[i].found /\ Within(p.prose[i].hours, t)
    BY <1>1, <2>2, <2>7, ProseWithin
  <2>9. ASSUME NEW t \in Int, Within(rest, t) PROVE Permits(p, d, t)
    <3>1. accessible # Held /\ Within(accessible, t)
      BY <2>8, <2>9
    <3>2. base # Held /\ Within(base, t) /\ \A i \in DOMAIN p.parents : s[i] # Held /\ Within(s[i], t)
      BY <2>5, <2>6, <3>1 DEF LeftOf
    <3>3. SchedulePermits(p, p.selected, d, t) /\ \A i \in DOMAIN p.parents : ParentPermits(p, p.parents[i], d, t)
      BY <2>3, <2>4, <3>2 DEF HoursOfSchedule
    <3>4. ParkPermits(p, d, t)
      BY <1>1, <1>3, <2>8, <2>9, <3>3 DEF ParkPermits
    <3> QED BY <3>4 DEF Permits
  <2> QED BY <2>8, <2>9
<1> QED BY <1>2, <1>3

\* A facility imported without a review.
LEMMA FacilitySays ==
  ASSUME NEW p, p.source = "facility", FacilityTyped(p), \A i \in DOMAIN p.clocks : ForwardPair(p.clocks[i]), NEW d \in Dates
  PROVE  MadeOf(FacilityDay(p, d), p, d)
<1> DEFINE says(schedule) == ScheduleHours(schedule, d, TRUE)
           parent(i) == IF p.parents[i].role = "other" THEN Silent ELSE says(p.parents[i].schedule)
           lot(i) == IF p.lots[i].near /\ p.lots[i].named THEN says(p.lots[i].schedule) ELSE Silent
           parents == [i \in DOMAIN p.parents |-> parent(i)]
           lots == [i \in DOMAIN p.lots |-> lot(i)]
           clocks == [i \in DOMAIN p.clocks |-> {<<p.clocks[i][1], p.clocks[i][2]>>}]
           own == says(p.selected)
           first == Narrow(AllDay, own)
           second == Narrowed(first, parents)
           native == FacilityNative(p, d)
           bounded == Narrowed(native, clocks)
           rest == FacilityDay(p, d)
<1>1. d \in Int /\ ScheduleTyped(p.selected) /\ IsList(p.parents) /\ IsList(p.lots) /\ IsList(p.clocks)
      /\ (\A i \in DOMAIN p.parents : ScheduleTyped(p.parents[i].schedule))
      /\ (\A i \in DOMAIN p.lots : ScheduleTyped(p.lots[i].schedule))
      /\ (\A i \in DOMAIN p.clocks : <<p.clocks[i][1], p.clocks[i][2]>> \in Spans)
  BY DEF FacilityTyped, Range, Dates
<1>2. native = Narrowed(second, lots) /\ rest = IF bounded # Held /\ YearDay(d) \in p.closures THEN {} ELSE bounded
  BY DEF FacilityNative, FacilityDay
<1>3. ASSUME NEW schedule, ScheduleTyped(schedule) PROVE HoursOfSchedule(says(schedule), p, schedule, d)
  BY <1>1, <1>3, ScheduleWithin
<1> HIDE DEF says
<1>4. ASSUME NEW i \in DOMAIN p.parents
      PROVE  Stated(parents[i]) /\ (parents[i] # Held => \A t \in Int : Within(parents[i], t) =>
               (p.parents[i].role # "other" => SchedulePermits(p, p.parents[i].schedule, d, t)))
  <2>1. parents[i] = parent(i) /\ HoursOfSchedule(says(p.parents[i].schedule), p, p.parents[i].schedule, d)
    BY <1>1, <1>3
  <2> HIDE DEF parents
  <2> QED BY <2>1, Calendars DEF HoursOfSchedule, Stated
<1>5. ASSUME NEW i \in DOMAIN p.lots
      PROVE  Stated(lots[i]) /\ (lots[i] # Held => \A t \in Int : Within(lots[i], t) =>
               (p.lots[i].near /\ p.lots[i].named => SchedulePermits(p, p.lots[i].schedule, d, t)))
  <2>1. lots[i] = lot(i) /\ HoursOfSchedule(says(p.lots[i].schedule), p, p.lots[i].schedule, d)
    BY <1>1, <1>3
  <2> HIDE DEF lots
  <2> QED BY <2>1, Calendars DEF HoursOfSchedule, Stated
<1>6. \A i \in DOMAIN p.clocks : Stated(clocks[i]) /\ \A t \in Int : Within(clocks[i], t) => p.clocks[i][1] <= t /\ t < p.clocks[i][2]
  BY <1>1 DEF Stated, Within
<1>7. DOMAIN parents = DOMAIN p.parents /\ DOMAIN lots = DOMAIN p.lots /\ DOMAIN clocks = DOMAIN p.clocks
  OBVIOUS
<1>8. HoursOfSchedule(own, p, p.selected, d) /\ Stated(own) /\ Stated(AllDay)
  BY <1>1, <1>3, Calendars DEF HoursOfSchedule, Stated
<1> HIDE DEF parents, lots, clocks, own, native, rest, bounded
<1>9. Stated(first) /\ (first # Held => own # Held /\ \A t \in Int : Within(first, t) => Within(own, t))
  BY <1>8, NarrowWithin DEF Stated
<1> HIDE DEF first
<1>10. LeftOf(second, first, parents) /\ Stated(second)
  <2>1. LeftOf(second, first, parents)
    BY <1>1, <1>4, <1>7, <1>9, NarrowedWithin
  <2> QED BY <2>1 DEF LeftOf, Stated
<1> HIDE DEF second
<1>11. LeftOf(native, second, lots) /\ Stated(native)
  <2>1. LeftOf(native, second, lots)
    BY <1>1, <1>2, <1>5, <1>7, <1>10, NarrowedWithin
  <2> QED BY <2>1 DEF LeftOf, Stated
<1>12. LeftOf(bounded, native, clocks) /\ Stated(bounded)
  <2>1. LeftOf(bounded, native, clocks)
    BY <1>1, <1>6, <1>7, <1>11, NarrowedWithin DEF bounded
  <2> QED BY <2>1 DEF LeftOf, Stated
<1>13. CASE bounded # Held /\ YearDay(d) \in p.closures
  <2>1. rest = {}
    BY <1>2, <1>13
  <2> QED BY <2>1 DEF MadeOf, Within, rest
<1>14. CASE bounded # Held /\ YearDay(d) \notin p.closures
  <2>1. rest = bounded /\ bounded \subseteq Spans
    BY <1>2, <1>12, <1>14 DEF Stated
  <2>2. ASSUME NEW t \in Int, Within(rest, t) PROVE Permits(p, d, t)
    <3>1. native # Held /\ Within(native, t) /\ \A i \in DOMAIN p.clocks : Within(clocks[i], t)
      BY <1>7, <1>12, <1>14, <2>1, <2>2 DEF LeftOf
    <3>2. second # Held /\ Within(second, t) /\ \A i \in DOMAIN p.lots : lots[i] # Held /\ Within(lots[i], t)
      BY <1>7, <1>11, <3>1 DEF LeftOf
    <3>3. first # Held /\ Within(first, t) /\ \A i \in DOMAIN p.parents : parents[i] # Held /\ Within(parents[i], t)
      BY <1>7, <1>10, <3>2 DEF LeftOf
    <3>4. SchedulePermits(p, p.selected, d, t)
      BY <1>8, <1>9, <3>3 DEF HoursOfSchedule
    <3>5. FacilityPermits(p, d, t)
      BY <1>4, <1>5, <1>6, <1>14, <3>1, <3>2, <3>3, <3>4 DEF FacilityPermits
    <3> QED BY <3>5 DEF Permits
  <2> QED BY <2>1, <2>2 DEF MadeOf, rest
<1>15. CASE bounded = Held
  BY <1>2, <1>15 DEF MadeOf, rest
<1> QED BY <1>13, <1>14, <1>15

-----------------------------------------------------------------------------
(* A calendar, read date by date *)

\* The hours that a calendar has for a date, by weekday and by override, before seasons and closures.
WeeklyOn(weekly, d) == {w.hours : w \in {x \in weekly : Weekday(d) \in x.days}}
HoursOn(c, d) == IF d \in DOMAIN c.overrides THEN c.overrides[d] ELSE WeeklyOn(c.weekly, d)

\* A calendar that has no hours but those its page permits, nor lets any run into a date that the page closes.
AsPublishedBy(c, p) ==
  \A d \in Int :
    /\ AllowedDay(c, d) => HoursOn(c, d) \subseteq Spans /\ \A t \in Int : Within(HoursOn(c, d), t) => Permits(p, d, t)
    /\ Closes(p, d) => ~AllowedDay(c, d) \/ d \in DOMAIN c.overrides

\* The windows that routing reads.
OpenAt(c, p) ==
  \A d \in Int : \A w \in DayIntervals(c, d) : w \in Spans /\ w[1] < w[2] /\ \A t \in w[1]..(w[2] - 1) : PermitsAt(p, Day * d + t)

\* Clocks after midnight belong to the next date.
LEMMA HalfHours ==
  ASSUME NEW d \in Int, NEW t \in 0..95
  PROVE  /\ t < 48 => (48 * d + t) \div 48 = d /\ (48 * d + t) % 48 = t
         /\ 48 <= t => (48 * d + t) \div 48 = d + 1 /\ (48 * d + t) % 48 = t - 48
OBVIOUS

\* Routing's reading of such a calendar, the cut at midnight included, stays within the page.
LEMMA ReadAsPublished ==
  ASSUME NEW p, NEW c, AsPublishedBy(c, p)
  PROVE  OpenAt(c, p)
<1> SUFFICES ASSUME NEW d \in Int, NEW x \in DayIntervals(c, d)
             PROVE  x \in Spans /\ x[1] < x[2] /\ \A t \in x[1]..(x[2] - 1) : PermitsAt(p, Day * d + t)
  BY DEF OpenAt
<1> DEFINE ends(w) == IF w[2] >= 48 /\ (~AllowedDay(c, d + 1) \/ d + 1 \in DOMAIN c.overrides) THEN 48 ELSE w[2]
<1>1. AllowedDay(c, d) /\ \E w \in HoursOn(c, d) : w[1] < ends(w) /\ x = <<w[1], ends(w)>>
  BY DEF DayIntervals, HoursOn, WeeklyOn, Day
<1>2. PICK w \in HoursOn(c, d) : w[1] < ends(w) /\ x = <<w[1], ends(w)>>
  BY <1>1
<1>3. HoursOn(c, d) \subseteq Spans /\ \A t \in Int : Within(HoursOn(c, d), t) => Permits(p, d, t)
  BY <1>1 DEF AsPublishedBy
<1>4. w[1] \in 0..96 /\ w[2] \in 0..96
  <2>1. w \in (0..96) \X (0..96)
    BY <1>3 DEF Spans, Late, Day
  <2> QED BY <2>1
<1>5. ends(w) \in 0..96 /\ ends(w) <= w[2]
  BY <1>4
<1>6. x \in Spans /\ x[1] = w[1] /\ x[2] = ends(w) /\ x[1] < x[2]
  BY <1>2, <1>4, <1>5 DEF Spans, Late, Day
<1>7. ASSUME NEW t \in x[1]..(x[2] - 1) PROVE PermitsAt(p, Day * d + t)
  <2>1. t \in 0..95 /\ w[1] <= t /\ t < ends(w) /\ t < w[2]
    BY <1>4, <1>5, <1>6
  <2>2. Permits(p, d, t)
    BY <1>3, <2>1 DEF Within
  <2> DEFINE moment == 48 * d + t
  <2>3. CASE t < 48
    <3>1. moment \div 48 = d /\ moment % 48 = t
      BY <2>1, <2>3, HalfHours
    <3> QED BY <2>2, <3>1 DEF PermitsAt, Day
  <2>4. CASE 48 <= t
    <3>1. moment \div 48 = d + 1 /\ moment % 48 = t - 48
      BY <2>1, <2>4, HalfHours
    <3>2. AllowedDay(c, d + 1) /\ d + 1 \notin DOMAIN c.overrides
      BY <1>4, <2>1, <2>4
    <3>3. ~Closes(p, d + 1) /\ d + 1 \in Int
      BY <3>2 DEF AsPublishedBy
    <3>4. (d + 1) - 1 = d /\ (t - 48) + 48 = t
      BY <2>1
    <3> HIDE DEF moment
    <3>5. Permits(p, (moment \div 48) - 1, (moment % 48) + 48)
      BY <2>2, <3>1, <3>4
    <3> QED BY <3>1, <3>3, <3>5 DEF PermitsAt, Day, moment
  <2> QED BY <2>1, <2>3, <2>4
<1> QED BY <1>6, <1>7

\* Only venues and markets close dates by name or by season.
LEMMA OthersClose == ASSUME NEW p, p.source \notin {"venue", "market"}, NEW d PROVE ~Closes(p, d)
BY DEF Closes

\* Dated hours, of which those that are withheld are left out.
LEMMA DatedAsPublished ==
  ASSUME NEW p, NEW c, NEW hours, c.overrides = Dated(hours), c.weekly = {}, \A d \in DOMAIN hours : MadeOf(hours[d], p, d),
         p.source \notin {"venue", "market"}
  PROVE  AsPublishedBy(c, p)
<1> SUFFICES ASSUME NEW d \in Int
             PROVE  /\ HoursOn(c, d) \subseteq Spans /\ \A t \in Int : Within(HoursOn(c, d), t) => Permits(p, d, t)
                    /\ ~Closes(p, d)
  BY DEF AsPublishedBy
<1>1. ~Closes(p, d)
  BY OthersClose
<1>2. CASE d \in DOMAIN c.overrides
  <2>1. d \in DOMAIN hours /\ hours[d] # Held /\ c.overrides[d] = hours[d]
    BY <1>2 DEF Dated
  <2> QED BY <1>1, <1>2, <2>1 DEF HoursOn, MadeOf
<1>3. CASE d \notin DOMAIN c.overrides
  <2>1. HoursOn(c, d) = {}
    BY <1>3 DEF HoursOn, WeeklyOn
  <2> QED BY <1>1, <2>1 DEF Within
<1> QED BY <1>2, <1>3

\* The same hours on each of some weekdays.
WeeklyRows(days, hours) == {[days |-> days, hours |-> w] : w \in hours}
\* On those weekdays exactly.
LEMMA SameWeekly ==
  ASSUME NEW hours, NEW days, NEW d
  PROVE  WeeklyOn(WeeklyRows(days, hours), d) = IF Weekday(d) \in days THEN hours ELSE {}
<1> DEFINE row(w) == [days |-> days, hours |-> w]
<1>1. \A w : row(w).days = days /\ row(w).hours = w
  OBVIOUS
<1>2. WeeklyRows(days, hours) = {row(w) : w \in hours}
  BY DEF WeeklyRows
<1> HIDE DEF row
<1>3. ASSUME NEW w \in hours, Weekday(d) \in days PROVE w \in WeeklyOn(WeeklyRows(days, hours), d)
  <2>1. row(w) \in {x \in WeeklyRows(days, hours) : Weekday(d) \in x.days}
    BY <1>1, <1>2, <1>3
  <2> QED BY <1>1, <2>1 DEF WeeklyOn
<1>4. ASSUME NEW w \in WeeklyOn(WeeklyRows(days, hours), d) PROVE w \in hours /\ Weekday(d) \in days
  BY <1>1, <1>2 DEF WeeklyOn
<1> QED BY <1>3, <1>4

\* What is not withheld is unchanged.
LEMMA OrHeldIs == ASSUME NEW c, OrHeld(c) # Held PROVE OrHeld(c) = c
BY DEF OrHeld

\* Both reviews of the Park Service.
LEMMA NpsAsPublished ==
  ASSUME NEW p, ParkTyped(p), NEW c, c # Held,
         (p.source = "nps" /\ c = FromNps(p)) \/ (p.source = "nps_more" /\ c = FromNpsMore(p))
  PROVE  AsPublishedBy(c, p)
<1>1. ASSUME NEW hours, c = NpsDated(p, hours) PROVE c.overrides = Dated(hours) /\ c.weekly = {}
  <2> DEFINE made == [Blank EXCEPT !.seasons = {Season(FALSE, 0, p.until)}, !.overrides = Dated(hours)]
  <2>1. c = made
    BY <1>1, OrHeldIs DEF NpsDated
  <2>2. made.overrides = Dated(hours) /\ made.weekly = {}
    BY DEF Blank
  <2> QED BY <2>1, <2>2
<1>2. CASE p.source = "nps" /\ c = FromNps(p)
  <2> DEFINE hours == [d \in 0..p.until |-> NpsDay(p, d)]
  <2>1. c.overrides = Dated(hours) /\ c.weekly = {}
    BY <1>1, <1>2 DEF FromNps
  <2>2. \A d \in DOMAIN hours : MadeOf(hours[d], p, d)
    BY <1>2, NpsSays
  <2> HIDE DEF hours
  <2> QED BY <1>2, <2>1, <2>2, DatedAsPublished
<1>3. CASE p.source = "nps_more" /\ c = FromNpsMore(p)
  <2> DEFINE hours == [d \in 0..p.until |-> NpsMoreDay(p, d)]
  <2>1. c.overrides = Dated(hours) /\ c.weekly = {}
    BY <1>1, <1>3 DEF FromNpsMore
  <2>2. \A d \in DOMAIN hours : MadeOf(hours[d], p, d)
    BY <1>3, NpsMoreSays
  <2> HIDE DEF hours
  <2> QED BY <1>3, <2>1, <2>2, DatedAsPublished
<1> QED BY <1>2, <1>3

\* Facilities that were imported without a review.
LEMMA FacilityAsPublished ==
  ASSUME NEW p, p.source = "facility", FacilityTyped(p), NEW c, c = FromFacility(p), c # Held
  PROVE  AsPublishedBy(c, p)
<1> DEFINE hours == [d \in Dates |-> FacilityDay(p, d)]
           made == [Blank EXCEPT !.seasons = {Season(FALSE, 0, Horizon - 1)}, !.overrides = Dated(hours)]
<1>1. c = OrHeld(made) /\ \A i \in DOMAIN p.clocks : ForwardPair(p.clocks[i])
  BY DEF FromFacility
<1>2. c = made
  BY <1>1, OrHeldIs
<1>3. c.overrides = Dated(hours) /\ c.weekly = {}
  BY <1>2 DEF Blank
<1>4. \A d \in DOMAIN hours : MadeOf(hours[d], p, d)
  BY <1>1, FacilitySays
<1> HIDE DEF hours, made
<1> QED BY <1>3, <1>4, DatedAsPublished

-----------------------------------------------------------------------------
(* Forests *)

\* The reviewed feeds, whose literals contain the profile's hours.
LEMMA UsfsAsPublished ==
  ASSUME NEW p, p.source = "usfs", UsfsTyped(p), NEW c, c = FromUsfs(p), c # Held
  PROVE  AsPublishedBy(c, p)
<1> DEFINE days == {d \in Dates : Weekday(d) \in p.profile.days /\ d \notin p.unclear}
<1>1. UsfsQualifies(p) /\ c = [Blank EXCEPT !.overrides = [d \in days |-> {p.profile.hours}]]
  BY DEF FromUsfs
<1>2. c.weekly = {} /\ c.overrides = [d \in days |-> {p.profile.hours}]
  BY <1>1 DEF Blank
<1>3. DOMAIN c.overrides = days /\ \A d \in days : c.overrides[d] = {p.profile.hours}
  BY <1>2
<1>4. ASSUME NEW d \in Int
      PROVE  /\ HoursOn(c, d) \subseteq Spans /\ \A t \in Int : Within(HoursOn(c, d), t) => Permits(p, d, t)
             /\ ~Closes(p, d)
  <2>1. CASE d \in days
    <3>1. HoursOn(c, d) = {p.profile.hours} /\ p.profile.hours \in Spans
      BY <1>3, <2>1 DEF HoursOn, UsfsTyped
    <3>2. ASSUME NEW t \in Int, p.profile.hours[1] <= t, t < p.profile.hours[2], NEW feed \in DOMAIN p.literals
          PROVE  p.status[feed] # "closed" /\ Within(p.literals[feed], t)
      <4>1. p.literals = p.profile.literals /\ p.status[feed] = "open"
        BY <1>1 DEF UsfsQualifies, UsfsTyped
      <4>2. PICK w \in p.profile.literals[feed] \cap Spans : w[1] <= p.profile.hours[1] /\ p.profile.hours[2] <= w[2]
        BY <4>1 DEF UsfsTyped
      <4>3. /\ w[1] \in Int /\ w[2] \in Int /\ p.profile.hours[1] \in Int /\ p.profile.hours[2] \in Int
        BY <3>1, <4>2, Calendars
      <4>4. w[1] <= t /\ t < w[2]
        BY <3>2, <4>2, <4>3
      <4> QED BY <4>1, <4>2, <4>4 DEF Within
    <3>3. \A t \in Int : Within(HoursOn(c, d), t) => Permits(p, d, t)
      BY <2>1, <3>1, <3>2 DEF Within, Permits
    <3> QED BY <3>1, <3>3, OthersClose
  <2>2. CASE d \notin days
    <3>1. HoursOn(c, d) = {}
      BY <1>2, <1>3, <2>2 DEF HoursOn, WeeklyOn
    <3> QED BY <3>1, OthersClose DEF Within
  <2> QED BY <2>1, <2>2
<1> QED BY <1>4 DEF AsPublishedBy

\* The current facilities.
LEMMA UsfsCurrentAsPublished ==
  ASSUME NEW p, p.source = "usfs_current", UsfsCurrentTyped(p), NEW c, c = FromUsfsCurrent(p), c # Held
  PROVE  AsPublishedBy(c, p)
<1> DEFINE hours == Narrow(p.literals.construction, p.literals.public)
           weekly == WeeklyRows(Weekdays, hours)
<1>1. StatesOpen(p) /\ hours # Held /\ c = [Blank EXCEPT !.weekly = weekly, !.seasons = {Season(FALSE, 0, Horizon - 1)}]
  BY DEF FromUsfsCurrent, WeeklyRows
<1>2. c.overrides = <<>> /\ c.weekly = weekly /\ c.seasons = {Season(FALSE, 0, Horizon - 1)} /\ DOMAIN c.overrides = {}
  BY <1>1 DEF Blank
<1>3. DOMAIN p.literals = {"construction", "public"} /\ Stated(p.literals["construction"]) /\ Stated(p.literals["public"])
  BY DEF UsfsCurrentTyped, Stated
<1>4. /\ hours \subseteq Spans
      /\ \A t \in Int : Within(hours, t) => Within(p.literals["construction"], t) /\ Within(p.literals["public"], t)
  BY <1>1, <1>3, NarrowWithin DEF Stated
<1>5. p.status["construction"] # "closed" /\ p.status["public"] # "closed"
  BY <1>1 DEF StatesOpen
<1> HIDE DEF hours
<1>6. ASSUME NEW d \in Int, AllowedDay(c, d)
      PROVE  HoursOn(c, d) \subseteq Spans /\ \A t \in Int : Within(HoursOn(c, d), t) => Permits(p, d, t)
  <2>1. HoursOn(c, d) = hours
    <3>1. HoursOn(c, d) = WeeklyOn(weekly, d)
      BY <1>2 DEF HoursOn
    <3>2. Weekday(d) \in Weekdays
      BY Calendars
    <3> QED BY <3>1, <3>2, SameWeekly
  <2>2. d \in Dates
    <3>1. Includes(Season(FALSE, 0, Horizon - 1), d)
      BY <1>2, <1>6 DEF AllowedDay
    <3> QED BY <3>1, Calendars DEF Includes, Season, Dates
  <2>3. ASSUME NEW t \in Int, Within(hours, t) PROVE Permits(p, d, t)
    <3>1. \A feed \in DOMAIN p.literals : p.status[feed] # "closed" /\ Within(p.literals[feed], t)
      BY <1>3, <1>4, <1>5, <2>3
    <3> QED BY <2>2, <3>1 DEF Permits
  <2> QED BY <1>4, <2>1, <2>3
<1> QED BY <1>6, OthersClose DEF AsPublishedBy

-----------------------------------------------------------------------------
(* Parks of operators, museums and shores *)

\* Calendars of single dates, and of weekdays: what has to be shown of each.
LEMMA OverridesAsPublished ==
  ASSUME NEW p, p.source \notin {"venue", "market"}, NEW c, c.weekly = {},
         \A d \in Int \cap DOMAIN c.overrides :
           c.overrides[d] \subseteq Spans /\ \A t \in Int : Within(c.overrides[d], t) => Permits(p, d, t)
  PROVE  AsPublishedBy(c, p)
<1>1. ASSUME NEW d \in Int
      PROVE  HoursOn(c, d) \subseteq Spans /\ \A t \in Int : Within(HoursOn(c, d), t) => Permits(p, d, t)
  <2>1. CASE d \in DOMAIN c.overrides
    BY <2>1 DEF HoursOn
  <2>2. CASE d \notin DOMAIN c.overrides
    BY <2>2 DEF HoursOn, WeeklyOn, Within
  <2> QED BY <2>1, <2>2
<1> QED BY <1>1, OthersClose DEF AsPublishedBy

\* Weekly hours within a season, with dated closures only.
LEMMA WeeklyAsPublished ==
  ASSUME NEW p, p.source \notin {"venue", "market"}, NEW c, \A d \in DOMAIN c.overrides : c.overrides[d] = {},
         \A d \in Int : AllowedDay(c, d) =>
           WeeklyOn(c.weekly, d) \subseteq Spans /\ \A t \in Int : Within(WeeklyOn(c.weekly, d), t) => Permits(p, d, t)
  PROVE  AsPublishedBy(c, p)
<1>1. ASSUME NEW d \in Int, AllowedDay(c, d)
      PROVE  HoursOn(c, d) = WeeklyOn(c.weekly, d)
  BY <1>1 DEF HoursOn, AllowedDay
<1> QED BY <1>1, OthersClose DEF AsPublishedBy

\* Hours cut by negative entries.
LEMMA EntriesAsPublished ==
  ASSUME NEW p, p.source = "entries", IsList(p.entries), \A e \in Range(p.entries) : e.hours \in Spans,
         NEW c, c = FromEntries(p), c # Unresolved
  PROVE  AsPublishedBy(c, p)
<1> DEFINE wide == {e \in Range(p.entries) : e.featured}
           stated(kind, d) == {e.hours : e \in {x \in wide : x.date = d /\ x.kind = kind}}
           says(e, d) == IF e \in wide /\ e.date = d /\ e.kind = "closed" THEN Around(e.hours) ELSE Silent
           s(d) == [i \in DOMAIN p.entries |-> says(p.entries[i], d)]
           remaining(d) == Shared(stated("open", d), s(d))
           days == {e.date : e \in wide}
           open == {x \in days : remaining(x) # {} \/ <<0, Day>> \in stated("closed", x)}
<1>1. c = [Blank EXCEPT !.overrides = [d \in open |-> remaining(d)]]
  BY DEF FromEntries
<1>2. c.weekly = {} /\ c.overrides = [d \in open |-> remaining(d)]
  BY <1>1 DEF Blank
<1>3. DOMAIN c.overrides = open /\ \A d \in open : c.overrides[d] = remaining(d)
  BY <1>2
<1> HIDE DEF open
<1>4. ASSUME NEW d \in Int
      PROVE  remaining(d) \subseteq Spans /\ \A t \in Int : Within(remaining(d), t) => Permits(p, d, t)
  <2>1. stated("open", d) \subseteq Spans
    OBVIOUS
  <2>2. ASSUME NEW e \in Range(p.entries)
        PROVE  /\ Around(e.hours) \subseteq Spans
               /\ \A t \in Int : Within(Around(e.hours), t) => ~(e.hours[1] <= t /\ t < e.hours[2])
    <3>1. e.hours \in (0..96) \X (0..96)
      BY DEF Spans, Late, Day
    <3>2. e.hours[1] \in 0..96 /\ e.hours[2] \in 0..96
      BY <3>1
    <3> QED BY <3>2 DEF Around, Spans, Late, Day, Within
  <2>3. \A i \in DOMAIN p.entries : p.entries[i] \in Range(p.entries)
    BY DEF Range
  <2>4. DOMAIN s(d) = DOMAIN p.entries /\ \A i \in DOMAIN p.entries : s(d)[i] \subseteq Spans
    BY <2>2, <2>3, Calendars
  <2>5. /\ remaining(d) \subseteq Spans
        /\ \A t \in Int : Within(remaining(d), t) => Within(stated("open", d), t) /\ \A i \in DOMAIN p.entries : Within(s(d)[i], t)
    <3> HIDE DEF s, stated
    <3>1. /\ Shared(stated("open", d), s(d)) \subseteq Spans
          /\ \A t \in Int : Within(Shared(stated("open", d), s(d)), t) =>
               Within(stated("open", d), t) /\ \A i \in DOMAIN s(d) : Within(s(d)[i], t)
      BY <2>1, <2>4, SharedWithin
    <3> QED BY <2>4, <3>1
  <2>6. ASSUME NEW t \in Int, Within(remaining(d), t) PROVE Permits(p, d, t)
    <3>1. Within(stated("open", d), t) /\ \A i \in DOMAIN p.entries : Within(s(d)[i], t)
      BY <2>5, <2>6
    <3> HIDE DEF remaining
    <3>2. ASSUME NEW e \in Range(p.entries), e.featured, e.kind = "closed", e.date = d
          PROVE  ~(e.hours[1] <= t /\ t < e.hours[2])
      <4>1. PICK i \in DOMAIN p.entries : e = p.entries[i]
        BY DEF Range
      <4>2. s(d)[i] = Around(e.hours)
        BY <3>2, <4>1
      <4> QED BY <2>2, <3>1, <4>1, <4>2
    <3>3. ~Within(stated("closed", d), t)
      BY <3>2 DEF Within
    <3>4. \A kind : stated(kind, d) = {e.hours : e \in {x \in Range(p.entries) : x.featured /\ x.kind = kind /\ x.date = d}}
      OBVIOUS
    <3> HIDE DEF stated
    <3>5. /\ Within({e.hours : e \in {x \in Range(p.entries) : x.featured /\ x.kind = "open" /\ x.date = d}}, t)
          /\ ~Within({e.hours : e \in {x \in Range(p.entries) : x.featured /\ x.kind = "closed" /\ x.date = d}}, t)
      BY <3>1, <3>3, <3>4
    <3> QED BY <3>5 DEF Permits
  <2> QED BY <2>5, <2>6
<1> HIDE DEF remaining
<1> QED BY <1>2, <1>3, <1>4, OverridesAsPublished

\* The reviewed table of an operator.
LEMMA TableAsPublished ==
  ASSUME NEW p, p.source = "table", \A row \in p.rows : row.hours \in Spans, NEW c, c = FromTable(p), c # Unresolved, ~c.unknown
  PROVE  AsPublishedBy(c, p)
<1> DEFINE seasons == {Season(TRUE, (y + 1) % Year, (y - 1) % Year) : y \in p.closures}
<1>1. c = [Blank EXCEPT !.weekly = p.rows, !.unknown = p.ambiguous, !.closures = p.closures, !.seasons = seasons]
  BY DEF FromTable
<1>2. c.weekly = p.rows /\ c.unknown = p.ambiguous /\ c.closures = p.closures /\ DOMAIN c.overrides = {}
  BY <1>1 DEF Blank
<1>3. ASSUME NEW d \in Int, AllowedDay(c, d)
      PROVE  WeeklyOn(p.rows, d) \subseteq Spans /\ \A t \in Int : Within(WeeklyOn(p.rows, d), t) => Permits(p, d, t)
  <2>1. YearDay(d) \notin p.closures /\ ~p.ambiguous
    BY <1>2, <1>3 DEF AllowedDay
  <2>2. WeeklyOn(p.rows, d) \subseteq Spans
    BY DEF WeeklyOn
  <2>3. ASSUME NEW t, Within(WeeklyOn(p.rows, d), t) PROVE Permits(p, d, t)
    BY <2>1, <2>3 DEF WeeklyOn, Permits
  <2> QED BY <2>2, <2>3
<1> QED BY <1>2, <1>3, WeeklyAsPublished

\* One daily statement, of a park or of a shore.
LEMMA DailyAsPublished ==
  ASSUME NEW p, p.hours \in Spans, NEW c, c # Held,
         (p.source = "daily" /\ c = FromDaily(p)) \/ (p.source = "shore" /\ c = FromShore(p))
  PROVE  AsPublishedBy(c, p)
<1> DEFINE weekly == WeeklyRows(Weekdays, {p.hours})
<1>1. c = [Blank EXCEPT !.weekly = weekly] /\ (p.source = "shore" => ~p.closed)
  <2>1. weekly = {[days |-> Weekdays, hours |-> p.hours]}
    BY DEF WeeklyRows
  <2> QED BY <2>1 DEF FromDaily, FromShore
<1>2. c.weekly = weekly /\ DOMAIN c.overrides = {}
  BY <1>1 DEF Blank
<1>3. ASSUME NEW d \in Int
      PROVE  WeeklyOn(c.weekly, d) \subseteq Spans /\ \A t \in Int : Within(WeeklyOn(c.weekly, d), t) => Permits(p, d, t)
  <2>1. WeeklyOn(c.weekly, d) = {p.hours}
    <3>1. Weekday(d) \in Weekdays
      BY Calendars
    <3> QED BY <1>2, <3>1, SameWeekly
  <2> QED BY <1>1, <2>1 DEF Permits
<1> QED BY <1>2, <1>3, WeeklyAsPublished

\* A dated grid, cut by the weekly footer.
LEMMA GridAsPublished ==
  ASSUME NEW p, p.source = "grid", NEW c, c = FromGrid(p), c # Held,
         \A d \in DOMAIN p.grid : p.grid[d].is \in {"shut", "clocks"} /\ {p.grid[d].from, p.grid[d].to, p.footer[Weekday(d)]} \subseteq 0..Late
  PROVE  AsPublishedBy(c, p)
<1> DEFINE shown(d) == {<<p.grid[d].from, p.grid[d].to>>}
           footer(d) == {<<p.grid[d].from, p.footer[Weekday(d)]>>}
           hours(d) == IF p.grid[d].is = "shut" THEN {} ELSE Common(shown(d), footer(d))
<1>1. c = [Blank EXCEPT !.overrides = [d \in DOMAIN p.grid |-> hours(d)]]
  BY DEF FromGrid
<1>2. c.weekly = {} /\ c.overrides = [d \in DOMAIN p.grid |-> hours(d)]
  BY <1>1 DEF Blank
<1>3. ASSUME NEW d \in DOMAIN p.grid PROVE hours(d) \subseteq Spans /\ \A t \in Int : Within(hours(d), t) => Permits(p, d, t)
  <2>1. CASE p.grid[d].is = "shut"
    BY <2>1 DEF Within
  <2>2. CASE p.grid[d].is # "shut"
    <3>1. shown(d) \subseteq Spans /\ footer(d) \subseteq Spans /\ p.grid[d].is = "clocks"
      BY <2>2 DEF Spans
    <3>2. \A t \in Int : Within(shown(d), t) /\ Within(footer(d), t) => Permits(p, d, t)
      BY <3>1 DEF Within, Permits
    <3> HIDE DEF shown, footer
    <3> QED BY <2>2, <3>1, <3>2, CommonWithin
  <2> QED BY <2>1, <2>2
<1> HIDE DEF hours
<1>4. DOMAIN c.overrides = DOMAIN p.grid /\ \A d \in DOMAIN p.grid : c.overrides[d] = hours(d)
  BY <1>2
<1> QED BY <1>2, <1>3, <1>4, OverridesAsPublished

\* The sessions of the months that are named.
LEMMA SessionsAsPublished ==
  ASSUME NEW p, p.source = "sessions", NEW c, c = FromSessions(p), c # Held,
         \A w \in Weekdays : p.general[w] \subseteq Spans, \A d \in DOMAIN p.special : p.special[d] \subseteq Spans
  PROVE  AsPublishedBy(c, p)
<1> DEFINE slots(d) == IF d \in DOMAIN p.special THEN p.special[d] ELSE p.general[Weekday(d)]
           days == {x \in p.months : slots(x) # {}}
<1>1. c = [Blank EXCEPT !.overrides = [d \in days |-> slots(d)]]
  BY DEF FromSessions
<1>2. c.weekly = {} /\ DOMAIN c.overrides = days /\ \A d \in days : c.overrides[d] = slots(d)
  BY <1>1 DEF Blank
<1>3. ASSUME NEW d \in Int \cap days PROVE slots(d) \subseteq Spans /\ \A t \in Int : Within(slots(d), t) => Permits(p, d, t)
  BY Calendars DEF Permits
<1> HIDE DEF slots, days
<1> QED BY <1>2, <1>3, OverridesAsPublished

\* Events under the date of their title.
LEMMA EventsAsPublished ==
  ASSUME NEW p, p.source = "events", NEW c, c = FromEvents(p), c # Held,
         \A e \in p.entries : e.kind \in {"open", "closed"} /\ e.hours \in Spans
  PROVE  AsPublishedBy(c, p)
<1> DEFINE titled == {e \in p.entries : e.title = e.date}
           windows(e) == IF e.kind = "closed" THEN {} ELSE {<<e.hours[1], Day>>}
           hours(d) == UNION {windows(e) : e \in {x \in titled : x.date = d}}
           days == {e.date : e \in titled}
<1>1. c = [Blank EXCEPT !.overrides = [d \in days |-> hours(d)]]
  BY DEF FromEvents
<1>2. c.weekly = {} /\ c.overrides = [d \in days |-> hours(d)]
  BY <1>1 DEF Blank
<1>3. DOMAIN c.overrides = days /\ \A d \in days : c.overrides[d] = hours(d)
  BY <1>2
<1>4. ASSUME NEW d PROVE hours(d) \subseteq Spans /\ \A t \in Int : Within(hours(d), t) => Permits(p, d, t)
  <2>1. ASSUME NEW w \in hours(d) PROVE \E e \in p.entries : e.date = d /\ e.title = d /\ e.kind = "open" /\ w = <<e.hours[1], Day>>
    <3>1. PICK e \in titled : e.date = d /\ w \in windows(e)
      OBVIOUS
    <3> QED BY <3>1
  <2>2. ASSUME NEW e \in p.entries PROVE <<e.hours[1], Day>> \in Spans
    <3>1. e.hours \in (0..96) \X (0..96)
      BY DEF Spans, Late, Day
    <3>2. e.hours[1] \in 0..96
      BY <3>1
    <3> QED BY <3>2 DEF Spans, Late, Day
  <2>3. hours(d) \subseteq Spans
    BY <2>1, <2>2
  <2>4. ASSUME NEW t \in Int, NEW w \in hours(d), w[1] <= t, t < w[2] PROVE Permits(p, d, t)
    <3>1. PICK e \in p.entries : e.date = d /\ e.title = d /\ e.kind = "open" /\ w = <<e.hours[1], Day>>
      BY <2>1
    <3>2. e.hours[1] <= t /\ t < Day
      BY <2>4, <3>1
    <3> QED BY <3>1, <3>2 DEF Permits
  <2> HIDE DEF hours
  <2> QED BY <2>3, <2>4 DEF Within
<1> HIDE DEF hours, days
<1> QED BY <1>2, <1>3, <1>4, OverridesAsPublished

\* One affirmed date.
LEMMA EventAsPublished ==
  ASSUME NEW p, p.source = "event", p.hours \in Spans, NEW c, c = FromEvent(p), c # Held
  PROVE  AsPublishedBy(c, p)
<1>1. c = [Blank EXCEPT !.overrides = [d \in {p.date} |-> {p.hours}], !.seasons = {Season(FALSE, p.date, p.date)}]
  BY DEF FromEvent
<1>2. c.weekly = {} /\ DOMAIN c.overrides = {p.date} /\ c.overrides[p.date] = {p.hours}
  BY <1>1 DEF Blank
<1>3. ASSUME NEW d \in Int \cap DOMAIN c.overrides
      PROVE  c.overrides[d] \subseteq Spans /\ \A t \in Int : Within(c.overrides[d], t) => Permits(p, d, t)
  <2>1. d = p.date /\ c.overrides[d] = {p.hours}
    BY <1>2
  <2>2. \A t : Within({p.hours}, t) => Permits(p, d, t)
    BY <2>1 DEF Permits
  <2> QED BY <2>1, <2>2
<1>4. p.source \notin {"venue", "market"}
  OBVIOUS
<1> QED BY <1>2, <1>3, <1>4, OverridesAsPublished

\* The month of the acquisition.
LEMMA MonthAsPublished ==
  ASSUME NEW p, p.source = "month", {p.month[1], p.month[2]} \subseteq Int, \A w \in Weekdays : p.shown[w] \in Spans,
         NEW c, c = FromMonth(p), c # Held
  PROVE  AsPublishedBy(c, p)
<1> DEFINE row(w) == [days |-> {w}, hours |-> p.shown[w]]
           weekly == {row(w) : w \in Weekdays}
<1>1. p.shown = p.schema /\ c = [Blank EXCEPT !.weekly = weekly, !.seasons = {Season(FALSE, p.month[1], p.month[2])}]
  BY DEF FromMonth
<1>2. c.weekly = weekly /\ c.seasons = {Season(FALSE, p.month[1], p.month[2])} /\ DOMAIN c.overrides = {}
  BY <1>1 DEF Blank
<1>3. ASSUME NEW d \in Int, AllowedDay(c, d)
      PROVE  WeeklyOn(weekly, d) \subseteq Spans /\ \A t \in Int : Within(WeeklyOn(weekly, d), t) => Permits(p, d, t)
  <2>1. ASSUME NEW w \in WeeklyOn(weekly, d) PROVE w = p.shown[Weekday(d)]
    <3>1. \A x : row(x).days = {x} /\ row(x).hours = p.shown[x]
      OBVIOUS
    <3> HIDE DEF row
    <3> QED BY <3>1 DEF WeeklyOn
  <2>2. Weekday(d) \in Weekdays
    BY Calendars
  <2>3. d \in p.month[1]..p.month[2]
    <3>1. Includes(Season(FALSE, p.month[1], p.month[2]), d)
      BY <1>2, <1>3 DEF AllowedDay
    <3> QED BY <3>1 DEF Includes, Season
  <2>4. ASSUME NEW t, Within(WeeklyOn(weekly, d), t) PROVE Permits(p, d, t)
    <3>1. Within({p.shown[Weekday(d)]}, t)
      BY <2>1, <2>4 DEF Within
    <3> QED BY <1>1, <2>3, <3>1 DEF Permits
  <2> QED BY <2>1, <2>2, <2>4
<1> QED BY <1>2, <1>3, WeeklyAsPublished

\* The days and hours on which feeds and operator agree.
LEMMA GalleryAsPublished ==
  ASSUME NEW p, p.source = "gallery", IsList(p.feeds), \A feed \in Range(p.feeds) : feed.hours \in Spans,
         NEW c, c = FromGallery(p), c # Held
  PROVE  AsPublishedBy(c, p)
<1> DEFINE days == {w \in Weekdays : \A feed \in Range(p.feeds) : w \in feed.days}
           s == [i \in DOMAIN p.feeds |-> {p.feeds[i].hours}]
           hours == Shared(AllDay, s)
           weekly == WeeklyRows(days, hours)
<1>1. c = [Blank EXCEPT !.weekly = weekly, !.overrides = [d \in p.shut |-> {}]]
  BY DEF FromGallery, WeeklyRows
<1>2. c.weekly = weekly /\ DOMAIN c.overrides = p.shut /\ \A d \in p.shut : c.overrides[d] = {}
  BY <1>1 DEF Blank
<1>3. \A i \in DOMAIN p.feeds : p.feeds[i] \in Range(p.feeds) /\ s[i] = {p.feeds[i].hours} /\ s[i] \subseteq Spans
  BY DEF Range
<1>4. DOMAIN s = DOMAIN p.feeds /\ AllDay \subseteq Spans
  BY Calendars
<1> HIDE DEF s
<1>5. hours \subseteq Spans /\ \A t \in Int : Within(hours, t) => Within(AllDay, t) /\ \A i \in DOMAIN s : Within(s[i], t)
  BY <1>3, <1>4, SharedWithin
<1> HIDE DEF hours
<1>6. ASSUME NEW d \in Int, AllowedDay(c, d)
      PROVE  WeeklyOn(weekly, d) \subseteq Spans /\ \A t \in Int : Within(WeeklyOn(weekly, d), t) => Permits(p, d, t)
  <2>1. WeeklyOn(weekly, d) = IF Weekday(d) \in days THEN hours ELSE {}
    BY SameWeekly
  <2>2. d \notin p.shut
    BY <1>2, <1>6 DEF AllowedDay
  <2>3. ASSUME NEW t \in Int, Within(hours, t), Weekday(d) \in days PROVE Permits(p, d, t)
    <3>1. ASSUME NEW feed \in Range(p.feeds) PROVE Weekday(d) \in feed.days /\ Within({feed.hours}, t)
      <4>1. PICK i \in DOMAIN p.feeds : feed = p.feeds[i]
        BY DEF Range
      <4>2. Within(s[i], t) /\ s[i] = {feed.hours}
        BY <1>3, <1>4, <1>5, <2>3, <4>1
      <4> QED BY <2>3, <4>2
    <3> QED BY <2>2, <3>1 DEF Permits
  <2>4. WeeklyOn(weekly, d) = {} => \A t \in Int : ~Within(WeeklyOn(weekly, d), t)
    BY DEF Within
  <2> HIDE DEF days, weekly
  <2> QED BY <1>5, <2>1, <2>3, <2>4
<1> QED BY <1>2, <1>6, WeeklyAsPublished

-----------------------------------------------------------------------------
(* Markets and venues *)

\* What a function takes on a finite set is finite.
LEMMA FiniteRange ==
  ASSUME NEW f, IsFiniteSet(DOMAIN f)
  PROVE  IsFiniteSet({f[x] : x \in DOMAIN f})
<1>1. [x \in DOMAIN f |-> f[x]] \in Surjection(DOMAIN f, {f[x] : x \in DOMAIN f})
  BY DEF Surjection
<1> QED BY <1>1, FS_Surjection

\* Of finitely many elements in a strict order, one has none after it.
LEMMA Extreme ==
  ASSUME NEW S, IsFiniteSet(S), S # {}, NEW R \in SUBSET (S \X S), \A x \in S : <<x, x>> \notin R,
         \A x, y, z \in S : <<x, y>> \in R /\ <<y, z>> \in R => <<x, z>> \in R
  PROVE  \E x \in S : \A y \in S : <<x, y>> \notin R
<1> DEFINE after(x) == {y \in S : <<x, y>> \in R}
           N == {Cardinality(after(x)) : x \in S}
<1>1. \A x \in S : IsFiniteSet(after(x)) /\ Cardinality(after(x)) \in Nat
  <2>1. \A x \in S : IsFiniteSet(after(x))
    BY FS_Subset
  <2> HIDE DEF after
  <2> QED BY <2>1, FS_CardinalityType
<1>2. PICK m \in N : \A j \in N : m <= j
  <2> HIDE DEF after
  <2>1. N \in SUBSET Nat /\ N # {}
    BY <1>1
  <2> HIDE DEF N
  <2> QED BY <2>1, LeastNumber
<1>3. PICK x \in S : m = Cardinality(after(x))
  OBVIOUS
<1>4. ASSUME NEW y \in S, <<x, y>> \in R PROVE FALSE
  <2>1. after(y) \subseteq after(x) /\ y \in after(x) /\ y \notin after(y)
    BY <1>4
  <2>2. Cardinality(after(x)) <= Cardinality(after(y))
    <3> HIDE DEF after
    <3> QED BY <1>2, <1>3
  <2> HIDE DEF after
  <2>3. /\ Cardinality(after(y)) <= Cardinality(after(x))
        /\ Cardinality(after(x)) = Cardinality(after(y)) => after(x) = after(y)
    BY <1>1, <2>1, FS_Subset
  <2> QED BY <1>1, <2>1, <2>2, <2>3
<1> QED BY <1>4

\* A finite set of dates has a last and a first one.
LEMMA LastAndFirst ==
  ASSUME NEW S, IsFiniteSet(S), S # {}, S \subseteq Int
  PROVE  /\ Max(S) \in S /\ \A y \in S : Max(S) >= y
         /\ Min(S) \in S /\ \A y \in S : Min(S) <= y
<1> DEFINE before == {r \in S \X S : r[1] < r[2]}
           after == {r \in S \X S : r[2] < r[1]}
<1>1. \A x, y \in S : (<<x, y>> \in before <=> x < y) /\ (<<x, y>> \in after <=> y < x)
  OBVIOUS
<1>2. before \in SUBSET (S \X S) /\ after \in SUBSET (S \X S)
  OBVIOUS
<1> HIDE DEF before, after
<1>3. \E x \in S : \A y \in S : x >= y
  <2>1. \A x \in S : <<x, x>> \notin before
    BY <1>1
  <2>2. \A x, y, z \in S : <<x, y>> \in before /\ <<y, z>> \in before => <<x, z>> \in before
    BY <1>1
  <2>3. PICK x \in S : \A y \in S : <<x, y>> \notin before
    BY <1>2, <2>1, <2>2, Extreme
  <2>4. ASSUME NEW y \in S PROVE x >= y
    <3>1. x \in Int /\ y \in Int /\ ~(x < y)
      BY <1>1, <2>3
    <3> QED BY <3>1
  <2> QED BY <2>4
<1>4. \E x \in S : \A y \in S : x <= y
  <2>1. \A x \in S : <<x, x>> \notin after
    BY <1>1
  <2>2. \A x, y, z \in S : <<x, y>> \in after /\ <<y, z>> \in after => <<x, z>> \in after
    BY <1>1
  <2>3. PICK x \in S : \A y \in S : <<x, y>> \notin after
    BY <1>2, <2>1, <2>2, Extreme
  <2>4. ASSUME NEW y \in S PROVE x <= y
    <3>1. x \in Int /\ y \in Int /\ ~(y < x)
      BY <1>1, <2>3
    <3> QED BY <3>1
  <2> QED BY <2>4
<1> QED BY <1>3, <1>4 DEF Max, Min

\* What all seasons of a market have in common.
LEMMA SeasonsWithin ==
  ASSUME NEW S, IsFiniteSet(S), \A s \in S : {s.from, s.to} \subseteq Int,
         NEW season \in MarketSeasons(S), NEW d \in Int, Includes(season, d)
  PROVE  \A s \in S : Includes(s, d)
<1> DEFINE annual == {y \in 0..(Year - 1) : \A s \in S : s.annual => WithinYear(<<s.from, s.to>>, y)}
           dated == {s \in S : ~s.annual}
           days == {x \in Max({s.from : s \in dated})..Min({s.to : s \in dated}) : YearDay(x) \in annual}
<1>1. YearDay(d) \in annual => \A s \in S : s.annual => Includes(s, d)
  BY DEF Includes
<1>2. CASE dated = {}
  <2>1. PICK r \in Segments(annual) : season = Season(TRUE, r[1], r[2])
    BY <1>2 DEF MarketSeasons
  <2>2. r \in annual \X annual /\ r[1] <= r[2] /\ r[1]..r[2] \subseteq annual
    BY <2>1 DEF Segments
  <2>3. r[1] \in Int /\ r[2] \in Int /\ YearDay(d) \in Int
    BY <2>2, Calendars
  <2>4. YearDay(d) \in r[1]..r[2]
    BY <2>1, <2>2, <2>3 DEF Includes, Season, WithinYear
  <2> QED BY <1>1, <1>2, <2>2, <2>4
<1>3. CASE dated # {}
  <2> DEFINE froms == {s.from : s \in dated}
             tos == {s.to : s \in dated}
  <2>1. PICK r \in Segments(days) : season = Season(FALSE, r[1], r[2])
    BY <1>3 DEF MarketSeasons
  <2>2. r \in days \X days /\ r[1]..r[2] \subseteq days
    BY <2>1 DEF Segments
  <2>3. IsFiniteSet(dated)
    BY FS_Subset
  <2>4. IsFiniteSet(froms) /\ IsFiniteSet(tos)
    <3> HIDE DEF dated
    <3> DEFINE from == [s \in dated |-> s.from]
               to == [s \in dated |-> s.to]
    <3>1. DOMAIN from = dated /\ DOMAIN to = dated /\ froms = {from[s] : s \in dated} /\ tos = {to[s] : s \in dated}
      OBVIOUS
    <3> HIDE DEF from, to, froms, tos
    <3> QED BY <2>3, <3>1, FiniteRange
  <2>5. froms # {} /\ tos # {} /\ froms \subseteq Int /\ tos \subseteq Int
    BY <1>3
  <2>6. Max(froms) \in Int /\ Min(tos) \in Int /\ \A s \in dated : s.from <= Max(froms) /\ Min(tos) <= s.to
    <3>1. Max(froms) \in froms /\ \A y \in froms : Max(froms) >= y
      BY <2>4, <2>5, LastAndFirst
    <3>2. Min(tos) \in tos /\ \A y \in tos : Min(tos) <= y
      BY <2>4, <2>5, LastAndFirst
    <3>3. \A s \in dated : s.from \in froms /\ s.to \in tos
      OBVIOUS
    <3> HIDE DEF froms, tos
    <3> QED BY <2>5, <3>1, <3>2, <3>3
  <2>7. r[1] \in Int /\ r[2] \in Int
    BY <2>2, <2>6
  <2>8. d \in r[1]..r[2]
    BY <2>1, <2>7 DEF Includes, Season
  <2>9. d \in Max(froms)..Min(tos) /\ YearDay(d) \in annual
    BY <2>2, <2>8
  <2>10. ASSUME NEW s \in dated PROVE Includes(s, d)
    <3>1. s.from \in Int /\ s.to \in Int
      OBVIOUS
    <3> HIDE DEF froms, tos
    <3> QED BY <2>6, <2>9, <3>1 DEF Includes
  <2> QED BY <1>1, <2>9, <2>10
<1> QED BY <1>2, <1>3

\* One day of a market whose season includes it.
LEMMA MarketWithin ==
  ASSUME NEW p, MarketTyped(p), FromMarket(p) # Unresolved, NEW d \in Int, NEW season \in FromMarket(p).seasons, Includes(season, d)
  PROVE  /\ WeeklyOn(FromMarket(p).weekly, d) \subseteq Spans
         /\ \A t \in Int : Within(WeeklyOn(FromMarket(p).weekly, d), t) => MarketPermits(p, d, t)
         /\ \A f \in p.facts : \A s \in f.seasons : Includes(s, d)
<1> DEFINE days == {w \in Weekdays : \A f \in p.facts : \A listed \in f.days : w \in listed}
           clocks == UNION {f.clocks : f \in p.facts}
           starts == {w[1] : w \in clocks}
           ends == {w[2] : w \in clocks}
           opens == Max(starts)
           closes == Min(ends)
           stated == UNION {f.seasons : f \in p.facts}
           official == {f \in p.facts : f.official}
           made == [Blank EXCEPT !.weekly = {[days |-> days, hours |-> <<opens, closes>>]}, !.seasons = MarketSeasons(stated)]
<1>1. FromMarket(p) = made /\ \E f \in official : f.clocks # {}
  BY DEF FromMarket
<1>2. made.weekly = {[days |-> days, hours |-> <<opens, closes>>]} /\ made.seasons = MarketSeasons(stated)
  BY DEF Blank
<1>3. IsFiniteSet(stated) /\ \A s \in stated : {s.from, s.to} \subseteq Int
  <2>1. IsFiniteSet({f.seasons : f \in p.facts})
    <3> DEFINE of == [f \in p.facts |-> f.seasons]
    <3>1. DOMAIN of = p.facts /\ {f.seasons : f \in p.facts} = {of[f] : f \in p.facts}
      OBVIOUS
    <3>2. IsFiniteSet(p.facts)
      BY DEF MarketTyped
    <3> HIDE DEF of
    <3> QED BY <3>1, <3>2, FiniteRange
  <2>2. \A T \in {f.seasons : f \in p.facts} : IsFiniteSet(T)
    BY DEF MarketTyped
  <2>3. IsFiniteSet(stated)
    BY <2>1, <2>2, FS_UNION
  <2> QED BY <2>3 DEF MarketTyped
<1>4. \A s \in stated : Includes(s, d)
  <2> HIDE DEF stated, made
  <2>1. season \in MarketSeasons(stated)
    BY <1>1, <1>2
  <2> QED BY <1>3, <2>1, SeasonsWithin
<1>5. opens \in 0..96 /\ closes \in 0..96 /\ \A f \in p.facts : \A w \in f.clocks : w[1] <= opens /\ closes <= w[2] /\ w[1] \in Int /\ w[2] \in Int
  <2>1. clocks \subseteq (0..96) \X (0..96) /\ clocks # {}
    BY <1>1 DEF MarketTyped, Spans, Late, Day
  <2> HIDE DEF clocks
  <2>2. starts # {} /\ starts \subseteq 0..96 /\ ends # {} /\ ends \subseteq 0..96
    BY <2>1
  <2>3. IsFiniteSet(0..96)
    <3>1. 0 \in Int /\ 96 \in Int
      OBVIOUS
    <3> QED BY <3>1, FS_Interval, Zenon
  <2>4. IsFiniteSet(starts) /\ IsFiniteSet(ends) /\ starts \subseteq Int /\ ends \subseteq Int
    <3> HIDE DEF starts, ends
    <3>1. starts \in SUBSET (0..96) /\ ends \in SUBSET (0..96) /\ 0..96 \subseteq Int
      BY <2>2
    <3>2. \A T \in SUBSET (0..96) : IsFiniteSet(T)
      BY <2>3, FS_Subset
    <3> QED BY <3>1, <3>2
  <2>5. opens \in starts /\ \A y \in starts : opens >= y
    BY <2>2, <2>4, LastAndFirst
  <2>6. closes \in ends /\ \A y \in ends : closes <= y
    BY <2>2, <2>4, LastAndFirst
  <2>7. ASSUME NEW f \in p.facts, NEW w \in f.clocks PROVE w[1] \in starts /\ w[2] \in ends
    BY DEF clocks
  <2> HIDE DEF starts, ends
  <2> QED BY <2>2, <2>4, <2>5, <2>6, <2>7
<1> HIDE DEF opens, closes, days, stated
<1>6. WeeklyOn(made.weekly, d) = IF Weekday(d) \in days THEN {<<opens, closes>>} ELSE {}
  <2>1. made.weekly = WeeklyRows(days, {<<opens, closes>>})
    BY <1>2 DEF WeeklyRows
  <2> QED BY <2>1, SameWeekly
<1>7. <<opens, closes>> \in Spans
  BY <1>5 DEF Spans, Late, Day
<1>8. ASSUME NEW t \in Int, Within(WeeklyOn(made.weekly, d), t) PROVE MarketPermits(p, d, t)
  <2>1. Weekday(d) \in days /\ opens <= t /\ t < closes
    BY <1>6, <1>8 DEF Within
  <2>2. ASSUME NEW f \in p.facts
        PROVE  /\ \A listed \in f.days : Weekday(d) \in listed
               /\ \A w \in f.clocks : w[1] <= t /\ t < w[2]
    BY <1>5, <2>1 DEF days
  <2>3. ASSUME NEW f \in p.facts, NEW s \in f.seasons
        PROVE  IF s.annual THEN YearDay(d) \in DaysOf(<<s.from, s.to>>) ELSE d \in s.from..s.to
    <3>1. Includes(s, d) /\ s.from \in Int /\ s.to \in Int
      BY <1>3, <1>4 DEF stated
    <3>2. <<s.from, s.to>> \in Int \X Int
      BY <3>1
    <3> QED BY <3>1, <3>2, DaysInRange DEF Includes
  <2> QED BY <2>2, <2>3 DEF MarketPermits
<1>9. \A f \in p.facts : \A s \in f.seasons : Includes(s, d)
  BY <1>4 DEF stated
<1> QED BY <1>1, <1>6, <1>7, <1>8, <1>9

\* Weekly market hours, whose seasons close what lies outside of them.
LEMMA MarketAsPublished ==
  ASSUME NEW p, p.source = "market", MarketTyped(p), NEW c, c = FromMarket(p), c # Unresolved
  PROVE  AsPublishedBy(c, p)
<1>1. DOMAIN c.overrides = {} /\ c.seasons # {}
  <2>1. PICK weekly, seasons : seasons # {} /\ c = [Blank EXCEPT !.weekly = weekly, !.seasons = seasons]
    BY DEF FromMarket
  <2> QED BY <2>1 DEF Blank
<1>2. ASSUME NEW d \in Int, AllowedDay(c, d)
      PROVE  /\ HoursOn(c, d) \subseteq Spans /\ \A t \in Int : Within(HoursOn(c, d), t) => Permits(p, d, t)
             /\ ~Closes(p, d)
  <2>1. PICK season \in c.seasons : Includes(season, d)
    BY <1>1, <1>2 DEF AllowedDay
  <2>2. /\ WeeklyOn(c.weekly, d) \subseteq Spans
        /\ \A t \in Int : Within(WeeklyOn(c.weekly, d), t) => MarketPermits(p, d, t)
        /\ \A f \in p.facts : \A s \in f.seasons : Includes(s, d)
    BY <2>1, MarketWithin
  <2>3. HoursOn(c, d) = WeeklyOn(c.weekly, d)
    BY <1>1 DEF HoursOn
  <2>4. \A t : MarketPermits(p, d, t) => Permits(p, d, t)
    BY DEF Permits
  <2>5. ~Closes(p, d)
    BY <2>2 DEF Closes
  <2> QED BY <2>2, <2>3, <2>4, <2>5
<1> QED BY <1>2 DEF AsPublishedBy

\* The same calendar spelled out for the reviewed dates.
LEMMA RosterAsPublished ==
  ASSUME NEW p, p.source = "roster", MarketTyped(p), NEW c, c = FromRoster(p), ~c.unknown
  PROVE  AsPublishedBy(c, p)
<1> DEFINE m == FromMarket(p)
           days == {d \in Dates : WeeklyOn(m.weekly, d) # {} /\ \E season \in m.seasons : Includes(season, d)}
<1>1. c = [m EXCEPT !.weekly = {}, !.seasons = {}, !.overrides = [d \in days |-> WeeklyOn(m.weekly, d)]]
  BY DEF FromRoster, BoundedCalendar, WeeklyOn
<1>2. m = Unresolved \/ \E weekly, seasons : m = [Blank EXCEPT !.weekly = weekly, !.seasons = seasons]
  BY DEF FromMarket
<1> HIDE DEF m, days
<1>3. m # Unresolved /\ c.weekly = {} /\ c.overrides = [d \in days |-> WeeklyOn(m.weekly, d)]
  <2>1. m = Unresolved => c.unknown = TRUE
    BY <1>1 DEF Unresolved, Blank
  <2> QED BY <1>1, <1>2, <2>1 DEF Blank
<1>4. ASSUME NEW d \in days
      PROVE  WeeklyOn(m.weekly, d) \subseteq Spans /\ \A t \in Int : Within(WeeklyOn(m.weekly, d), t) => Permits(p, d, t)
  <2>1. d \in Dates /\ d \in Int /\ \E season \in m.seasons : Includes(season, d)
    BY DEF days, Dates
  <2>2. /\ WeeklyOn(m.weekly, d) \subseteq Spans
        /\ \A t \in Int : Within(WeeklyOn(m.weekly, d), t) => MarketPermits(p, d, t)
    BY <1>3, <2>1, MarketWithin DEF m
  <2>3. \A t : MarketPermits(p, d, t) => Permits(p, d, t)
    BY <2>1 DEF Permits
  <2> QED BY <2>2, <2>3
<1>5. DOMAIN c.overrides = days /\ \A d \in days : c.overrides[d] = WeeklyOn(m.weekly, d)
  BY <1>3
<1>6. p.source \notin {"venue", "market"}
  OBVIOUS
<1> QED BY <1>3, <1>4, <1>5, <1>6, OverridesAsPublished

\* A last entry cuts a window.
LEMMA EntryWithin ==
  ASSUME NEW hours \in Spans, NEW entry \in 0..Late
  PROVE  /\ <<hours[1], Least(hours[2], entry)>> \in Spans
         /\ \A t \in Int : hours[1] <= t /\ t < Least(hours[2], entry) => hours[1] <= t /\ t < hours[2] /\ t < entry
<1>1. hours[1] \in 0..96 /\ hours[2] \in 0..96 /\ entry \in 0..96
  BY DEF Spans, Late, Day
<1> DEFINE end == Least(hours[2], entry)
<1>2. end \in 0..96 /\ end <= hours[2] /\ end <= entry
  BY <1>1 DEF Least
<1> HIDE DEF end
<1>3. <<hours[1], end>> \in Spans
  BY <1>1, <1>2 DEF Spans, Late, Day
<1>4. ASSUME NEW t \in Int, t < end PROVE t < hours[2] /\ t < entry
  BY <1>1, <1>2, <1>4
<1> QED BY <1>3, <1>4 DEF end

\* Every layer of a venue restricts.
LEMMA VenueAsPublished ==
  ASSUME NEW p, p.source = "venue", VenueTyped(p), NEW c, c = FromVenue(p), c # Held
  PROVE  AsPublishedBy(c, p)
<1> DEFINE s(d) == [i \in DOMAIN p.layers |-> LayerHours(p.layers[i], d)]
           hours(d) == IF d \in p.unclear THEN Held ELSE Narrowed(Silent, s(d))
           shut(d) == d \in p.shut \/ YearDay(d) \in p.closures
           open == {d \in Dates : ~shut(d) /\ hours(d) \notin {Held, {}}}
           days == open \cup {x \in Dates : shut(x)}
           made == [Blank EXCEPT !.overrides = [d \in days |-> IF shut(d) THEN {} ELSE hours(d)], !.closures = p.closures]
<1>1. c = made
  <2>1. c = OrHeld(made)
    BY DEF FromVenue
  <2> QED BY <2>1, OrHeldIs
<1>2. c.weekly = {} /\ c.closures = p.closures /\ c.overrides = [d \in days |-> IF shut(d) THEN {} ELSE hours(d)]
  BY <1>1 DEF Blank
<1>3. DOMAIN c.overrides = days /\ \A d \in days : c.overrides[d] = IF shut(d) THEN {} ELSE hours(d)
  BY <1>2
<1>4. ASSUME NEW d \in Int, NEW layer \in Range(p.layers)
      PROVE  /\ LayerHours(layer, d) \subseteq Spans
             /\ \A t \in Int : Within(LayerHours(layer, d), t) =>
                  d \in layer.from..layer.to /\ \E w \in layer.windows : d \in w.on /\ Within({w.hours}, t) /\ t < w.lastEntry
  <2>1. layer.from \in Int /\ layer.to \in Int /\ \A w \in layer.windows : w.hours \in Spans /\ w.lastEntry \in 0..96
    BY DEF VenueTyped, Late, Day
  <2>2. CASE d < layer.from \/ layer.to < d
    BY <2>2 DEF LayerHours, Within
  <2>3. CASE ~(d < layer.from \/ layer.to < d)
    <3>1. d \in layer.from..layer.to
      BY <2>1, <2>3
    <3>2. ASSUME NEW h \in LayerHours(layer, d)
          PROVE  \E w \in layer.windows : d \in w.on /\ h = <<w.hours[1], Least(w.hours[2], w.lastEntry)>>
      BY <2>3 DEF LayerHours
    <3>3. ASSUME NEW w \in layer.windows
          PROVE  /\ <<w.hours[1], Least(w.hours[2], w.lastEntry)>> \in Spans
                 /\ \A t \in Int : w.hours[1] <= t /\ t < Least(w.hours[2], w.lastEntry) =>
                      w.hours[1] <= t /\ t < w.hours[2] /\ t < w.lastEntry
      <4>1. w.hours \in Spans /\ w.lastEntry \in 0..Late
        BY <2>1 DEF Late, Day
      <4> QED BY <4>1, EntryWithin
    <3>4. LayerHours(layer, d) \subseteq Spans
      BY <3>2, <3>3
    <3>5. ASSUME NEW t \in Int, NEW h \in LayerHours(layer, d), h[1] <= t, t < h[2]
          PROVE  \E w \in layer.windows : d \in w.on /\ Within({w.hours}, t) /\ t < w.lastEntry
      <4>1. PICK w \in layer.windows : d \in w.on /\ h = <<w.hours[1], Least(w.hours[2], w.lastEntry)>>
        BY <3>2
      <4>2. w.hours[1] <= t /\ t < Least(w.hours[2], w.lastEntry)
        BY <3>5, <4>1
      <4>3. w.hours[1] <= t /\ t < w.hours[2] /\ t < w.lastEntry
        BY <3>3, <4>2
      <4> QED BY <4>1, <4>3 DEF Within
    <3> QED BY <3>1, <3>4, <3>5 DEF Within
  <2> QED BY <2>2, <2>3
<1>5. \A i \in DOMAIN p.layers : p.layers[i] \in Range(p.layers)
  BY DEF Range
<1>6. ASSUME NEW d \in open
      PROVE  hours(d) \subseteq Spans /\ \A t \in Int : Within(hours(d), t) => Permits(p, d, t)
  <2>1. d \in Dates /\ d \in Int /\ ~shut(d) /\ d \notin p.unclear /\ hours(d) = Narrowed(Silent, s(d)) /\ hours(d) # Held
    BY DEF Dates
  <2>2. DOMAIN s(d) = DOMAIN p.layers /\ \A i \in DOMAIN p.layers : s(d)[i] = LayerHours(p.layers[i], d)
    OBVIOUS
  <2> HIDE DEF s
  <2>3. LeftOf(Narrowed(Silent, s(d)), Silent, s(d))
    <3>1. \A i \in DOMAIN p.layers : Stated(s(d)[i])
      BY <1>4, <1>5, <2>1, <2>2 DEF Stated
    <3>2. IsList(p.layers) /\ Stated(Silent)
      BY Calendars DEF VenueTyped, Stated
    <3> QED BY <2>2, <3>1, <3>2, NarrowedWithin
  <2>4. /\ hours(d) \subseteq Spans
        /\ \A t \in Int : Within(hours(d), t) => \A i \in DOMAIN p.layers : Within(s(d)[i], t)
    <3> HIDE DEF hours
    <3> QED BY <2>1, <2>2, <2>3 DEF LeftOf
  <2>5. ASSUME NEW t \in Int, Within(hours(d), t) PROVE Permits(p, d, t)
    <3>1. ASSUME NEW layer \in Range(p.layers)
          PROVE  d \in layer.from..layer.to /\ \E w \in layer.windows : d \in w.on /\ Within({w.hours}, t) /\ t < w.lastEntry
      <4>1. PICK i \in DOMAIN p.layers : layer = p.layers[i]
        BY DEF Range
      <4>2. Within(LayerHours(layer, d), t)
        BY <2>2, <2>4, <2>5, <4>1
      <4> QED BY <1>4, <2>1, <4>2
    <3> QED BY <2>1, <3>1 DEF Permits
  <2> QED BY <2>4, <2>5
<1> HIDE DEF hours
<1>7. ASSUME NEW d \in Int, AllowedDay(c, d)
      PROVE  HoursOn(c, d) \subseteq Spans /\ \A t \in Int : Within(HoursOn(c, d), t) => Permits(p, d, t)
  <2>1. CASE d \in open
    <3>1. HoursOn(c, d) = hours(d)
      BY <1>3, <2>1 DEF HoursOn
    <3> HIDE DEF open
    <3> QED BY <1>6, <2>1, <3>1
  <2>2. CASE d \notin open
    <3>1. HoursOn(c, d) = {}
      BY <1>2, <1>3, <2>2 DEF HoursOn, WeeklyOn
    <3> QED BY <3>1 DEF Within
  <2> QED BY <2>1, <2>2
<1>8. ASSUME NEW d \in Int, Closes(p, d)
      PROVE  ~AllowedDay(c, d) \/ d \in DOMAIN c.overrides
  <2>1. d \in p.shut \cap Dates \/ YearDay(d) \in p.closures
    BY <1>8 DEF Closes
  <2> QED BY <1>2, <1>3, <2>1 DEF AllowedDay
<1> QED BY <1>7, <1>8 DEF AsPublishedBy

\* An eligible calendar of any source is open only as its page permits.
LEMMA AdaptedAsPublished ==
  ASSUME NEW p, PageTyped(p), Eligible(Adapted(p))
  PROVE  OpenAt(Adapted(p), p)
<1> DEFINE c == Adapted(p)
<1>1. c # Held /\ ~c.unknown /\ c # Unresolved
  <2>1. Unresolved.unknown = TRUE
    BY DEF Unresolved, Blank
  <2> QED BY <2>1 DEF Eligible
<1> SUFFICES AsPublishedBy(c, p)
  BY ReadAsPublished
<1>2. CASE p.source \in {"nps", "nps_more"}
  <2>1. ParkTyped(p)
    BY <1>2 DEF PageTyped
  <2>2. (p.source = "nps" /\ c = FromNps(p)) \/ (p.source = "nps_more" /\ c = FromNpsMore(p))
    BY <1>2 DEF Adapted
  <2> QED BY <1>1, <2>1, <2>2, NpsAsPublished
<1>3. CASE p.source = "facility"
  BY <1>1, <1>3, FacilityAsPublished DEF PageTyped, Adapted
<1>4. CASE p.source = "usfs"
  BY <1>1, <1>4, UsfsAsPublished DEF PageTyped, Adapted
<1>5. CASE p.source = "usfs_current"
  BY <1>1, <1>5, UsfsCurrentAsPublished DEF PageTyped, Adapted
<1>6. CASE p.source = "entries"
  BY <1>1, <1>6, EntriesAsPublished DEF PageTyped, Adapted
<1>7. CASE p.source = "table"
  BY <1>1, <1>7, TableAsPublished DEF PageTyped, Adapted
<1>8. CASE p.source \in {"daily", "shore"}
  BY <1>1, <1>8, DailyAsPublished DEF PageTyped, Adapted
<1>9. CASE p.source = "grid"
  BY <1>1, <1>9, GridAsPublished DEF PageTyped, Adapted
<1>10. CASE p.source = "sessions"
  BY <1>1, <1>10, SessionsAsPublished DEF PageTyped, Adapted
<1>11. CASE p.source = "events"
  BY <1>1, <1>11, EventsAsPublished DEF PageTyped, Adapted
<1>12. CASE p.source = "event"
  BY <1>1, <1>12, EventAsPublished DEF PageTyped, Adapted
<1>13. CASE p.source = "month"
  BY <1>1, <1>13, MonthAsPublished DEF PageTyped, Adapted
<1>14. CASE p.source = "gallery"
  BY <1>1, <1>14, GalleryAsPublished DEF PageTyped, Adapted
<1>15. CASE p.source = "market"
  BY <1>1, <1>15, MarketAsPublished DEF PageTyped, Adapted
<1>16. CASE p.source = "roster"
  BY <1>1, <1>16, RosterAsPublished DEF PageTyped, Adapted
<1>17. CASE p.source = "venue"
  BY <1>1, <1>17, VenueAsPublished DEF PageTyped, Adapted
<1>18. p.source \in {"nps", "nps_more", "facility", "usfs", "usfs_current", "entries", "table", "daily", "shore", "grid",
                     "sessions", "events", "event", "month", "gallery", "market", "roster", "venue"}
  BY DEF PageTyped
<1> HIDE DEF c
<1> QED BY <1>2, <1>3, <1>4, <1>5, <1>6, <1>7, <1>8, <1>9, <1>10, <1>11, <1>12, <1>13, <1>14, <1>15, <1>16, <1>17, <1>18

-----------------------------------------------------------------------------
(* The calendars of what is served *)

\* Rows carry their pages, and every entry is what an adapter made of its page.
StatedInv ==
  \A g \in Generations : staged[g] # NoProof =>
    /\ \A r \in staged[g].rows : Paged(r)
    /\ \A id \in DOMAIN staged[g].calendars : EntryMade(staged[g].calendars[id])

\* The calendar of a row whose source states hours is made of the row's own page.
LEMMA CalendarMade ==
  ASSUME NEW r, PageFits(r), AtMarket(r) \/ PagesOf(r.source) # {}
  PROVE  EntryMade(Calendar(r))
<1>1. HoursOf(r) = Adapted(PageOf(r))
  BY DEF HoursOf
<1>2. PageTyped(PageOf(r))
  BY DEF PageFits, PageOf
<1>3. Calendar(r).page = PageOf(r) /\ Calendar(r).hours = HoursOf(r)
  BY DEF Calendar
<1> QED BY <1>1, <1>2, <1>3 DEF EntryMade

\* The hours of one input are made of the pages that it replayed.
LEMMA EntriesMade ==
  ASSUME NEW item, NEW rows, NEW parent, InputStands(item, rows, parent),
         \A r \in rows : r.source = item.batch.source /\ PageFits(r),
         NEW id \in DOMAIN Entries(item, rows)
  PROVE  EntryMade(Entries(item, rows)[id])
<1> DEFINE added == IF item.batch.source = "pilot" THEN {} ELSE Chosen(item, rows)
           bound == {r \in rows : r.id \in DOMAIN item.bindings}
           Made(r) == r \in added \cup bound /\ id = IF r \in bound THEN item.bindings[r.id] ELSE r.id
           maker == CHOOSE r \in added \cup bound : id = IF r \in bound THEN item.bindings[r.id] ELSE r.id
<1>1. id \in Ids(added) \cup {item.bindings[r.id] : r \in bound} /\ Entries(item, rows)[id] = Calendar(maker)
  BY DEF Entries
<1>2. \E r : Made(r)
  <2>1. CASE id \in {item.bindings[r.id] : r \in bound}
    BY <2>1
  <2>2. CASE id \in Ids(added)
    <3>1. PICK r \in added : r.id = id
      BY <2>2 DEF Ids
    <3>2. r \notin bound
      BY <3>1 DEF InputStands, Chosen
    <3> QED BY <3>1, <3>2
  <2> QED BY <1>1, <2>1, <2>2
<1>3. maker \in added \cup bound
  BY <1>2
<1> HIDE DEF maker
<1>4. maker \in rows /\ item.batch.source \in Adapters /\ item.batch.source # "pilot"
  <2>1. bound # {} => item.batch.source \in Unattended
    BY DEF InputStands
  <2> QED BY <1>3, <2>1 DEF Chosen, InputStands, Unattended
<1>5. maker.source = item.batch.source /\ PageFits(maker)
  BY <1>4
<1>6. AtMarket(maker) \/ PagesOf(maker.source) # {}
  BY <1>4, <1>5 DEF AtMarket, PagesOf, Adapters
<1> QED BY <1>1, <1>5, <1>6, CalendarMade

\* So are those of an enrichment, or they are reviewed entries, or its parent's.
LEMMA ExtendedCalendars ==
  ASSUME NEW parent, NEW chosen, NEW made,
         \A i \in DOMAIN made : \A id \in DOMAIN made[i] : EntryMade(made[i][id]),
         \A id \in DOMAIN parent.calendars : EntryMade(parent.calendars[id])
  PROVE  \A id \in DOMAIN Extended(parent, chosen, made).calendars : EntryMade(Extended(parent, chosen, made).calendars[id])
<1> DEFINE entry(id) == made[CHOOSE i \in DOMAIN made : id \in DOMAIN made[i]][id]
           calendars == [id \in DOMAIN parent.calendars \cup NamedBy(made) |-> IF id \in NamedBy(made) THEN entry(id) ELSE parent.calendars[id]]
<1>1. Extended(parent, chosen, made).calendars = calendars
  BY DEF Extended
<1>2. ASSUME NEW id \in NamedBy(made) PROVE EntryMade(entry(id))
  <2>1. \E i \in DOMAIN made : id \in DOMAIN made[i]
    BY DEF NamedBy
  <2> QED BY <2>1
<1> HIDE DEF entry
<1>3. \A id \in DOMAIN calendars : EntryMade(calendars[id])
  BY <1>2
<1> QED BY <1>1, <1>3

\* What is staged, or prepared again, carries its pages and the calendars that were made of them.
LEMMA ContentStated ==
  ASSUME IInv, EvidenceInv, StatedInv, NEW g \in Generations, Content(g, day) # Refused
  PROVE  /\ \A r \in Content(g, day).rows : Paged(r)
         /\ \A id \in DOMAIN Content(g, day).calendars : EntryMade(Content(g, day).calendars[id])
<1>1. ASSUME NEW r \in Content(g, day).rows PROVE Paged(r)
  <2>1. CASE g # 0 /\ r \in staged[Parent(g)].rows
    <3>1. Parent(g) \in Generations /\ staged[Parent(g)] # NoProof
      BY <2>1, ContentStands
    <3> QED BY <2>1, <3>1 DEF StatedInv
  <2>2. CASE ~(g # 0 /\ r \in staged[Parent(g)].rows)
    <3>1. PublishedOn(r, day)
      BY <2>2, ContentIsPublished
    <3> QED BY <3>1 DEF PublishedOn
  <2> QED BY <2>1, <2>2
<1>2. ASSUME NEW id \in DOMAIN Content(g, day).calendars PROVE EntryMade(Content(g, day).calendars[id])
  <2>1. CASE g = 0
    <3>1. Content(g, day) = Assembled(world, day)
      BY <2>1 DEF Content
    <3>2. Assembled(world, day).calendars = <<>>
      <4> DEFINE rows == UNION {Replay(world.inputs[i], day) : i \in DOMAIN world.inputs}
      <4>1. Assembled(world, day) = Joined(rows, world.merges) /\ Joined(rows, world.merges) # Refused
        BY <3>1 DEF Assembled, Gathered
      <4> HIDE DEF rows
      <4>2. PICK merged : Joined(rows, world.merges) = [rows |-> merged, calendars |-> <<>>]
        BY <4>1 DEF Joined
      <4> QED BY <4>1, <4>2
    <3>3. DOMAIN Content(g, day).calendars = {}
      BY <3>1, <3>2
    <3> QED BY <3>3
  <2>2. CASE g # 0
    <3> DEFINE c == offered[g]
               parent == staged[Parent(g)]
               replayed == Replays(c, day)
               made == MadeBy(c, replayed)
    <3>1. c # NoProof /\ Parent(g) \in Generations /\ parent # NoProof /\ Content(g, day) = Enrichment(c, parent, replayed)
      BY <2>2, ContentStands DEF Content, Enriched, Parent
    <3>2. /\ \A i \in DOMAIN c.inputs : BatchTyped(c.inputs[i].batch)
          /\ \A j \in DOMAIN c.entries : EntryMade(c.entries[j])
          /\ \A j \in DOMAIN parent.calendars : EntryMade(parent.calendars[j])
      BY <2>2, <3>1 DEF EvidenceInv, StatedInv
    <3>3. DOMAIN replayed = DOMAIN c.inputs /\ \A i \in DOMAIN c.inputs : replayed[i] = Replay(c.inputs[i].batch, day)
      BY DEF Replays
    <3> HIDE DEF c, parent, replayed
    <3>4. /\ Content(g, day) = Extended(parent, ChosenBy(c, replayed), made)
          /\ \A i \in DOMAIN replayed : InputStands(c.inputs[i], replayed[i], parent)
      BY <3>1 DEF Enrichment, Accepts
    <3>5. ASSUME NEW i \in DOMAIN made, NEW j \in DOMAIN made[i] PROVE EntryMade(made[i][j])
      <4>1. CASE i = 0
        <5>1. made[i] = c.entries
          BY <4>1 DEF MadeBy
        <5> QED BY <3>2, <3>5, <5>1
      <4>2. CASE i # 0
        <5>1. i \in DOMAIN replayed /\ made[i] = Entries(c.inputs[i], replayed[i])
          BY <4>2 DEF MadeBy
        <5>2. InputStands(c.inputs[i], replayed[i], parent) /\ replayed[i] # Refused
          BY <3>4, <5>1 DEF InputStands
        <5>3. \A r \in replayed[i] : r.source = c.inputs[i].batch.source /\ PageFits(r)
          BY <3>2, <3>3, <5>1, <5>2, ReplayedFit
        <5> QED BY <3>5, <5>1, <5>2, <5>3, EntriesMade
      <4> QED BY <4>1, <4>2
    <3> HIDE DEF made
    <3> QED BY <3>2, <3>4, <3>5, ExtendedCalendars
  <2> QED BY <2>1, <2>2
<1> QED BY <1>1, <1>2

\* Nothing is staged at first.
LEMMA StatedBegins == CatalogInit => StatedInv
<1>1. ASSUME NoAdmission PROVE StatedInv
  BY <1>1 DEF NoAdmission, StatedInv, Generations
<1>2. ASSUME AdmissionInit PROVE StatedInv
  BY <1>2 DEF AdmissionInit, StatedInv, Generations
<1> QED BY <1>1, <1>2 DEF CatalogInit

\* What is staged is what its batches are prepared to, and nothing else changes a generation.
LEMMA StatedStays == IInv /\ EvidenceInv /\ StatedInv /\ [CatalogNext]_catalogVars => StatedInv'
<1> SUFFICES ASSUME IInv, EvidenceInv, StatedInv, [CatalogNext]_catalogVars PROVE StatedInv'
  OBVIOUS
<1>1. ASSUME staged' = staged PROVE StatedInv'
  BY <1>1 DEF StatedInv, Generations
<1>2. ASSUME NEW g \in Generations, NEW made, made = Content(g, day), Stage(g, made) PROVE StatedInv'
  <2>1. made # Refused /\ staged' = [staged EXCEPT ![g] = made]
    BY <1>2 DEF Stage
  <2>2. Generations' = Generations /\ \A h \in Generations : staged'[h] = IF h = g THEN made ELSE staged[h]
    BY <2>1 DEF Generations
  <2>3. /\ \A r \in made.rows : Paged(r)
        /\ \A id \in DOMAIN made.calendars : EntryMade(made.calendars[id])
    BY <1>2, <2>1, ContentStated
  <2> QED BY <2>2, <2>3 DEF StatedInv
<1>3. CASE AdmissionNext
  BY <1>1, <1>2, <1>3 DEF AdmissionNext, NextDay, Activate, Rollback, Freeze, Switch
<1>4. CASE Refresh \/ Look \/ UNCHANGED admissionVars
  BY <1>1, <1>4 DEF Refresh, Look, admissionVars
<1> QED BY <1>3, <1>4 DEF CatalogNext, catalogVars

\* A visitor is shown an entry, or the calendar of the one market or park that a row carries.
LEMMA ServedMade ==
  ASSUME StatedInv, NEW g \in Generations, staged[g] # NoProof, NEW r \in staged[g].rows, NEW c \in Served(staged[g], r)
  PROVE  EntryMade(c)
<1>1. CASE r.id \in DOMAIN staged[g].calendars
  BY <1>1 DEF Served, StatedInv
<1>2. CASE r.id \notin DOMAIN staged[g].calendars
  <2>1. c \in OwnCalendars(r)
    BY <1>2 DEF Served, Sole
  <2>2. PICK p \in Parts(r) : p.source \in {"markets", "parks"} /\ c = Calendar(p)
    BY <2>1 DEF OwnCalendars
  <2>3. PageFits(p)
    BY DEF StatedInv, Paged
  <2>4. AtMarket(p) \/ PagesOf(p.source) # {}
    BY <2>2 DEF AtMarket, PagesOf
  <2> QED BY <2>2, <2>3, <2>4, CalendarMade
<1> QED BY <1>1, <1>2

-----------------------------------------------------------------------------
(* The calendar that a visitor reads, and the trip that follows it *)

\* It is what an adapter made of the page.
ReadInv ==
  page # NoPage \/ calendar # NoPage =>
    PageTyped(page) /\ (calendar # NoPage => calendar \in {Held, Unresolved, Adapted(page)})

\* A visitor begins with a page, whose hours are imported first, or with nothing.
LEMMA ReadBegins == CatalogInit => ReadInv
<1>1. CASE page \in Pages /\ calendar = NoPage
  BY <1>1, PagesAssumption DEF ReadInv
<1>2. CASE page = NoPage /\ calendar = NoPage
  BY <1>2 DEF ReadInv
<1> QED BY <1>1, <1>2 DEF CatalogInit, PublishedInit, AnyVisitor

\* A page is imported, a place is departed for, or a trip goes on.
LEMMA PublishedSteps == PublishedNext => (\E source : Import(source)) \/ Depart \/ (ScheduleNext /\ UNCHANGED <<page, calendar>>)
<1> SUFFICES ASSUME PublishedNext PROVE (\E source : Import(source)) \/ Depart \/ (ScheduleNext /\ UNCHANGED <<page, calendar>>)
  OBVIOUS
<1> QED
  BY DEF PublishedNext, ImportNps, ImportNpsMore, ImportFacility, ImportUsfs, ImportUsfsCurrent, ImportEntries, ImportTable,
         ImportDaily, ImportGrid, ImportSessions, ImportEvents, ImportMonth, ImportGallery, ImportEvent, ImportShore,
         ImportMarket, ImportVenue

\* Pages are imported by their own adapter, and the catalog serves calendars with the pages they were made of.
LEMMA ReadStays == IInv /\ ServingInv /\ StatedInv /\ ReadInv /\ [CatalogNext]_catalogVars => ReadInv'
<1> SUFFICES ASSUME IInv, ServingInv, StatedInv, ReadInv, [CatalogNext]_catalogVars PROVE ReadInv'
  OBVIOUS
<1>1. CASE UNCHANGED <<page, calendar>>
  BY <1>1 DEF ReadInv
<1>2. ASSUME NEW source, Import(source) PROVE ReadInv'
  BY <1>2 DEF Import, ReadInv
<1>3. CASE Depart
  BY <1>1, <1>3 DEF Depart
<1>4. CASE Look
  <2>1. serving \in Generations /\ staged[serving] # NoProof
    <3>1. Generations = 0..Len(world.enrichments) /\ Len(world.enrichments) \in Nat
      BY <1>4, WorldsAssumption DEF Look, IInv, ShapeInv, Generations, WorldTyped
    <3> QED BY <1>4, <3>1, AdmissionAssumption DEF Look, ServingInv
  <2>2. PICK r \in staged[serving].rows : \E c \in Served(staged[serving], r) : page' = c.page /\ calendar' = c.hours
    BY <1>4 DEF Look
  <2>3. PICK c \in Served(staged[serving], r) : page' = c.page /\ calendar' = c.hours
    BY <2>2
  <2>4. EntryMade(c)
    BY <2>1, <2>3, ServedMade
  <2> QED BY <2>3, <2>4 DEF ReadInv, EntryMade
<1> QED BY <1>1, <1>2, <1>3, <1>4, PublishedSteps DEF CatalogNext, catalogVars, publishedVars

\* An eligible calendar is open only as its page permits.
LEMMA ReadIsOpen ==
  ASSUME ReadInv, Eligible(calendar)
  PROVE  OpenAt(calendar, page)
<1>1. calendar # NoPage /\ calendar # Held /\ calendar # Unresolved
  <2>1. Unresolved.unknown = TRUE
    BY DEF Unresolved, Blank
  <2> QED BY <2>1 DEF Eligible
<1>2. PageTyped(page) /\ calendar = Adapted(page)
  BY <1>1 DEF ReadInv
<1> QED BY <1>2, AdaptedAsPublished

\* What Depart gives to the visit.
Imported(c) == [any |-> FALSE, windows |-> TripWindows(c), fixed |-> {}]

\* A trip to a page, or one that waits for its calendar, has one visit, and keeps the calendar it departed with.
VisitorInv ==
  /\ page # NoPage \/ plan.at = "waiting" => n = 1
  /\ page # NoPage /\ plan.at # "waiting" => Eligible(calendar) /\ trip.visits[1].calendar = Imported(calendar)

\* The whole of a visit that has just ended lies in one window.
InWindow(v, left) == v.calendar.any \/ \E w \in Windows(v) : w[1] <= left - v.dwell /\ left <= w[2]
\* Whoever has just left a place was there within a window of its calendar.
LeftInv ==
  plan.stops # <<>> =>
    LET last == plan.stops[Len(plan.stops)]
    IN last.kind = "stop" => last.visit \in 1..n /\ InWindow(trip.visits[last.visit], plan.now + Offset(plan.zone))

\* Trips begin without a stop.
LEMMA VisitorBegins == CatalogInit => VisitorInv /\ LeftInv
<1>1. ASSUME NEW w \in Waiting, trip = TripOf(w.policy, w.departure, w.route, <<w.visit>>),
             plan = [NewPlan(trip.departure) EXCEPT !.at = "waiting"]
      PROVE  VisitorInv /\ LeftInv
  <2>1. n = 1
    BY <1>1 DEF n, TripOf
  <2>2. plan.at = "waiting" /\ plan.stops = <<>>
    BY <1>1 DEF NewPlan
  <2> QED BY <2>1, <2>2 DEF VisitorInv, LeftInv
<1>2. ASSUME ScheduleInit, page = NoPage PROVE VisitorInv /\ LeftInv
  <2>1. plan.at = "driving" /\ plan.stops = <<>>
    BY <1>2 DEF ScheduleInit, NewPlan
  <2> QED BY <1>2, <2>1 DEF VisitorInv, LeftInv
<1> QED BY <1>1, <1>2 DEF CatalogInit, PublishedInit, AnyVisitor

\* A trip that departs takes over the calendar of its place.
LEMMA DepartsWith ==
  ASSUME RoadInv, VisitorInv, Depart
  PROVE  n' = n /\ trip'.visits[1].calendar = Imported(calendar) /\ plan'.at = "driving" /\ plan'.stops = <<>>
<1> DEFINE visits == [trip.visits EXCEPT ![1] = [trip.visits[1] EXCEPT !.calendar = Imported(calendar)]]
<1>1. TripTyped /\ PlanTyped(plan) /\ plan.at = "waiting" /\ plan.stops = <<>> /\ n = 1
  BY DEF RoadInv, Road, Ordered, Depart, VisitorInv
<1>2. trip' = [trip EXCEPT !.visits = visits] /\ plan' = [plan EXCEPT !.at = "driving"]
  BY <1>1 DEF Depart, TripTyped, Imported
<1>3. 1 \in DOMAIN trip.visits /\ VisitTyped(trip.visits[1])
  BY <1>1 DEF TripTyped
<1>4. DOMAIN visits = DOMAIN trip.visits /\ visits[1].calendar = Imported(calendar)
  <2>1. visits[1] = [trip.visits[1] EXCEPT !.calendar = Imported(calendar)]
    BY <1>3
  <2> HIDE DEF visits
  <2>2. visits[1].calendar = Imported(calendar)
    BY <1>3, <2>1 DEF VisitTyped
  <2> QED BY <2>2 DEF visits
<1> HIDE DEF visits
<1>5. trip'.visits = visits
  BY <1>1, <1>2 DEF TripTyped
<1>6. Len(visits) = Len(trip.visits)
  BY <1>1, <1>4 DEF TripTyped, n
<1>7. plan'.at = "driving" /\ plan'.stops = <<>>
  BY <1>1, <1>2 DEF PlanTyped
<1> QED BY <1>4, <1>5, <1>6, <1>7 DEF n

\* Whoever departs keeps the calendar, and no other is imported or looked up on the way.
LEMMA VisitorStays == RoadInv /\ VisitorInv /\ [CatalogNext]_catalogVars => VisitorInv'
<1> SUFFICES ASSUME RoadInv, VisitorInv, [CatalogNext]_catalogVars PROVE VisitorInv'
  OBVIOUS
<1>1. CASE UNCHANGED publishedVars
  BY <1>1 DEF publishedVars, VisitorInv, n
<1>2. ASSUME NEW source, Import(source) PROVE VisitorInv'
  <2>1. plan.at = "waiting" /\ n = 1
    BY <1>2 DEF Import, VisitorInv, Eligible
  <2> QED BY <1>2, <2>1 DEF Import, VisitorInv, scheduleVars, n
<1>3. CASE Depart
  <2>1. n' = n /\ trip'.visits[1].calendar = Imported(calendar) /\ n = 1 /\ page' = page /\ calendar' = calendar /\ Eligible(calendar)
    BY <1>3, DepartsWith DEF Depart, VisitorInv
  <2> QED BY <2>1 DEF VisitorInv
<1>4. CASE ScheduleNext /\ UNCHANGED <<page, calendar>>
  BY <1>4, OnTheRoad DEF VisitorInv, n
<1>5. CASE Look
  BY <1>5 DEF Look, VisitorInv, scheduleVars, n
<1> QED BY <1>1, <1>2, <1>3, <1>4, <1>5, PublishedSteps DEF CatalogNext, catalogVars

\* A visit ends where and when it was planned to.
LEMMA ArrivingLeaves ==
  ASSUME RoadInv, LeftInv, Arrive
  PROVE  LeftInv'
<1> DEFINE k == plan.event
           z == EventZone(k)
           arrival == plan.now + DriveLeft
<1>1. /\ TripTyped /\ PlanTyped(plan) /\ trip' = trip /\ plan.at = "driving"
      /\ plan.stops \in Seq(Stops) /\ plan.now \in Int
  BY DEF RoadInv, Road, Arrive, PlanTyped
<1>2. k \in 1..(n + 1) /\ DriveLeft \in Nat /\ z \in Zones /\ EventLimit \in Int /\ n \in Nat
  BY <1>1, OnTheWay DEF TripTyped
<1>3. /\ k > n => plan' = [plan EXCEPT !.driven = Target(k), !.event = k + 1, !.zone = z, !.at = "scheduled", !.now = arrival,
                                         !.stops = Append(plan.stops, Stop("end", z, DriveLeft, 0))]
      /\ k <= n /\ Solvable(trip.visits[k], z, arrival, EventLimit) =>
           plan' = [plan EXCEPT !.driven = Target(k), !.event = k + 1, !.zone = z,
                                !.now = Start(trip.visits[k], z, arrival, EventLimit) + trip.visits[k].dwell,
                                !.stops = Append(plan.stops, Stop("stop", z, DriveLeft, k))]
      /\ k <= n /\ ~Solvable(trip.visits[k], z, arrival, EventLimit) => plan' = [plan EXCEPT !.at = "conflict"]
  BY <1>1, <1>2 DEF Arrive, PlanTyped
<1>4. arrival \in Int /\ Offset(z) \in Int
  <2>1. Offset(z) \in Int
    BY <1>1, <1>2, Clocks DEF PlanTyped
  <2> QED BY <1>1, <1>2, <2>1
<1>5. ASSUME NEW x PROVE Append(plan.stops, x) # <<>> /\ Append(plan.stops, x)[Len(Append(plan.stops, x))] = x
  <2>1. Append(plan.stops, x)[Len(Append(plan.stops, x))] = x
    BY <1>1
  <2>2. Len(Append(plan.stops, x)) = Len(plan.stops) + 1 /\ Len(plan.stops) \in Nat
    BY <1>1
  <2> QED BY <2>1, <2>2
<1> HIDE DEF k, z, arrival
<1>6. CASE k > n
  <2>1. plan'.stops = Append(plan.stops, Stop("end", z, DriveLeft, 0))
    BY <1>1, <1>3, <1>6 DEF PlanTyped
  <2> QED BY <1>5, <2>1 DEF LeftInv, Stop
<1>7. CASE k <= n /\ Solvable(trip.visits[k], z, arrival, EventLimit)
  <2> DEFINE v == trip.visits[k]
             start == Start(v, z, arrival, EventLimit)
  <2>1. k \in 1..n /\ VisitTyped(v)
    BY <1>1, <1>2, <1>7 DEF TripTyped
  <2>2. /\ start \in Int /\ v.dwell \in Nat \ {0}
        /\ v.calendar.any \/ start \in Starts(v, z, arrival, EventLimit)
    BY <1>1, <1>2, <1>4, <1>7, <2>1, StartsAreMoments
  <2>3. plan' = [plan EXCEPT !.driven = Target(k), !.event = k + 1, !.zone = z, !.now = start + v.dwell,
                             !.stops = Append(plan.stops, Stop("stop", z, DriveLeft, k))]
    BY <1>3, <1>7
  <2> HIDE DEF start, v
  <2>4. plan'.stops = Append(plan.stops, Stop("stop", z, DriveLeft, k)) /\ plan'.now = start + v.dwell /\ plan'.zone = z
    BY <1>1, <2>3 DEF PlanTyped
  <2>5. InWindow(v, start + v.dwell + Offset(z))
    <3>1. CASE ~v.calendar.any
      <4>1. PICK w \in Windows(v) : w[1] <= start + Offset(z) /\ start + Offset(z) + v.dwell <= w[2]
        BY <2>2, <3>1 DEF Starts
      <4>2. /\ (start + v.dwell + Offset(z)) - v.dwell = start + Offset(z)
            /\ start + v.dwell + Offset(z) = start + Offset(z) + v.dwell
        BY <1>4, <2>2
      <4> QED BY <4>1, <4>2 DEF InWindow
    <3> QED BY <3>1 DEF InWindow
  <2>6. /\ plan'.stops[Len(plan'.stops)] = Stop("stop", z, DriveLeft, k)
        /\ Stop("stop", z, DriveLeft, k).visit = k
    BY <1>5, <2>4 DEF Stop
  <2>7. (plan.now + Offset(plan.zone))' = start + v.dwell + Offset(z)
    BY <1>1, <2>4 DEF Offset
  <2>8. trip'.visits[k] = v /\ k \in 1..n' /\ plan'.stops[Len(plan'.stops)].visit = k
    BY <1>1, <2>1, <2>6 DEF v, n
  <2> HIDE DEF Offset
  <2>9. InWindow(trip.visits[plan.stops[Len(plan.stops)].visit], plan.now + Offset(plan.zone))'
    BY <2>5, <2>7, <2>8 DEF InWindow, Windows
  <2> QED BY <2>8, <2>9 DEF LeftInv
<1>8. CASE k <= n /\ ~Solvable(trip.visits[k], z, arrival, EventLimit)
  <2>1. plan'.stops = plan.stops /\ plan'.now = plan.now /\ plan'.zone = plan.zone
    BY <1>1, <1>3, <1>8 DEF PlanTyped
  <2> QED BY <1>1, <2>1 DEF LeftInv, InWindow, Windows, n, Offset
<1> QED BY <1>2, <1>6, <1>7, <1>8

\* A drive, a night or a check after a visit leaves where and when the visit ended, or adds a stop of another kind.
LEMMA LeftStays == RoadInv /\ VisitorInv /\ LeftInv /\ [CatalogNext]_catalogVars => LeftInv'
<1> SUFFICES ASSUME RoadInv, VisitorInv, LeftInv, [CatalogNext]_catalogVars PROVE LeftInv'
  OBVIOUS
<1>1. ASSUME trip' = trip, plan'.stops = plan.stops, plan'.now = plan.now, plan'.zone = plan.zone
      PROVE  LeftInv'
  BY <1>1 DEF LeftInv, InWindow, Windows, n, Offset
<1>2. CASE UNCHANGED scheduleVars
  BY <1>1, <1>2 DEF scheduleVars
<1>3. CASE Depart
  <2>1. plan'.stops = <<>>
    BY <1>3, DepartsWith
  <2> QED BY <2>1 DEF LeftInv
<1>4. CASE ScheduleNext
  <2>1. CASE Arrive
    BY <2>1, ArrivingLeaves
  <2>2. CASE GiveUp
    <3>1. trip' = trip /\ plan'.stops = plan.stops /\ plan'.now = plan.now /\ plan'.zone = plan.zone
      BY <2>2 DEF GiveUp, RoadInv, Road, PlanTyped
    <3> QED BY <1>1, <3>1
  <2>3. CASE plan.at = "driving" /\ ~Reachable /\ \E d \in HotelDrives, z \in Zones : Overnight(d, z)
    <3>1. PICK d \in HotelDrives, z \in Zones : plan'.stops = Append(plan.stops, Stop("hotel", z, d, 0))
      BY <2>3 DEF Overnight, RoadInv, Road, PlanTyped
    <3>2. plan'.stops[Len(plan'.stops)] = Stop("hotel", z, d, 0) /\ Stop("hotel", z, d, 0).kind = "hotel"
      <4>1. plan.stops \in Seq(Stops)
        BY DEF RoadInv, Road, PlanTyped
      <4>2. \A x : Append(plan.stops, x)[Len(Append(plan.stops, x))] = x
        BY <4>1
      <4> QED BY <3>1, <4>2 DEF Stop
    <3> QED BY <3>2 DEF LeftInv
  <2>4. CASE \E i \in DOMAIN plan.stops : \E leg \in 0..(plan.stops[i].leg + 1) : check.next = i /\ Time(leg)
    <3>1. trip' = trip /\ plan' = plan
      BY <2>4 DEF Time
    <3> QED BY <1>1, <3>1
  <2> QED BY <1>4, <2>1, <2>2, <2>3, <2>4 DEF ScheduleNext
<1>5. ASSUME NEW source, Import(source) PROVE LeftInv'
  BY <1>2, <1>5 DEF Import
<1>6. CASE Look
  BY <1>2, <1>6 DEF Look
<1>7. CASE UNCHANGED publishedVars
  BY <1>2, <1>7 DEF publishedVars, scheduleVars
<1> QED BY <1>3, <1>4, <1>5, <1>6, <1>7, PublishedSteps DEF CatalogNext, catalogVars

-----------------------------------------------------------------------------
(* Open only as published *)

\* Every moment of a window that a trip reads is permitted.
LEMMA WindowPermits ==
  ASSUME ReadInv, Eligible(calendar), NEW w \in TripWindows(calendar)
  PROVE  /\ w[1] \in Int /\ w[2] \in Int /\ w[2] <= 48 * (w[1] \div 48 + 2)
         /\ \A moment \in w[1]..(w[2] - 1) : PermitsAt(page, moment)
<1>1. PICK d \in -1..(MaxNights + 1) : \E x \in DayIntervals(calendar, d) : w = <<Day * d + x[1], Day * d + x[2]>>
  BY DEF TripWindows
<1>2. PICK x \in DayIntervals(calendar, d) : w = <<48 * d + x[1], 48 * d + x[2]>>
  BY <1>1 DEF Day
<1>3. d \in Int
  BY ScheduleAssumption
<1>4. x \in Spans /\ \A t \in x[1]..(x[2] - 1) : PermitsAt(page, Day * d + t)
  BY <1>3, ReadIsOpen DEF OpenAt
<1>5. x[1] \in 0..96 /\ x[2] \in 0..96
  <2>1. x \in (0..96) \X (0..96)
    BY <1>4 DEF Spans, Late, Day
  <2> QED BY <2>1
<1>6. w[1] = 48 * d + x[1] /\ w[2] = 48 * d + x[2] /\ w[1] \in Int /\ w[2] \in Int
  BY <1>2, <1>3, <1>5
<1>7. w[2] <= 48 * (w[1] \div 48 + 2)
  <2>1. d <= w[1] \div 48 /\ w[1] \div 48 \in Int
    BY <1>3, <1>5, <1>6
  <2> QED BY <1>3, <1>5, <1>6, <2>1
<1>8. ASSUME NEW moment \in w[1]..(w[2] - 1) PROVE PermitsAt(page, moment)
  <2> DEFINE t == moment - 48 * d
  <2>1. t \in x[1]..(x[2] - 1) /\ 48 * d + t = moment
    BY <1>3, <1>5, <1>6
  <2> HIDE DEF t
  <2>2. PermitsAt(page, 48 * d + t)
    BY <1>4, <2>1 DEF Day
  <2> QED BY <2>1, <2>2
<1> QED BY <1>6, <1>7, <1>8

\* The windows of a trip are those of its calendar, whose every moment the page permits.
LEMMA OpenAsRead ==
  ASSUME RoadInv, ReadInv, VisitorInv, LeftInv
  PROVE  OpenOnlyAsPublished
<1>1. plan.at = "waiting" /\ Eligible(calendar) =>
        \A d \in -1..(Horizon + 1) : \A w \in DayIntervals(calendar, d) : \A t \in w[1]..(w[2] - 1) :
          PermitsAt(page, Day * d + t)
  <2> SUFFICES ASSUME Eligible(calendar), NEW d \in -1..(Horizon + 1), NEW w \in DayIntervals(calendar, d),
                      NEW t \in w[1]..(w[2] - 1)
               PROVE  PermitsAt(page, Day * d + t)
    OBVIOUS
  <2>1. d \in Int
    BY PublishedAssumption
  <2> QED BY <2>1, ReadIsOpen DEF OpenAt
<1>2. ASSUME page # NoPage, plan.stops # <<>>, plan.stops[Len(plan.stops)].kind = "stop",
             NEW left, left = plan.now + Offset(plan.zone), NEW moment \in (left - trip.visits[1].dwell)..(left - 1)
      PROVE  PermitsAt(page, moment)
  <2> DEFINE v == trip.visits[1]
  <2>1. TripTyped /\ plan.at # "waiting" /\ n = 1 /\ plan.now \in Int /\ plan.zone \in Zones /\ plan.day \in Int
    BY <1>2 DEF RoadInv, Road, Ordered, PlanTyped, VisitorInv
  <2>2. Eligible(calendar) /\ v.calendar = Imported(calendar)
    BY <1>2, <2>1 DEF VisitorInv
  <2>3. v.calendar.any = FALSE /\ Windows(v) = TripWindows(calendar)
    BY <2>2 DEF Imported, Windows
  <2>4. plan.stops[Len(plan.stops)].visit = 1
    BY <1>2, <2>1 DEF LeftInv
  <2>5. InWindow(v, left)
    BY <1>2, <2>4 DEF LeftInv
  <2>6. left \in Int /\ v.dwell \in Int
    <3>1. Offset(plan.zone) \in Int
      BY <2>1, Clocks
    <3>2. VisitTyped(v)
      BY <2>1 DEF TripTyped
    <3> QED BY <1>2, <2>1, <3>1, <3>2 DEF VisitTyped
  <2>7. PICK w \in TripWindows(calendar) : w[1] <= left - v.dwell /\ left <= w[2]
    BY <2>3, <2>5 DEF InWindow
  <2>8. w[1] \in Int /\ w[2] \in Int /\ \A m \in w[1]..(w[2] - 1) : PermitsAt(page, m)
    BY <2>2, WindowPermits
  <2>9. moment \in w[1]..(w[2] - 1)
    BY <1>2, <2>6, <2>7, <2>8
  <2> QED BY <2>8, <2>9
<1>3. page # NoPage /\ plan.stops # <<>> /\ plan.stops[Len(plan.stops)].kind = "stop" =>
        LET left == plan.now + Offset(plan.zone)
        IN \A moment \in (left - trip.visits[1].dwell)..(left - 1) : PermitsAt(page, moment)
  BY <1>2
<1> QED BY <1>1, <1>3 DEF OpenOnlyAsPublished

-----------------------------------------------------------------------------
(* Calendars of departing trips *)

\* A trip, asked for or still waiting for its calendar, begins at its departure.
LEMMA AgeBegins == CatalogInit => AgeInv
<1> SUFFICES ASSUME CatalogInit PROVE AgeInv
  OBVIOUS
<1>1. RoadInv /\ 0 \in 0..MaxNights
  BY BeginsOnCourse, ScheduleAssumption
<1>2. /\ plan.stops = <<>> /\ plan.nights = 0 /\ plan.day = 0 /\ plan.now = trip.departure
      /\ plan.at = "waiting" \/ \A k \in 1..n : CalendarTyped(trip.visits[k].calendar)
  <2>1. CASE ScheduleInit
    BY <2>1, ScheduleBegins DEF NewPlan
  <2>2. CASE plan = [NewPlan(trip.departure) EXCEPT !.at = "waiting"]
    BY <2>2 DEF NewPlan
  <2> QED BY <2>1, <2>2 DEF CatalogInit, AnyVisitor, PublishedInit
<1>3. trip.departure <= plan.now
  <2>1. trip.departure \in Int
    BY <1>1 DEF RoadInv, Road, TripTyped
  <2> QED BY <1>2, <2>1
<1>4. VisitsWerePossible
  BY <1>2 DEF VisitsWerePossible
<1> QED BY <1>1, <1>2, <1>3, <1>4 DEF AgeInv

\* The calendar with which a trip departs has windows that close on the next day at the latest.
LEMMA DepartingAge ==
  ASSUME AgeInv, ReadInv, VisitorInv, Depart
  PROVE  AgeInv'
<1>1. RoadInv'
  BY Departing DEF AgeInv
<1>2. n' = n /\ n = 1 /\ trip'.visits[1].calendar = Imported(calendar) /\ plan'.stops = <<>>
  BY DepartsWith DEF AgeInv, Depart, VisitorInv
<1>3. CalendarTyped(Imported(calendar))
  <2>1. ASSUME NEW w \in TripWindows(calendar) PROVE w \in Int \X Int /\ w[2] <= 48 * (w[1] \div 48 + 2)
    <3>1. w[1] \in Int /\ w[2] \in Int /\ w[2] <= 48 * (w[1] \div 48 + 2)
      BY WindowPermits DEF Depart
    <3>2. w = <<w[1], w[2]>>
      BY DEF TripWindows
    <3> QED BY <3>1, <3>2
  <2> QED BY <2>1 DEF CalendarTyped, Imported, Day
<1>4. \A k \in 1..n' : CalendarTyped(trip'.visits[k].calendar)
  BY <1>2, <1>3
<1>5. trip'.departure = trip.departure /\ plan'.now = plan.now /\ plan'.nights = plan.nights /\ plan'.day = plan.day /\ plan.at = "waiting"
  BY DEF Depart, AgeInv, RoadInv, Road, TripTyped, PlanTyped
<1>6. VisitsWerePossible'
  BY <1>2 DEF VisitsWerePossible
<1> QED BY <1>1, <1>4, <1>5, <1>6 DEF AgeInv

\* Trips keep their age whatever the catalog does, and depart with calendars of the right form.
LEMMA AgeStays == AgeInv /\ ReadInv /\ VisitorInv /\ [CatalogNext]_catalogVars => AgeInv'
<1> SUFFICES ASSUME AgeInv, ReadInv, VisitorInv, [CatalogNext]_catalogVars PROVE AgeInv'
  OBVIOUS
<1>1. CASE UNCHANGED scheduleVars
  <2>1. RoadInv'
    BY <1>1, SameRoad DEF AgeInv, RoadInv, scheduleVars
  <2>2. VisitsWerePossible'
    BY <1>1, SamePossible DEF AgeInv, VisitsWerePossible, scheduleVars
  <2> QED BY <1>1, <2>1, <2>2 DEF AgeInv, scheduleVars, n
<1>2. CASE Depart
  BY <1>2, DepartingAge
<1>3. CASE ScheduleNext
  BY <1>3, VisitsStay
<1>4. ASSUME NEW source, Import(source) PROVE AgeInv'
  BY <1>1, <1>4 DEF Import
<1>5. CASE Look
  BY <1>1, <1>5 DEF Look
<1>6. CASE UNCHANGED publishedVars
  BY <1>1, <1>6 DEF publishedVars, scheduleVars
<1> QED BY <1>2, <1>3, <1>4, <1>5, <1>6, PublishedSteps DEF CatalogNext, catalogVars

\* Hours that are served or imported are their page's, and trips keep what they departed with.
LEMMA TripsRead == CatalogSpec => [](ReadInv /\ VisitorInv /\ LeftInv)
<1>1. CatalogSpec => []RoadInv
  BY BeginsOnCourse, StaysOnCourse, PTL DEF CatalogSpec
<1>2. CatalogSpec => []EvidenceInv
  BY EvidenceBegins, EvidenceStays, Invariant, PTL DEF CatalogSpec
<1>3. CatalogSpec => []RefreshInvariant
  BY RefreshBegins, RefreshStays, <1>2, Invariant, PTL DEF CatalogSpec
<1>4. CatalogSpec => []StatedInv
  BY StatedBegins, StatedStays, <1>2, Invariant, PTL DEF CatalogSpec
<1>5. RefreshInvariant => ServingInv
  BY DEF RefreshInvariant
<1>6. CatalogSpec => []ReadInv
  BY ReadBegins, ReadStays, <1>3, <1>4, <1>5, Invariant, PTL DEF CatalogSpec
<1>7. CatalogSpec => [](VisitorInv /\ LeftInv)
  BY VisitorBegins, VisitorStays, LeftStays, <1>1, PTL DEF CatalogSpec
<1> QED BY <1>6, <1>7, PTL

\* OpenOnlyAsPublished: for any worlds, pages, days and trips, no adapter, merge, enrichment or refresh, and no reading
\* of a calendar widens what a page permits: a place is open to routing, and a visit takes place, only as published.
THEOREM NeverWidened == CatalogSpec => []OpenOnlyAsPublished
<1>1. CatalogSpec => []RoadInv
  BY BeginsOnCourse, StaysOnCourse, PTL DEF CatalogSpec
<1>2. RoadInv /\ ReadInv /\ VisitorInv /\ LeftInv => OpenOnlyAsPublished
  BY OpenAsRead
<1> QED BY <1>1, <1>2, TripsRead, PTL

\* VisitsWerePossible: for any policies, departures, routes and visits, and calendars given, imported or served,
\* whatever the scheduler visits, on whatever day and side of the border, the filter before discovery would not
\* have removed.
THEOREM FilterIsSafe == CatalogSpec => []VisitsWerePossible
<1>1. CatalogSpec => []AgeInv
  BY AgeBegins, AgeStays, TripsRead, PTL DEF CatalogSpec
<1>2. AgeInv => VisitsWerePossible
  BY DEF AgeInv
<1> QED BY <1>1, <1>2, PTL
=============================================================================
