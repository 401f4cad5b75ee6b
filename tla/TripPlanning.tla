------------------------------ MODULE TripPlanning ------------------------------
(***************************************************************************)
(* One CP-SAT trip: discovery rounds, road checks, selection, scheduling,  *)
(* the final reroute and the reselection after a conflict                  *)
(* (backend/app/routers/routing_api.py, routing/planners/cp_sat.py,        *)
(* routing/sources/persona_candidates.py, routing/cp_sat_selection.py,     *)
(* routing/catalog_calendars.py), while the catalog changes under it.      *)
(* What the schedule and the clocks decide about a visit is left open      *)
(* here; TripSchedule models it.                                           *)
(***************************************************************************)
EXTENDS PlacesCatalog, FiniteSetsExt

CONSTANTS
  Wanted,          \* requested stops
  Match,           \* of each place, its utility for this traveller; 0 is not eligible
  Loss,            \* accepted loss of average match
  CandidateCap,    \* bound on the shortlist and on one round's ratings
  MaxSearches

ASSUME PlanningAssumption ==
  /\ {Wanted, CandidateCap, MaxSearches} \subseteq Nat \ {0} /\ Loss \in Nat /\ Match \in [Places -> Nat]

RatingCap == 2 * CandidateCap
RawCap == 3 * CandidateCap
Attempts == CandidateCap + 1          \* plan_final_route's range(61), for a cap of 60

VARIABLE trip

planVars == <<catalog, walk, trip>>

Unsent == [p \in Places |-> 0]
NewTrip == [at |-> "search", searched |-> {}, raw |-> {}, attempted |-> {}, frozen |-> {}, rated |-> {},
            asked |-> {}, sent |-> Unsent, repaired |-> {}, facts |-> [p \in Places |-> NoGeneration],
            cands |-> {}, left |-> {}, budget |-> 0, excluded |-> {}, stops |-> {}, tries |-> 0,
            current |-> NoGeneration]

PlanInit == CatalogInit /\ trip = NewTrip

\* The next step of the trip, which changes nothing else.
Turn(at, new) == trip' = [new EXCEPT !.at = at] /\ UNCHANGED <<catalog, walk>>
\* An error ends the trip, and what it had read and found is gone.
Raise == trip' = [NewTrip EXCEPT !.at = "refused"] /\ walk' = Idle /\ UNCHANGED catalog
SomeOf(S, n) == {T \in SUBSET S : Cardinality(T) = Min({n, Cardinality(S)})}

\* What was read of a place says that it can be visited, and its admission is current.
Usable(p) == Admitted(trip.facts[p], p) /\ p \notin imports[trip.facts[p]].shut
Likeable(S) == {p \in S : Match[p] > 0 /\ Usable(p)}

-----------------------------------------------------------------------------
(* Discovery *)

\* Any point not searched yet.
Search(q) ==
  /\ trip.at = "search" /\ q \notin trip.searched
  /\ StartWalk(q)
  /\ trip' = [trip EXCEPT !.at = "walking", !.searched = @ \cup {q}]
  /\ UNCHANGED catalog

\* Seeded bug: a place that is found again is rated again.
Everything(raw) == raw
\* No earlier round sent these to be rated.
Unrated(raw) == raw \ trip.attempted

\* The pool is cut to its cap; as many as the rating budget allows are frozen for rating.
Gather ==
  /\ trip.at = "walking" /\ walk.at = "done"
  /\ \E raw \in SomeOf(trip.raw \cup Found, RawCap) :
       \E frozen \in SomeOf(Unrated(raw), Min({RatingCap - Cardinality(trip.attempted), CandidateCap})) :
         trip' = [trip EXCEPT !.at = "rating", !.raw = raw, !.frozen = frozen, !.attempted = @ \cup frozen,
                              !.facts = [p \in Places |-> IF p \in Found \ trip.raw THEN walk.gen ELSE @[p]]]
  /\ walk' = Idle /\ UNCHANGED catalog

\* A paid request for the ratings of these places.
Send(group) == [p \in Places |-> trip.sent[p] + (IF p \in group THEN 1 ELSE 0)]

\* rate: the stored ratings of some places are reused; the others go out in groups, of any size because two of
\* a name are kept apart. A round's groups are disjoint and asked for side by side, so one order of them is
\* enough. A group of which the answer rates nothing is kept for one more request.
Ask ==
  /\ trip.at = "rating" /\ trip.frozen # {}
  /\ \E group \in SUBSET trip.frozen :
       /\ Min(trip.frozen) \in group
       /\ \/ trip' = [trip EXCEPT !.frozen = @ \ group, !.rated = @ \cup group]
          \/ \E answered \in SUBSET group :
               trip' = [trip EXCEPT !.frozen = @ \ group, !.sent = Send(group), !.rated = @ \cup answered,
                                    !.asked = IF answered = {} THEN group ELSE {},
                                    !.at = IF answered = {} THEN "repair" ELSE "rating"]
  /\ UNCHANGED <<catalog, walk>>

\* The second pass of range(2), with repair set; what it leaves unrated stays unrated.
Repair ==
  /\ trip.at = "repair"
  /\ \E answered \in SUBSET trip.asked :
       trip' = [trip EXCEPT !.at = "rating", !.sent = Send(trip.asked), !.rated = @ \cup answered,
                            !.repaired = @ \cup trip.asked, !.asked = {}]
  /\ UNCHANGED <<catalog, walk>>

\* Seeded bug: only what was found and rated ends the discovery.
FoundEnough(rated) ==
  \/ Cardinality(Likeable(rated)) >= 3 * Wanted /\ \A q \in Points : Likeable(rated) \cap Near[q] # {}
  \/ Cardinality(trip.attempted) >= RatingCap
\* Enough is found on every stretch, or a budget is used up, or there is no new point.
SearchedEnough(rated) ==
  LET eligible == Likeable(rated)
  IN \/ Cardinality(eligible) >= 3 * Wanted /\ \A q \in Points : eligible \cap Near[q] # {}
     \/ Cardinality(trip.attempted) >= RatingCap
     \/ Cardinality(trip.searched) >= MaxSearches
     \/ trip.searched = Points

\* The end of the round; the first one that sends something and gets no rating refuses the trip. What was sent
\* is counted until the last round ends.
Rate ==
  /\ trip.at = "rating" /\ trip.frozen = {}
  /\ IF trip.attempted # {} /\ trip.rated = {} THEN Raise
     ELSE IF SearchedEnough(trip.rated) THEN Turn("roads", [trip EXCEPT !.sent = Unsent, !.repaired = {}])
     ELSE Turn("search", trip)

\* The shortlist's solo detours; places without a road are left out.
CheckRoads ==
  /\ trip.at = "roads"
  /\ \E shortlist \in SomeOf(Likeable(trip.rated), CandidateCap) : \E cands \in SUBSET shortlist :
       Turn("plan", [trip EXCEPT !.cands = cands])

-----------------------------------------------------------------------------
(* Selection and scheduling *)

\* Seeded bug: a new selection starts from everything that was road-checked.
AllCandidates == trip.cands
\* What an earlier conflict excluded is not considered again.
Remaining == {p \in trip.cands : Usable(p)} \ trip.excluded

\* CPSatPlanner.plan with the road-checked pool; one selection more than candidates.
Plan ==
  /\ trip.at = "plan"
  /\ Turn("select", [trip EXCEPT !.left = Remaining, !.budget = Cardinality(Remaining) + 1])

\* The sum of their matches, each counted out.
Total(S) == Cardinality(UNION {{p} \X (1..Match[p]) : p \in S})

\* select_attractions: as many as asked for, no more than Loss below the best average.
Selections(eligible) ==
  LET best == Max({Total(S) : S \in SomeOf(eligible, Wanted)})
  IN {S \in SomeOf(eligible, Wanted) : Total(S) + Loss * Cardinality(S) >= best}

\* The loop of selections, which leaves the schedule unbound when it runs out; a conflict takes its candidate out.
Select ==
  LET eligible == Likeable(trip.left)
      next == [trip EXCEPT !.budget = @ - 1]
  IN /\ trip.at = "select"
     /\ IF trip.budget = 0 THEN Turn("unbound", trip)
        ELSE IF Selections(eligible) = {} THEN Turn("infeasible", next)
        ELSE \E S \in Selections(eligible) : Turn("schedule", [next EXCEPT !.stops = S])

\* A visit whose admission is over conflicts; any other may, for its hours or the driving day.
Schedule ==
  /\ trip.at = "schedule"
  /\ \/ \E p \in trip.stops :
          Turn("select", [trip EXCEPT !.left = @ \ {p}, !.excluded = @ \cup {p}, !.stops = {}])
     \/ (\A p \in trip.stops : Admitted(trip.facts[p], p)) /\ Turn("reroute", trip)

-----------------------------------------------------------------------------
(* The final route *)

\* plan_final_route's handler of a conflict.
Conflict(p) ==
  IF p \in trip.excluded THEN Turn("raised", trip)
  ELSE Turn(IF trip.tries + 1 = Attempts THEN "limit" ELSE "plan",
            [trip EXCEPT !.excluded = @ \cup {p}, !.stops = {}, !.tries = @ + 1])

Reroute == trip.at = "reroute" /\ Turn("refresh", trip)

\* Seeded bug: the final check reads the generation the place was found in.
Remembered(p) == trip.facts[p]
\* current_records reads the active generation.
InForce(p) == active

\* refresh_for_timing: the place is there, not held, admitted, open and where it was.
StillThere(p) ==
  LET g == InForce(p)
  IN /\ g # NoGeneration /\ p \in imports[g].rows
     /\ SqlAdmitted(g, p) /\ p \notin imports[g].shut
     /\ (p \in imports[g].moved) = (p \in imports[trip.facts[p]].moved)
Outdated(p) == ~StillThere(p)

Refresh ==
  /\ trip.at = "refresh"
  /\ \/ \E p \in trip.stops : Outdated(p) /\ Conflict(p)
     \/ (\A p \in trip.stops : ~Outdated(p)) /\ Turn("timing", [trip EXCEPT !.current = active])

\* apply_timing with the actual legs, which checks each visit once more.
Time ==
  /\ trip.at = "timing"
  /\ \/ \E p \in trip.stops : Conflict(p)
     \/ (\A p \in trip.stops : Admitted(trip.current, p)) /\ Turn("accepted", trip)

\* A provider, the solver, the schedule or the final timing refuses the trip.
Refuse ==
  /\ trip.at \in {"walking", "rating", "repair", "roads", "select", "schedule", "reroute", "refresh", "timing"}
  /\ Raise

\* A release restarts the process.
Restart == Release /\ trip' = [NewTrip EXCEPT !.at = "lost"]

Walk == (ReadPage \/ TakePage) /\ UNCHANGED trip

PlanStep ==
  \/ \E q \in Points : Search(q)
  \/ Walk \/ Gather \/ Ask \/ Repair \/ Rate \/ CheckRoads \/ Plan \/ Select \/ Schedule \/ Reroute \/ Refresh \/ Time

PlanNext == PlanStep \/ Refuse \/ Restart \/ (CatalogStep /\ UNCHANGED trip)

PlanSpec == PlanInit /\ [][PlanNext]_planVars
FairPlanSpec == PlanSpec /\ WF_planVars(PlanStep)

-----------------------------------------------------------------------------
(* Properties *)

PlanTypeOK ==
  /\ CatalogTypeOK
  /\ trip.searched \subseteq Points /\ trip.raw \cup trip.attempted \cup trip.rated \subseteq Places
  /\ trip.sent \in [Places -> Nat] /\ trip.asked \cup trip.repaired \subseteq Places
  /\ trip.facts \in [Places -> Generations \cup {NoGeneration}]
  /\ trip.cands \cup trip.left \cup trip.stops \cup trip.excluded \subseteq Places

\* However often a place is found, dropped from the pool and found again, one round alone sends it to be rated,
\* and there once, or twice where the first answer rated nothing of its group; and all rounds together send no
\* more places than the rating budget allows.
RatedInOneRound ==
  /\ \A p \in Places : trip.sent[p] <= IF p \in trip.repaired THEN 2 ELSE 1
  /\ Cardinality({p \in Places : trip.sent[p] > 0}) <= RatingCap

\* The two reselection loops never run out: an exclusion always leaves a smaller pool, no place conflicts
\* twice, every selection is feasible, and the schedule's result is bound when it is used.
ReselectionSuffices == trip.at \notin {"limit", "raised", "unbound", "infeasible"}

\* The stops of an accepted trip, found under generations that may all have been replaced, are visitable and at
\* the same coordinates in the generation that was active at the last check, and if they need an admission
\* contract, the one recorded there is for routing; one that an audit holds has an exception for this very row
\* and all of its held identities, which does not renew its admission.
StopsCurrent ==
  trip.at = "accepted" => \A p \in trip.stops :
    /\ p \in imports[trip.current].rows \ imports[trip.current].shut /\ p \in Routable[trip.current]
    /\ LET f == Row(trip.current, p).facts
       IN Identities(f) \cap held # {} =>
            /\ \E e \in Exceptions(registry) : e.facts = f /\ e.ids = Identities(f) \cap held
            /\ \E old \in f.history : \A c \in f.contracts, was \in old.contracts : was.expires >= c.expires
    /\ (p \in imports[trip.current].moved) = (p \in imports[trip.facts[p]].moved)
    /\ p \notin trip.excluded

\* Every trip is accepted or refused, whatever the catalog does meanwhile.
TripEnds == <>(trip.at \in {"accepted", "refused", "lost"})
=============================================================================
