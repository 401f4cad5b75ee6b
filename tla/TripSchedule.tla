------------------------------ MODULE TripSchedule ------------------------------
(***************************************************************************)
(* The two clocks of a trip: the scheduler, which splits the estimated     *)
(* driving into days with visits and dated hotels                          *)
(* (backend/app/routing/cp_sat_scheduler.py), and the final check with the *)
(* actual legs (routing/travel_timing.py); the rule that decides before    *)
(* discovery whether a place can be visited at all                         *)
(* (routing/trip_calendar.py, routing/visit_calendar.py).                  *)
(* Time counts half hours from midnight of the departure day where the     *)
(* route starts; zone 1 begins Border along the route and is Shift ahead.  *)
(***************************************************************************)
EXTENDS Integers, Sequences, FiniteSetsExt

CONSTANTS
  Policies,     \* scheduling policies: local clocks
  Departures, Routes,   \* departure times; routes: driving time, border and shift
  Visits,       \* possible visits: position, detour, dwell and calendar
  MaxVisits, MaxNights

\* Clocks of a policy; SchedulingPolicy refuses any other order.
PolicyTyped(p) ==
  /\ {p.restart, p.preferred, p.latest, p.lateCutoff, p.destination} \subseteq 0..48
  /\ p.restart < p.preferred /\ p.preferred <= p.latest /\ p.latest <= p.lateCutoff

RouteTyped(r) == r.drive \in Nat /\ r.border \in Int /\ r.shift \in Int

VisitTyped(v) ==
  v \in [position : Nat, detour : Nat, dwell : Nat \ {0}, calendar : {v.calendar}] /\ v.detour % 2 = 0

\* Windows of a date close at the end of the next one at the latest.
CalendarTyped(c) ==
  /\ c.fixed \subseteq Int /\ c.windows \subseteq Int \X Int
  /\ \A w \in c.windows : w[2] <= 48 * (w[1] \div 48 + 2)

ASSUME ScheduleAssumption ==
  /\ MaxVisits \in Nat /\ MaxNights \in Nat /\ Departures \subseteq 0..47
  /\ (\A p \in Policies : PolicyTyped(p)) /\ (\A r \in Routes : RouteTyped(r))
  /\ \A v \in Visits : VisitTyped(v) /\ CalendarTyped(v.calendar)

VARIABLES
  trip,        \* what is asked for: policy, departure, route and selected visits
  plan,        \* the scheduler's state
  check        \* the final check's state

scheduleVars == <<trip, plan, check>>

Day == 48
Zones == {0, 1}
Offset(z) == z * trip.route.shift
Least(a, b) == IF a <= b THEN a ELSE b
Most(a, b) == IF a >= b THEN a ELSE b

-----------------------------------------------------------------------------
(* The scheduling policy *)

At(day, clock, z) == Day * day + clock - Offset(z)
DateIn(t, z) == (t + Offset(z)) \div Day

Cutoff == IF trip.policy.late THEN trip.policy.lateCutoff ELSE trip.policy.latest

\* arrival_cutoff; 21:00 for a destination, unless late driving is allowed.
FinalCutoff ==
  LET policy == trip.policy
  IN IF policy.late THEN Least(policy.destination, policy.lateCutoff)
     ELSE LET cutoff == Least(Least(policy.destination, 42), policy.lateCutoff)
          IN IF policy.latest < 40 THEN Least(cutoff, policy.latest) ELSE cutoff

Deadline(day, z) == At(day, Cutoff, z)
FinalDeadline(day, z) == At(day, FinalCutoff, z)
Preferred(day, z) == At(day, trip.policy.preferred, z)
Restart(day, z) == At(day + 1, trip.policy.restart, z)

-----------------------------------------------------------------------------
(* Visits *)

Windows(v) == v.calendar.windows

\* solve_visit: the earliest start of a full visit in a published window before the deadline.
Starts(v, z, arrival, deadline) ==
  {s \in arrival..(deadline - v.dwell) :
     /\ v.calendar.fixed # {} => s + Offset(z) \in v.calendar.fixed
     /\ \E w \in Windows(v) : w[1] <= s + Offset(z) /\ s + Offset(z) + v.dwell <= w[2]}

Solvable(v, z, arrival, deadline) == v.calendar.any \/ Starts(v, z, arrival, deadline) # {}
Start(v, z, arrival, deadline) == IF v.calendar.any THEN arrival ELSE Min(Starts(v, z, arrival, deadline))

\* Seeded bug: the departure's own date in the origin is forgotten.
LastDayThere(first) == first + MaxNights
\* The last day of the trip, by either of the two dates of its departure.
LastDay(first) == Most(first, 0) + MaxNights

\* possible_visit: one full visit in a window of some day of the longest trip.
PossibleVisit(v, z) ==
  LET earliest == trip.departure + Offset(z)
      first == earliest \div Day
      last == LastDay(first)
  IN v.calendar.any \/ \E w \in Windows(v) :
       LET closes == Least(w[2], Day * (last + 1))
           lower == Most(earliest, w[1])
           upper == closes - v.dwell
       IN /\ w[1] \div Day \in (first - 1)..last
          /\ IF v.calendar.fixed = {} THEN lower <= upper ELSE v.calendar.fixed \cap (lower..upper) # {}

-----------------------------------------------------------------------------
(* The scheduler *)

\* Driving time up to each event, the end the last: half of a visit's detour lies before it.
Targets(route, visits) ==
  LET m == Len(visits)
      detours[k \in 0..m] == IF k = 0 THEN 0 ELSE detours[k - 1] + visits[k].detour
  IN [k \in 1..(m + 1) |->
        IF k > m THEN route.drive + detours[m]
        ELSE visits[k].position + detours[k - 1] + visits[k].detour \div 2]

n == Len(trip.visits)
Target(k) == trip.targets[k]
Total == Target(n + 1)

\* estimated_position: whether the driving time reaches the border on the baseline route.
ZoneAfter(driven) ==
  LET k == Cardinality({j \in 1..n : Target(j) < driven})
      a == IF k = 0 THEN 0 ELSE Target(k) + trip.visits[k].detour \div 2
      from == IF k = 0 THEN 0 ELSE trip.visits[k].position
      to == IF k = n THEN trip.route.drive ELSE trip.visits[k + 1].position
      b == Target(k + 1)
      beyond == IF driven <= a \/ a = b THEN from >= trip.route.border
                ELSE (driven - a) * (to - from) >= (trip.route.border - from) * (b - a)
  IN IF beyond THEN 1 ELSE 0

PlaceZone(position) == IF position >= trip.route.border THEN 1 ELSE 0
EventZone(k) == PlaceZone(IF k > n THEN trip.route.drive ELSE trip.visits[k].position)
Dwell(k) == IF k > n THEN 0 ELSE trip.visits[k].dwell

DriveLeft == Most(0, Target(plan.event) - plan.driven)
CanFinish ==
  Total - plan.driven + MapThenSumSet(LAMBDA j : Dwell(j), plan.event..n)
    <= FinalDeadline(plan.day, EventZone(n + 1)) - plan.now
EventLimit ==
  LET z == EventZone(plan.event)
  IN IF ~CanFinish THEN Preferred(plan.day, z)
     ELSE IF plan.event > n THEN FinalDeadline(plan.day, z) ELSE Deadline(plan.day, z)
Reachable == DriveLeft + Dwell(plan.event) <= EventLimit - plan.now

Stop(kind, z, leg, v) == [kind |-> kind, zone |-> z, leg |-> leg, visit |-> v, day |-> plan.day]

\* The next visit, or the destination, is reached on this day.
Arrive ==
  LET k == plan.event
      z == EventZone(k)
      arrival == plan.now + DriveLeft
      there == [plan EXCEPT !.driven = Target(k), !.event = k + 1, !.zone = z]
  IN /\ plan.at = "driving" /\ Reachable
     /\ IF k > n
        THEN plan' = [there EXCEPT !.at = "scheduled", !.now = arrival, !.stops = Append(@, Stop("end", z, DriveLeft, 0))]
        ELSE LET v == trip.visits[k]
             IN IF Solvable(v, z, arrival, EventLimit)
                THEN plan' = [there EXCEPT !.now = Start(v, z, arrival, EventLimit) + v.dwell,
                                           !.stops = Append(@, Stop("stop", z, DriveLeft, k))]
                ELSE plan' = [plan EXCEPT !.at = "conflict"]
     /\ UNCHANGED <<trip, check>>

\* The drive towards the preferred arrival, its zone refined three times.
Towards(z) == Least(DriveLeft, Most(0, Preferred(plan.day, z) - plan.now))
NightZone ==
  LET refined == [z \in Zones |-> ZoneAfter(plan.driven + Towards(z))]
  IN refined[refined[refined[plan.zone]]]

\* Six searches around it, the cutoff among them, none after it.
HotelDrives ==
  LET base == Towards(NightZone)
      cutoff == Deadline(plan.day, NightZone) - plan.now - base
      trials == {Least(DriveLeft, Most(0, base + offset)) : offset \in {0, -1, 1, -2, cutoff, -5}}
  IN {d \in trials : plan.now + d <= Deadline(plan.day, ZoneAfter(plan.driven + d))}

\* Seeded bug: a hotel is measured by the clock of the searched position.
SearchedZone(z, d) == ZoneAfter(plan.driven + d)
\* A hotel is measured by the clock of its own coordinates.
HotelZone(z, d) == z

Overnight(d, z) ==
  LET arrival == plan.now + d
  IN /\ plan.nights < MaxNights
     /\ z \in {ZoneAfter(plan.driven + d + near) : near \in {-1, 0, 1}}
     /\ arrival <= Deadline(plan.day, HotelZone(z, d))
     /\ plan' = [plan EXCEPT !.at = IF arrival < Restart(plan.day, z) THEN "driving" ELSE "refused",
                             !.driven = @ + d, !.nights = @ + 1, !.now = Restart(plan.day, z),
                             !.day = DateIn(Restart(plan.day, z), z), !.zone = z,
                             !.stops = Append(@, Stop("hotel", z, d, 0))]
     /\ UNCHANGED <<trip, check>>

\* The overnight limit, or no hotel at any of the searches.
GiveUp ==
  /\ plan.at = "driving" /\ ~Reachable
  /\ plan' = [plan EXCEPT !.at = "refused"]
  /\ UNCHANGED <<trip, check>>

-----------------------------------------------------------------------------
(* The final check: apply_timing over the stops with the actual legs *)

\* One stop; a leg may be shorter or longer than its estimate.
Time(leg) ==
  LET stop == plan.stops[check.next]
      arrival == check.now + leg
      deadline == IF stop.kind = "end" THEN FinalDeadline(check.day, stop.zone) ELSE Deadline(check.day, stop.zone)
      passed == [check EXCEPT !.next = @ + 1, !.slower = @ \/ leg > stop.leg]
      outcome(at) == [passed EXCEPT !.at = at]
  IN /\ plan.at = "scheduled" /\ check.at = "timing" /\ check.next <= Len(plan.stops)
     /\ check' =
          CASE stop.kind = "stop" ->
                 LET v == trip.visits[stop.visit]
                     departs == Start(v, stop.zone, arrival, deadline) + v.dwell
                 IN IF ~Solvable(v, stop.zone, arrival, deadline) THEN outcome("conflict")
                    ELSE IF departs > deadline THEN outcome("late")
                    ELSE [passed EXCEPT !.now = departs]
            [] stop.kind = "hotel" ->
                 IF arrival > deadline THEN outcome("late")
                 ELSE IF stop.day # check.day THEN outcome("stay changed")
                 ELSE IF arrival >= Restart(check.day, stop.zone) THEN outcome("no night")
                 ELSE [passed EXCEPT !.now = Restart(check.day, stop.zone),
                                     !.day = DateIn(Restart(check.day, stop.zone), stop.zone)]
            [] stop.kind = "end" -> IF arrival > deadline THEN outcome("late") ELSE outcome("passed")
     /\ UNCHANGED <<trip, plan>>

TripOf(policy, departure, route, visits) ==
  [policy |-> policy, departure |-> departure, route |-> route, visits |-> visits, targets |-> Targets(route, visits)]
NewPlan(departure) ==
  [at |-> "driving", event |-> 1, driven |-> 0, now |-> departure, day |-> 0, zone |-> 0, nights |-> 0, stops |-> <<>>]
NewCheck(departure) == [at |-> "timing", next |-> 1, now |-> departure, day |-> 0, slower |-> FALSE]

ScheduleInit ==
  /\ \E policy \in Policies, departure \in Departures, route \in Routes, m \in 0..MaxVisits :
       \E visits \in [1..m -> Visits] : trip = TripOf(policy, departure, route, visits)
  /\ \A k \in DOMAIN trip.visits : trip.visits[k].position <= trip.route.drive
  /\ \A k \in 2..Len(trip.visits) : trip.visits[k - 1].position < trip.visits[k].position
  /\ trip.departure < Deadline(0, 0)
  /\ plan = NewPlan(trip.departure)
  /\ check = NewCheck(trip.departure)

ScheduleNext ==
  \/ Arrive \/ GiveUp
  \/ plan.at = "driving" /\ ~Reachable /\ \E d \in HotelDrives, z \in Zones : Overnight(d, z)
  \/ \E i \in DOMAIN plan.stops : \E leg \in 0..(plan.stops[i].leg + 1) : check.next = i /\ Time(leg)

ScheduleSpec == ScheduleInit /\ [][ScheduleNext]_scheduleVars

-----------------------------------------------------------------------------
(* Properties *)

\* docs/arrival-timing.md: estimates are held to the destination's own deadline, like the final route.
ScheduledByDeadline ==
  plan.at = "scheduled" => plan.now <= FinalDeadline(plan.day, EventZone(n + 1))

\* A schedule holds on the road: while no actual leg is longer than its estimate, the final check, which
\* follows clocks of its own across zones, nights and waits for opening hours, refuses nothing but a
\* destination whose deadline is before the preferred hotel arrival, up to which the scheduler drives on.
ScheduleHolds ==
  check.at \notin {"timing", "passed"} =>
    \/ check.slower
    \/ check.at = "late" /\ check.next = Len(plan.stops) + 1 /\ FinalCutoff < trip.policy.preferred

\* The filter before discovery only removes places that no schedule could visit.
VisitsWerePossible ==
  \A i \in DOMAIN plan.stops : plan.stops[i].kind = "stop" =>
    PossibleVisit(trip.visits[plan.stops[i].visit], plan.stops[i].zone)
=============================================================================
