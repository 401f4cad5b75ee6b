----------------------------- MODULE ArrivalEvidence -----------------------------
(***************************************************************************)
(* How the source adapters of the catalog judge one source record          *)
(* (backend/app/catalog/kaggle_*.py, nps*.py, automated_nps*.py, usfs*.py, *)
(* boulder.py, roadside.py, pilot.py): its identity, what its publishers   *)
(* say of it, the points that others give for it, the road at which a      *)
(* drive to it ends.  Evidence is one record: `says' and `points' by       *)
(* publisher, `read' the day on which its oldest page was read, `genuine'  *)
(* what checksums, licences and pinned selections establish.  Places lie   *)
(* on a line whose unit is 25 metres; what the code asks to agree within   *)
(* three metres is the same point here.                                    *)
(***************************************************************************)
EXTENDS PublishedHours

CONSTANTS
  NoProof,        \* no point, drive, way or page has been retained
  Month           \* days for which a page is evidence, 30 in the code

ASSUME MonthAssumption == Month \in Nat \ {0}

Street == 3       \* 75 metres: the drive ends at the place
Block == 4        \* 100 metres: two points of one address
Trailhead == 8    \* two thousandths of a degree
Campus == 10      \* 250 metres: two places may be one arrival
Reserve == 20     \* 500 metres: two points of one recreation site

Distance(a, b) == Max({a - b, b - a})
ToWay(at, way) == IF at < way.from THEN way.from - at ELSE IF way.to < at THEN at - way.to ELSE 0
Inside(at, area) == area # NoProof /\ ToWay(at, area) = 0

\* checked_time and its likes: no page is of the future or older than its bound.
Fresh(r, day, age) == day - r.read \in 0..age
Says(r, publisher, what) == publisher \in DOMAIN r.says /\ r.says[publisher] \in what

-----------------------------------------------------------------------------
(* The drive and the mapped ways at its end *)

\* driving: the distance that the router reports for the unchanged native point.
Drives(r) == r.drive # NoProof /\ r.drive.claimed <= Street

\* driving_destination: the reported distance is that of the returned point.
Destination(r) == r.drive # NoProof /\ Distance(r.at, r.drive.snap) = r.drive.claimed

Local == {"residential", "unclassified", "tertiary", "service"}
Through == Local \cup {"primary", "secondary"}

\* The mapped way carries the returned point, passes the place and is open to visitors.
OnWay(r, classes) ==
  /\ r.way # NoProof /\ r.way.class \in classes /\ ~r.way.barred
  /\ ToWay(r.drive.snap, r.way) = 0 /\ ToWay(r.at, r.way) <= Street
Named(r) == r.way.class # "service" /\ r.way.name # NoProof

\* public_arrival of kaggle_parks: the road, the lot if one is claimed, and what makes it the visitors'.
ParkArrival(r) ==
  /\ Drives(r) /\ OnWay(r, Through \cup {"trunk"}) /\ ~r.way.below
  /\ r.lot # NoProof => ~r.lot.barred /\ ToWay(r.at, r.lot) <= Street
  /\ \/ r.method = "parking" /\ Inside(r.at, r.lot)
     \/ r.method = "parking frontage" /\ r.lot # NoProof
     \/ r.method = "street" /\ Named(r)
     \/ /\ r.method = "building" /\ Inside(r.at, r.building)
        /\ IF r.entrance = NoProof THEN r.map ELSE Distance(r.at, r.entrance) <= 1
     \/ r.method = "entry" /\ r.map /\ \E marker \in r.markers : Distance(r.at, marker) <= Street

\* arrival_for of kaggle_cultural: a named public street, or the operator's own entrance.
CulturalArrival(r) ==
  /\ Destination(r) /\ Drives(r) /\ OnWay(r, Through) /\ ~r.way.below /\ r.parking
  /\ \/ r.method = "street" /\ Named(r) /\ r.way.name = r.drive.road
     \/ r.method = "entry" /\ \E marker \in r.markers : Distance(r.at, marker) <= Street

\* arrival_for of kaggle_coastal: a public street, a drive of the park that leaves one, or its paid parking.
CoastalArrival(r) ==
  LET inPark == Inside(r.drive.snap, r.park)
      inLot == Inside(r.drive.snap, r.lot) /\ ~r.lot.barred
  IN /\ Destination(r) /\ Drives(r) /\ OnWay(r, Local) /\ ~r.way.below /\ r.parking
     /\ \/ r.method = "street" /\ Named(r) /\ r.way.name = r.drive.road /\ r.way.name = r.street
        \/ r.method = "drive" /\ inPark /\ (r.lot # NoProof => inLot)
           /\ r.meets = 1 /\ ~r.way.customers
        \/ r.method = "paid" /\ inPark /\ inLot /\ r.lot.pays

-----------------------------------------------------------------------------
(* Reviewed places: theme parks, museums, beaches, trailheads, one roadside attraction *)

\* access_allowed: a positive day of the operator's own rule.
RuleAllows(rule, day) ==
  CASE rule.kind = "daily" -> TRUE
    [] rule.kind = "weekdays" -> Weekday(day) \in rule.days
    [] OTHER -> day \in rule.days

\* prepare of kaggle_parks; wiki_identity vetoes a dissolved park and needs its point.
ParkQualifies(r, day) ==
  /\ r.genuine /\ Fresh(r, day, Month)
  /\ Says(r, "operator", {"open"}) /\ ~Says(r, "wikidata", {"closed"}) /\ ~Says(r, "list", {"closed"})
  /\ RuleAllows(r.rule, day) /\ r.points.wikidata = r.at
  /\ ParkArrival(r)

\* replay of kaggle_cultural.
CulturalQualifies(r, day) ==
  /\ r.genuine /\ Fresh(r, day, Month) /\ Says(r, "operator", {"open"}) /\ CulturalArrival(r)

\* calendar_for of kaggle_coastal: a closure on either page vetoes the hours of the park.
CoastalQualifies(r, day) ==
  /\ r.genuine /\ Fresh(r, day, Month)
  /\ Says(r, "beach", {"open"}) /\ Says(r, "park", {"open"}) /\ CoastalArrival(r)

\* OperatorPage, arrival of boulder.py: the city's own directions replace the listed point.
TrailheadQualifies(r) ==
  /\ r.kind = "trailhead" /\ ~r.held /\ Says(r, "operator", {"open"}) /\ r.parking
  /\ Cardinality(r.markers) = 1 /\ \A marker \in r.markers : Distance(r.at, marker) <= Trailhead
TrailheadPoint(r) == CHOOSE marker \in r.markers : TRUE

\* prepare of roadside.py: the licensed point faces the street of its published address.
RoadsideQualifies(r, day) ==
  /\ r.genuine /\ Fresh(r, day, Month)
  /\ Says(r, "overture", {"open"}) /\ Says(r, "operator", {"open"}) /\ r.parking
  /\ r.drive # NoProof /\ r.drive.claimed <= 1 /\ r.drive.road = r.street

-----------------------------------------------------------------------------
(* Agencies: facilities of the National Park Service and of the Forest Service *)

\* dated_closure: on the day the page was read, or the day before, by a time zone's reach.
DatedClosure(r) ==
  \E c \in r.closures :
    \/ c.kind = "undated" /\ c.named
    \/ c.kind = "unclear"
    \/ c.kind = "annual" /\ \E d \in {r.read, r.read - 1} : WithinYear(c.range, YearDay(d))
    \/ c.kind = "dated" /\ \E d \in {r.read, r.read - 1} : c.range[1] <= d /\ d <= c.range[2]

\* normalize_arrival: text without a closure, some open hours, a car's way there and one state.
CenterQualifies(r) ==
  /\ r.kind = "center" /\ Says(r, "agency", {"open"}) /\ r.opens /\ (r.parking \/ r.byCar)
  /\ r.states # {}

\* prepare of nps.py: dated closures are read only if the manifest says so.
ParkCenterQualifies(r) == CenterQualifies(r) /\ (r.strict => ~DatedClosure(r))

\* prepare of nps_heritage.py and nps_nature.py: listed parking, a state of its own, and a drive.
SiteListed(r) == CenterQualifies(r) /\ r.parking /\ ~r.warns /\ r.ownState /\ ~DatedClosure(r)
SiteCenterQualifies(r) == SiteListed(r) /\ Drives(r)

\* prepare of nps_public.py
BeachLotQualifies(r) == r.kind = "beach" /\ r.spaces > 0 /\ ~Says(r, "agency", {"closed"})

\* public_season_conflict: bounds that are not days of the year restrict nothing here.
SeasonConflict(r, day) == r.season # NoProof /\ ~WithinYear(r.season, YearDay(day))

SameReserve(r) == r.points.public # NoProof /\ Distance(r.at, r.points.public) <= Reserve
OneState(r) == Cardinality(r.states) = 1

\* qualification of usfs.py: both feeds say open, the second near the first.
ReserveQualifies(r, day) ==
  /\ ~r.held /\ r.kind = "site" /\ r.parking /\ (r.warns => r.reviewed)
  /\ Says(r, "construction", {"open"}) /\ Says(r, "public", {"open"}) /\ ~SeasonConflict(r, day)
  /\ SameReserve(r) /\ OneState(r)

\* primary_qualification of usfs_current.py: a missing public record is not asserted open, a negative one vetoes.
PrimaryQualifies(r, day) ==
  /\ ~r.held /\ r.kind = "site" /\ (r.parking \/ r.spaces > 0) /\ ~r.warns
  /\ Says(r, "construction", {"open"})
  /\ "public" \in DOMAIN r.says => Says(r, "public", {"open", "silent"}) /\ ~SeasonConflict(r, day) /\ SameReserve(r)
  /\ OneState(r)

\* match of automated_nps_arrivals: one section of the facility's address, later one by car, nothing between.
CarSection(r) ==
  LET at(what) == {i \in DOMAIN r.sections : r.sections[i] = what}
  IN /\ Cardinality(at("facility")) = 1 /\ Cardinality(at("car")) = 1
     /\ \A i \in at("facility"), j \in at("car") : i < j /\ \A k \in (i + 1)..(j - 1) : r.sections[k] = "travel"
     /\ ~r.warns

\* transform, prepare of automated_nps.py: listed parking, directions or such a page, a state and a drive.
FacilityQualifies(r, day) ==
  /\ r.kind = "center" /\ r.parking /\ r.ownState /\ Drives(r)
  /\ IF r.sections = <<>> THEN r.byCar ELSE Fresh(r, day, Month) /\ CarSection(r)

-----------------------------------------------------------------------------
(* Open data, and reviewed prospects that may only be browsed *)

\* normalize: a named point of a known kind that is its own destination, of one state, not said to be closed.
PlaceQualifies(r) ==
  /\ r.kind = "place" /\ r.genuine /\ r.region # NoProof
  /\ "overture" \in DOMAIN r.says => Says(r, "overture", {"open"})

\* apply of arrival_review.py: the inspected pages still say what they said, and the drive ends on the inspected road.
PlaceReviewed(r, day) ==
  /\ r.reviewed /\ Fresh(r, day, Month) /\ Says(r, "operator", {"open"})
  /\ r.drive # NoProof /\ r.drive.claimed <= r.limit /\ r.drive.road = r.street

\* prepare of pilot.py: one native row, rights and a visit affirmed on the operator's own current pages.
ProspectQualifies(r, day) ==
  /\ ~r.held /\ r.genuine /\ r.kind = "prospect" /\ Says(r, "operator", {"open"})
  /\ Fresh(r, day, Month + 1) /\ OneState(r) /\ r.rows = 1
=============================================================================
