----------------------------- MODULE MarketEvidence -----------------------------
(***************************************************************************)
(* The farmers markets of a national feed, which four adapters admit       *)
(* against official rosters (backend/app/catalog/kaggle_markets.py,        *)
(* kaggle_ny_markets.py, kaggle_ca_markets.py, kaggle_ny_markets_more.py). *)
(* A record is the native row with what is retained about it: `current'    *)
(* (the same row in the publisher's current file: "same", "changed" or     *)
(* "missing"), `officials' (rows of the state's roster, those that fit by  *)
(* name and place marked), `feeds' (what the two files say of its season   *)
(* and weekdays), `forms' (the published addresses that the Census was     *)
(* asked for, with its answers).  Day 0 is the day of the fixed review.    *)
(***************************************************************************)
EXTENDS ArrivalEvidence

\* season: what a statement says of a day; a year, several months or vague bounds are left to review.
Reading(fact, day) ==
  CASE fact.ambiguous \/ \E s \in fact.seasons : ~s.annual -> "review"
    [] fact.seasons = {} -> "unknown"
    [] OTHER -> IF \A s \in fact.seasons : Includes(s, day) THEN "in" ELSE "out"

\* California prints months, the other rosters dates of one year.
InForce(r, official, day) ==
  IF r.region = "CA" THEN Reading(official.fact, day) = "in"
  ELSE official.fact.seasons # {} /\ \A s \in official.fact.seasons : ~s.annual /\ Includes(s, day)

\* location_matches, official_city, name_city: exact name, literal city and, where known, road.
Fitting(r) == {o \in r.officials : o.fits}
\* A weekday that both state has to agree.
Agreeing(r) == {o \in Fitting(r) : \A a \in r.feeds.canonical.days, b \in o.fact.days : a \cap b # {}}
OnePlace(officials) == Cardinality({o.place : o \in officials}) = 1

\* Every form of the address is a published one, and every one that was found lies in the town and
\* within the bound.  The first adapter asks for one literal street among them, the others for all.
Corroborated(r, everyStreet) ==
  LET found == {f \in r.forms : f.status = "match"}
  IN /\ \A f \in r.forms : f.published
     /\ \A f \in found : f.inTown /\ Distance(r.at, f.at) <= Block /\ (everyStreet => f.literal)
     /\ \E f \in found : f.literal

\* qualification, census_qualification of the first adapter, on the day of the import.
MarketQualifies(r, day) ==
  /\ r.current = "same" /\ r.region \in {"CA", "CT", "DE", "VT"} /\ ~r.held
  /\ OnePlace(Agreeing(r)) /\ \A o \in Agreeing(r) : InForce(r, o, day)
  /\ \A feed \in DOMAIN r.feeds : Reading(r.feeds[feed], day) \notin {"out", "review"}
  /\ r.zip # NoProof /\ \A o \in Agreeing(r) : o.zip \in {r.zip, NoProof}
  /\ Corroborated(r, FALSE) /\ Drives(r)

-----------------------------------------------------------------------------
(* Calendars of the reviewed weeks *)

\* Both files and the roster restrict, as one page of PublishedHours.
MarketPage(r) ==
  [source |-> IF r.source = "markets" THEN "market" ELSE "roster",
   facts |-> {r.feeds[f] : f \in DOMAIN r.feeds} \cup {o.fact : o \in IF r.source = "markets" THEN Agreeing(r) ELSE Fitting(r)}]
MarketCalendar(r) == FromMarket(MarketPage(r))

\* Nothing is left to review, and the first reviewed day is in season.
Resolved(c) == ~c.unknown /\ \E season \in c.seasons : Includes(season, 0)

-----------------------------------------------------------------------------
(* The rosters of New York and California *)

\* The agency's own point, independent of the native one.
Agency(r, official) == official.at # NoProof /\ Distance(r.at, official.at) <= Block

\* New York: one roster row of that name and town, a numbered street, one zip and the agency's point.
NyQualifies(r) ==
  /\ r.region = "NY" /\ r.current = "same" /\ Cardinality(Fitting(r)) = 1
  /\ \A o \in Fitting(r) : o.numbered /\ o.visited /\ {r.zip, r.canonicalZip} = {o.zip} /\ Agency(r, o)
  /\ Resolved(MarketCalendar(r)) /\ Drives(r)

\* The rows without a native street: nothing changed, the zip included.
Unaddressed(r) == ~r.street /\ r.current = "same" /\ r.canonicalZip = r.zip

\* California: the addresses of the roster, all of one place and one zip.
CaQualifies(r) ==
  /\ r.region = "CA" /\ Unaddressed(r) /\ ~r.held /\ OnePlace(Fitting(r))
  /\ \A o \in Fitting(r) : o.zip # NoProof /\ r.zip \in {o.zip, NoProof}
  /\ Cardinality({o.zip : o \in Fitting(r)}) = 1
  /\ Resolved(MarketCalendar(r)) /\ Corroborated(r, TRUE) /\ Drives(r)

\* A visit of two hours fits one window.
ForTwoHours(c) == Resolved(c) /\ \E w \in c.weekly : w.hours[2] - w.hours[1] >= 4

\* New York again: the agency's point, its regional block, and every published form asked for.
NyMoreQualifies(r) ==
  /\ r.region = "NY" /\ Unaddressed(r) /\ Cardinality(Fitting(r)) = 1
  /\ \A o \in Fitting(r) : Agency(r, o) /\ o.zip # NoProof /\ r.zip \in {o.zip, NoProof}
  /\ ForTwoHours(MarketCalendar(r))
  /\ r.block = "fits" /\ r.everyForm /\ Corroborated(r, TRUE) /\ Drives(r)
=============================================================================
