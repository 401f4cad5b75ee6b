----------------------------- MODULE PublishedHours -----------------------------
(***************************************************************************)
(* From published hours to a visit: how the source adapters of the catalog *)
(* (backend/app/catalog/nps_visit_calendar.py, nps_visit_calendar_more.py, *)
(* automated_nps.py, usfs_visit_calendar.py, usfs_current.py,              *)
(* park_visit_calendar.py, market_visit_calendar.py,                       *)
(* venue_visit_calendar.py, recovered_visit_calendar.py,                   *)
(* kaggle_cultural.py, kaggle_coastal.py) turn what an                     *)
(* agency or operator states into a calendar, how routing reads that       *)
(* calendar (backend/app/routing/visit_calendar.py), and a trip to the     *)
(* place (TripSchedule).  A page is what one source states, its prose      *)
(* reduced to what it restricts.  Dates count from the day of acquisition, *)
(* which is here the departure day; clocks are TripSchedule's half hours,  *)
(* those after midnight above 48.  A week has Week days and a year Year.   *)
(***************************************************************************)
EXTENDS TripSchedule, SequencesExt

CONSTANTS
  Week, Year,     \* days of a week and of a year
  Horizon,        \* days that an adapter evaluates
  Pages,          \* what sources may state
  Waiting,        \* trips to one place without a calendar yet
  Held,           \* a date, or a place, without an answer
  NoPage          \* of a trip whose calendars are given

ASSUME PublishedAssumption ==
  /\ {Week, Year, Horizon} \subseteq Nat \ {0} /\ NoPage \notin Pages
  /\ \A w \in Waiting : PolicyTyped(w.policy) /\ w.departure \in 0..47 /\ RouteTyped(w.route) /\ VisitTyped(w.visit)

VARIABLES
  page,           \* what the source states
  calendar        \* what the adapter made of it, Held if nothing

publishedVars == <<page, calendar, trip, plan, check>>

Dates == 0..(Horizon - 1)
Weekdays == 0..(Week - 1)
Weekday(d) == d % Week
YearDay(d) == d % Year
AllDay == {<<0, Day>>}
Late == 2 * Day
Silent == {<<0, Late>>}

\* A range of days of the year may pass the year's end.
WithinYear(range, y) ==
  IF range[1] <= range[2] THEN range[1] <= y /\ y <= range[2] ELSE range[1] <= y \/ y <= range[2]

\* _intersect: the common parts of two sets of windows.
Common(left, right) ==
  {w \in {<<Most(a[1], b[1]), Least(a[2], b[2])>> : a \in left, b \in right} : w[1] < w[2]}

\* An unreadable statement (CalendarHold) withholds the date.
Narrow(hours, more) == IF hours = Held \/ more = Held THEN Held ELSE Common(hours, more)

\* What is left of hours after one statement after the other, up to one that is enough.
Restricted(hours, statements, enough) ==
  FoldLeft(LAMBDA left, said : IF left \in enough THEN left ELSE IF said \in enough THEN said ELSE Common(left, said),
           hours, statements)
Shared(hours, statements) == Restricted(hours, statements, {})
Narrowed(hours, statements) == Restricted(hours, statements, {Held})
\* Intersections cannot reopen a closed day.
UntilClosed(hours, statements) == Restricted(hours, statements, {Held, {}})

-----------------------------------------------------------------------------
(* The calendar contract and what routing makes of it *)

Blank == [weekly |-> {}, seasons |-> {}, overrides |-> <<>>, closures |-> {}, unknown |-> FALSE]
Season(annual, from, to) == [annual |-> annual, from |-> from, to |-> to]

Includes(season, d) ==
  IF season.annual THEN WithinYear(<<season.from, season.to>>, YearDay(d))
  ELSE season.from <= d /\ d <= season.to

AllowedDay(c, d) ==
  /\ YearDay(d) \notin c.closures
  /\ c.seasons # {} => \E season \in c.seasons : Includes(season, d)
  /\ d \in DOMAIN c.overrides => c.overrides[d] # {}

\* Windows of one date; what follows midnight ends there when the next date has rules of its own.
DayIntervals(c, d) ==
  LET windows == IF d \in DOMAIN c.overrides THEN c.overrides[d]
                 ELSE {w.hours : w \in {x \in c.weekly : Weekday(d) \in x.days}}
      ends(w) == IF w[2] >= Day /\ (~AllowedDay(c, d + 1) \/ d + 1 \in DOMAIN c.overrides) THEN Day ELSE w[2]
  IN IF AllowedDay(c, d) THEN {<<w[1], ends(w)>> : w \in {x \in windows : x[1] < ends(x)}} ELSE {}

\* source_calendar, calendar_eligible: a malformed or unresolved calendar admits no visit.
Positive(c) == \E d \in DOMAIN c.overrides : c.overrides[d] # {}
Forward(c) == \A w \in {x.hours : x \in c.weekly} \cup UNION Range(c.overrides) : w[1] < w[2]
Eligible(c) ==
  /\ c \notin {Held, NoPage} /\ ~c.unknown
  /\ (\A season \in c.seasons : season.annual \/ season.from <= season.to) /\ Forward(c)
  /\ c.weekly # {} \/ Positive(c)

\* Dated windows for those of the dates that are not withheld.
Dated(hours) == [d \in {x \in DOMAIN hours : hours[x] # Held} |-> hours[d]]
OrHeld(c) == IF Positive(c) THEN c ELSE Held

-----------------------------------------------------------------------------
(* National Park Service: reviewed facility schedules, two generations of review *)

\* _day_windows: a blank, solar or reversed cell is unknown, never open.
TableHours(table, d) ==
  LET cell == table[Weekday(d)]
  IN CASE cell.is = "shut" -> {}
       [] cell.is = "clocks" /\ cell.from < cell.to -> {<<cell.from, cell.to>>}
       [] OTHER -> Held

\* Seeded bug: a range that passes the year's end is read straight.
SelectsStraight(e, d) == \E range \in e.dates : range[1] <= YearDay(d) /\ YearDay(d) <= range[2]
\* _exception_applies: the union of its date and its holiday selector.
Selects(e, d) == \E range \in e.dates : WithinYear(range, YearDay(d))

\* A named whole-day closure is stronger than a stale cell, of which the first review needs one.
ClosedWithCell(e) == e.prose \in {"closed", "closed_on_weekday"} /\ \E w \in Weekdays : e.table[w].is = "shut"
ClosedByProse(e) == e.prose = "closed"
ExceptionHours(e, d, needsCell) ==
  IF IF needsCell THEN ClosedWithCell(e) ELSE ClosedByProse(e) THEN {} ELSE TableHours(e.table, d)

\* Exceptions in order; one without a date that can be read withholds it.
AfterExceptions(schedule, d, base, needsCell, unconditional) ==
  LET says(e) == IF e.dates = {} /\ ~(e.always /\ unconditional) THEN Held
                 ELSE IF (e.always /\ unconditional) \/ Selects(e, d) THEN ExceptionHours(e, d, needsCell)
                 ELSE Silent
  IN UntilClosed(base, [i \in DOMAIN schedule.exceptions |-> says(schedule.exceptions[i])])

ScheduleHours(schedule, d, needsCell) ==
  AfterExceptions(schedule, d, TableHours(schedule.table, d), needsCell, FALSE)

\* Closures and caps that only the prose states; a missing pinned literal withholds the date.
AfterProse(hours, rules, d) ==
  LET says(r) == IF d \notin r.days THEN Silent ELSE IF r.found THEN r.hours ELSE Held
  IN Narrowed(hours, [i \in DOMAIN rules |-> says(rules[i])])

NpsDay(p, d) ==
  LET scope(parent) == IF parent.role = "exceptions" THEN AllDay ELSE TableHours(parent.schedule.table, d)
      says(parent) == IF parent.role = "other" THEN Silent
                      ELSE AfterExceptions(parent.schedule, d, scope(parent), TRUE, TRUE)
      accessible == UntilClosed(ScheduleHours(p.selected, d, TRUE), [i \in DOMAIN p.parents |-> says(p.parents[i])])
  IN IF d \in p.unclear THEN Held ELSE AfterProse(accessible, p.prose, d)

\* The second review adds named holidays and lets closure prose stand without a shut cell.
NpsMoreDay(p, d) ==
  LET says(parent) == IF parent.role # "full" THEN Silent ELSE ScheduleHours(parent.schedule, d, FALSE)
      accessible == UntilClosed(ScheduleHours(p.selected, d, FALSE), [i \in DOMAIN p.parents |-> says(p.parents[i])])
  IN IF YearDay(d) \in p.closures THEN {} ELSE AfterProse(accessible, p.prose, d)

\* From the acquisition to the end of its year, or to a boundary that the source states.
NpsDated(p, hours) ==
  IF ~p.genuine THEN Held
  ELSE OrHeld([Blank EXCEPT !.seasons = {Season(FALSE, 0, p.until)},
                            !.overrides = Dated(hours)])

FromNps(p) == NpsDated(p, [d \in 0..p.until |-> NpsDay(p, d)])
FromNpsMore(p) == NpsDated(p, [d \in 0..p.until |-> NpsMoreDay(p, d)])

-----------------------------------------------------------------------------
(* National Park Service: facilities imported without a review *)

\* Nearby parking of another name leaves the arrival open, named parking must be usable and plain.
ParkingClear(p) ==
  LET near == {i \in DOMAIN p.lots : p.lots[i].near}
      named == {i \in near : p.lots[i].named}
  IN /\ near # {} => named # {}
     /\ \A i \in named : p.lots[i].spaces > 0 /\ p.lots[i].schedule.exceptions = <<>>

\* _clock_guard: the clocks of one text, if any, are one forward pair.
ForwardPair(clocks) == Len(clocks) = 2 /\ clocks[1] < clocks[2]

\* Every schedule restricts but those typed as another component, named parking as well.
FacilityNative(p, d) ==
  LET says(schedule) == ScheduleHours(schedule, d, TRUE)
      parent(i) == IF p.parents[i].role = "other" THEN Silent ELSE says(p.parents[i].schedule)
      lot(i) == IF p.lots[i].near /\ p.lots[i].named THEN says(p.lots[i].schedule) ELSE Silent
  IN Narrowed(Narrowed(Narrow(AllDay, says(p.selected)), [i \in DOMAIN p.parents |-> parent(i)]), [i \in DOMAIN p.lots |-> lot(i)])

FacilityDay(p, d) ==
  LET bounded == Narrowed(FacilityNative(p, d), [i \in DOMAIN p.clocks |-> {<<p.clocks[i][1], p.clocks[i][2]>>}])
  IN IF bounded # Held /\ YearDay(d) \in p.closures THEN {} ELSE bounded

FromFacility(p) ==
  IF ~p.genuine \/ p.ambiguous \/ ~ParkingClear(p) \/ \E i \in DOMAIN p.clocks : ~ForwardPair(p.clocks[i]) THEN Held
  ELSE OrHeld([Blank EXCEPT !.seasons = {Season(FALSE, 0, Horizon - 1)},
                            !.overrides = Dated([d \in Dates |-> FacilityDay(p, d)])])

-----------------------------------------------------------------------------
(* Forest Service: the reviewed feeds and the current facilities *)

\* _qualify: both feeds say open and say what was reviewed, and nothing qualifies it.
UsfsQualifies(p) ==
  /\ p.genuine /\ \A feed \in DOMAIN p.status : p.status[feed] = "open"
  /\ ~p.changed /\ ~p.ambiguous
  /\ p.literals = p.profile.literals

FromUsfs(p) ==
  LET days == {d \in Dates : Weekday(d) \in p.profile.days /\ d \notin p.unclear}
  IN IF UsfsQualifies(p) THEN [Blank EXCEPT !.overrides = [d \in days |-> {p.profile.hours}]] ELSE Held

\* Both feeds say open, or the agency publishes the first itself and the second does not contradict it.
StatesOpen(p) ==
  p.status.construction = "open" /\ (p.status.public = "open" \/ (p.publication /\ p.status.public = "silent"))

\* qualify, prepare: the literal daily clocks of both feeds; a public feed without any does not restrict.
FromUsfsCurrent(p) ==
  LET hours == Narrow(p.literals.construction, p.literals.public)
  IN IF ~p.genuine \/ ~StatesOpen(p) \/ p.ambiguous \/ p.seasonal \/ hours \in {Held, {}} THEN Held
     ELSE [Blank EXCEPT !.weekly = {[days |-> Weekdays, hours |-> w] : w \in hours},
                        !.seasons = {Season(FALSE, 0, Horizon - 1)}]

-----------------------------------------------------------------------------
(* Parks of operators: dated entries, weekly tables, recovered calendars *)

Unresolved == [Blank EXCEPT !.unknown = TRUE]

\* Negative entries cut the positive hours of their date.
Around(closed) == {<<0, closed[1]>>, <<closed[2], Late>>}

\* _belmont: park-wide entries only; a date left without hours is closed only if all of it is.
FromEntries(p) ==
  LET wide == {e \in Range(p.entries) : e.featured}
      opens(d) == {e.hours : e \in {x \in wide : x.date = d /\ x.kind = "open"}}
      closes(d) == {e.hours : e \in {x \in wide : x.date = d /\ x.kind = "closed"}}
      says(e, d) == IF e \in wide /\ e.date = d /\ e.kind = "closed" THEN Around(e.hours) ELSE Silent
      remaining(d) == Shared(opens(d), [i \in DOMAIN p.entries |-> says(p.entries[i], d)])
      days == {e.date : e \in wide}
  IN IF \/ \E e \in wide : e.kind # "other" /\ e.hours[1] >= e.hours[2]
        \/ {e \in wide : e.kind = "open"} = {}
        \/ \E d \in days : Cardinality(opens(d)) > 1
     THEN Unresolved
     ELSE [Blank EXCEPT !.overrides = [d \in {x \in days : remaining(x) # {} \/ <<0, Day>> \in closes(x)} |-> remaining(d)]]

\* _emit: the reviewed table if every literal is still on the page; known gaps stay unknown.
FromTable(p) ==
  IF ~p.found THEN Unresolved
  ELSE [Blank EXCEPT !.weekly = p.rows, !.unknown = p.ambiguous, !.closures = p.closures,
                     !.seasons = {Season(TRUE, (y + 1) % Year, (y - 1) % Year) : y \in p.closures}]

\* _nascar: a dated grid, each cell cut by the weekly footer.
FromGrid(p) ==
  LET hours(d) == IF p.grid[d].is = "shut" THEN {}
                  ELSE Common({<<p.grid[d].from, p.grid[d].to>>}, {<<p.grid[d].from, p.footer[Weekday(d)]>>})
  IN IF p.found THEN [Blank EXCEPT !.overrides = [d \in DOMAIN p.grid |-> hours(d)]] ELSE Held

\* _oaks: the sessions of the months that are named, replaced by those of a dated exception.
FromSessions(p) ==
  LET slots(d) == IF d \in DOMAIN p.special THEN p.special[d] ELSE p.general[Weekday(d)]
  IN IF p.found THEN [Blank EXCEPT !.overrides = [d \in {x \in p.months : slots(x) # {}} |-> slots(d)]] ELSE Held

\* _funspot: an event whose title names another date is withheld, two of one date end the batch.
FromEvents(p) ==
  LET titled == {e \in p.entries : e.title = e.date}
  IN IF ~p.found \/ \E e, f \in p.entries : e # f /\ e.date = f.date THEN Held
     ELSE [Blank EXCEPT !.overrides =
            [d \in {e.date : e \in titled} |->
               UNION {IF e.kind = "closed" THEN {} ELSE {<<e.hours[1], Day>>} : e \in {x \in titled : x.date = d}}]]

\* _confusion, _precious: one daily statement without a season.
FromDaily(p) ==
  IF p.found THEN [Blank EXCEPT !.weekly = {[days |-> Weekdays, hours |-> p.hours]}] ELSE Held

\* _kemah: the hours shown are those of the month of acquisition; both encodings must agree.
FromMonth(p) ==
  IF ~p.found \/ p.shown # p.schema THEN Held
  ELSE [Blank EXCEPT !.weekly = {[days |-> {w}, hours |-> p.shown[w]] : w \in Weekdays},
                     !.seasons = {Season(FALSE, p.month[1], p.month[2])}]

\* _hours, calendar_for of kaggle_cultural: the days on which feed and operator agree, a dated closure cut out.
FromGallery(p) ==
  LET days == {w \in Weekdays : \A feed \in Range(p.feeds) : w \in feed.days}
      hours == Shared(AllDay, [i \in DOMAIN p.feeds |-> {p.feeds[i].hours}])
  IN IF ~p.found \/ days = {} \/ hours = {} THEN Held
     ELSE [Blank EXCEPT !.weekly = {[days |-> days, hours |-> w] : w \in hours}, !.overrides = [d \in p.shut |-> {}]]

\* The other kind of calendar_for: one affirmed date, whatever the weekly table says.
FromEvent(p) ==
  IF p.found THEN [Blank EXCEPT !.overrides = [d \in {p.date} |-> {p.hours}], !.seasons = {Season(FALSE, p.date, p.date)}]
  ELSE Held

\* calendar_for of kaggle_coastal: a closure of beach or park vetoes the park's daily hours.
FromShore(p) == IF p.closed THEN Held ELSE FromDaily(p)

-----------------------------------------------------------------------------
(* Markets and venues: intersections of several feeds *)

\* _segments: maximal runs of consecutive days.
Segments(days) ==
  {r \in days \X days : r[1] <= r[2] /\ r[1]..r[2] \subseteq days /\ {r[1] - 1, r[2] + 1} \cap days = {}}

\* _seasons: every annual and every dated season restricts.
MarketSeasons(seasons) ==
  LET annual == {y \in 0..(Year - 1) : \A s \in seasons : s.annual => WithinYear(<<s.from, s.to>>, y)}
      dated == {s \in seasons : ~s.annual}
      days == {d \in Max({s.from : s \in dated})..Min({s.to : s \in dated}) : YearDay(d) \in annual}
  IN IF dated = {} THEN {Season(TRUE, r[1], r[2]) : r \in Segments(annual)}
     ELSE {Season(FALSE, r[1], r[2]) : r \in Segments(days)}

\* _parse and _receipt refuse what is outside the calendar grammar, or without an authenticated receipt.
Unread(fact) == ~fact.genuine \/ fact.ambiguous

\* build: positive official weekdays with clocks, and a positive official season, are required.
FromMarket(p) ==
  LET all(Part(_)) == UNION {Part(f) : f \in p.facts}
      days == {w \in Weekdays : \A f \in p.facts : \A listed \in f.days : w \in listed}
      clocks == all(LAMBDA f : f.clocks)
      opens == Max({w[1] : w \in clocks})
      closes == Min({w[2] : w \in clocks})
      seasons == MarketSeasons(all(LAMBDA f : f.seasons))
      official == {f \in p.facts : f.official}
  IN IF \/ \E f \in p.facts : Unread(f)
        \/ \A f \in official : f.days = {} \/ f.clocks = {}
        \/ \A f \in official : f.seasons = {}
        \/ days = {} \/ opens >= closes \/ seasons = {}
     THEN Unresolved
     ELSE [Blank EXCEPT !.weekly = {[days |-> days, hours |-> <<opens, closes>>]}, !.seasons = seasons]

\* bounded_calendar: weekdays, clocks and seasons spelled out for the reviewed dates only.
BoundedCalendar(c) ==
  LET hours(d) == {w.hours : w \in {x \in c.weekly : Weekday(d) \in x.days}}
      days == {d \in Dates : hours(d) # {} /\ \E season \in c.seasons : Includes(season, d)}
  IN [c EXCEPT !.weekly = {}, !.seasons = {}, !.overrides = [d \in days |-> hours(d)]]
FromRoster(p) == BoundedCalendar(FromMarket(p))

\* _intervals: a last entry cuts the visit, an interval beyond it is dropped.
LayerHours(layer, d) ==
  IF d < layer.from \/ layer.to < d THEN {}
  ELSE {h \in {<<w.hours[1], Least(w.hours[2], w.lastEntry)>> : w \in {x \in layer.windows : d \in x.on}} : h[1] < h[2]}

\* compile_calendar: known closures first, then conditions that withhold, then the layers.
FromVenue(p) ==
  LET hours(d) == IF d \in p.unclear THEN Held
                  ELSE Narrowed(Silent, [i \in DOMAIN p.layers |-> LayerHours(p.layers[i], d)])
      shut(d) == d \in p.shut \/ YearDay(d) \in p.closures
      open == {d \in Dates : ~shut(d) /\ hours(d) \notin {Held, {}}}
      made == [Blank EXCEPT !.overrides = [d \in open \cup {x \in Dates : shut(x)} |-> IF shut(d) THEN {} ELSE hours(d)],
                            !.closures = p.closures]
  IN IF p.genuine /\ ~p.ambiguous /\ p.layers # <<>> THEN OrHeld(made) ELSE Held

-----------------------------------------------------------------------------
(* What a page is: lists, tables of the weekdays, and clocks of a day and of the next *)

Spans == (0..Late) \X (0..Late)
IsList(s) == s \in Seq(Range(s))
TableTyped(table) == \A w \in Weekdays : table[w].is = "clocks" => {table[w].from, table[w].to} \subseteq 0..Day
ScheduleTyped(schedule) ==
  /\ TableTyped(schedule.table) /\ IsList(schedule.exceptions)
  /\ \A e \in Range(schedule.exceptions) : TableTyped(e.table) /\ e.dates \subseteq (0..(Year - 1)) \X (0..(Year - 1))

\* Only the first review sees unclear dates and parents without hours of their own, only the second named holidays.
ParkTyped(p) ==
  /\ p.until \in Nat /\ ScheduleTyped(p.selected) /\ IsList(p.parents) /\ IsList(p.prose)
  /\ (\A parent \in Range(p.parents) : ScheduleTyped(parent.schedule)) /\ \A r \in Range(p.prose) : r.hours \subseteq Spans
  /\ IF p.source = "nps" THEN p.closures = {} ELSE p.unclear = {} /\ \A parent \in Range(p.parents) : parent.role # "exceptions"
FacilityTyped(p) ==
  /\ ScheduleTyped(p.selected) /\ IsList(p.parents) /\ IsList(p.lots) /\ IsList(p.clocks)
  /\ \A part \in Range(p.parents) \cup Range(p.lots) : ScheduleTyped(part.schedule)
  /\ \A clocks \in Range(p.clocks) : ForwardPair(clocks) => <<clocks[1], clocks[2]>> \in Spans
\* The hours of a reviewed profile are those of its literals.
UsfsTyped(p) ==
  /\ p.profile.hours \in Spans /\ DOMAIN p.literals \subseteq DOMAIN p.status
  /\ \A feed \in DOMAIN p.profile.literals : \E w \in p.profile.literals[feed] \cap Spans :
       w[1] <= p.profile.hours[1] /\ p.profile.hours[2] <= w[2]
UsfsCurrentTyped(p) ==
  DOMAIN p.literals = {"construction", "public"} /\ \A feed \in DOMAIN p.literals : p.literals[feed] = Held \/ p.literals[feed] \subseteq Spans
MarketTyped(p) ==
  /\ IsFiniteSet(p.facts)
  /\ \A f \in p.facts : f.clocks \subseteq Spans /\ IsFiniteSet(f.seasons) /\ \A s \in f.seasons : {s.from, s.to} \subseteq Int
VenueTyped(p) ==
  /\ IsList(p.layers)
  /\ \A layer \in Range(p.layers) :
       {layer.from, layer.to} \subseteq Int /\ \A w \in layer.windows : w.hours \in Spans /\ w.lastEntry \in 0..Late

PageTyped(p) ==
  CASE p.source \in {"nps", "nps_more"} -> ParkTyped(p)
    [] p.source = "facility" -> FacilityTyped(p)
    [] p.source = "usfs" -> UsfsTyped(p)
    [] p.source = "usfs_current" -> UsfsCurrentTyped(p)
    [] p.source = "entries" -> IsList(p.entries) /\ \A e \in Range(p.entries) : e.hours \in Spans
    [] p.source = "table" -> \A row \in p.rows : row.hours \in Spans
    [] p.source \in {"daily", "event", "shore"} -> p.hours \in Spans
    [] p.source = "gallery" -> IsList(p.feeds) /\ \A feed \in Range(p.feeds) : feed.hours \in Spans
    [] p.source = "grid" -> \A d \in DOMAIN p.grid : p.grid[d].is \in {"shut", "clocks"} /\ {p.grid[d].from, p.grid[d].to, p.footer[Weekday(d)]} \subseteq 0..Late
    [] p.source = "sessions" -> (\A w \in Weekdays : p.general[w] \subseteq Spans) /\ \A d \in DOMAIN p.special : p.special[d] \subseteq Spans
    [] p.source = "events" -> \A e \in p.entries : e.kind \in {"open", "closed"} /\ e.hours \in Spans
    [] p.source = "month" -> {p.month[1], p.month[2]} \subseteq Int /\ \A w \in Weekdays : p.shown[w] \in Spans
    [] p.source \in {"market", "roster"} -> MarketTyped(p)
    [] p.source = "venue" -> VenueTyped(p)
    [] OTHER -> FALSE
ASSUME PagesAssumption == \A p \in Pages : PageTyped(p)

-----------------------------------------------------------------------------
(* The import of a page, and a trip to the place *)

Adapted(p) ==
  CASE p.source = "nps" -> FromNps(p)
    [] p.source = "nps_more" -> FromNpsMore(p)
    [] p.source = "facility" -> FromFacility(p)
    [] p.source = "usfs" -> FromUsfs(p)
    [] p.source = "usfs_current" -> FromUsfsCurrent(p)
    [] p.source = "entries" -> FromEntries(p)
    [] p.source = "table" -> FromTable(p)
    [] p.source = "daily" -> FromDaily(p)
    [] p.source = "grid" -> FromGrid(p)
    [] p.source = "sessions" -> FromSessions(p)
    [] p.source = "events" -> FromEvents(p)
    [] p.source = "month" -> FromMonth(p)
    [] p.source = "gallery" -> FromGallery(p)
    [] p.source = "event" -> FromEvent(p)
    [] p.source = "shore" -> FromShore(p)
    [] p.source = "market" -> FromMarket(p)
    [] p.source = "roster" -> FromRoster(p)
    [] p.source = "venue" -> FromVenue(p)

Import(source) ==
  /\ page # NoPage /\ page.source = source /\ calendar = NoPage
  /\ calendar' = Adapted(page)
  /\ UNCHANGED <<page, scheduleVars>>

ImportNps == Import("nps")
ImportNpsMore == Import("nps_more")
ImportFacility == Import("facility")
ImportUsfs == Import("usfs")
ImportUsfsCurrent == Import("usfs_current")
ImportEntries == Import("entries")
ImportTable == Import("table")
ImportDaily == Import("daily")
ImportGrid == Import("grid")
ImportSessions == Import("sessions")
ImportEvents == Import("events")
ImportMonth == Import("month")
ImportGallery == Import("gallery")
ImportEvent == Import("event")
ImportShore == Import("shore")
ImportMarket == Import("market")
ImportVenue == Import("venue")

\* open_intervals over the dates that the trip may reach.
TripWindows(c) ==
  UNION {{<<Day * d + w[1], Day * d + w[2]>> : w \in DayIntervals(c, d)} : d \in -1..(MaxNights + 1)}

\* An eligible place is selected for a waiting trip, whose visit gets the imported calendar.
Depart ==
  /\ plan.at = "waiting" /\ Eligible(calendar)
  /\ trip' = [trip EXCEPT !.visits[1].calendar = [any |-> FALSE, windows |-> TripWindows(calendar), fixed |-> {}]]
  /\ plan' = [plan EXCEPT !.at = "driving"]
  /\ UNCHANGED <<page, calendar, check>>

\* Either a trip whose calendars are given, or a trip to one place whose page is imported first.
PublishedInit ==
  /\ calendar = NoPage
  /\ \/ page = NoPage /\ ScheduleInit
     \/ /\ page \in Pages
        /\ \E w \in Waiting : trip = TripOf(w.policy, w.departure, w.route, <<w.visit>>)
        /\ plan = [NewPlan(trip.departure) EXCEPT !.at = "waiting"]
        /\ check = NewCheck(trip.departure)

PublishedNext ==
  \/ ImportNps \/ ImportNpsMore \/ ImportFacility \/ ImportUsfs \/ ImportUsfsCurrent
  \/ ImportEntries \/ ImportTable \/ ImportDaily \/ ImportGrid \/ ImportSessions \/ ImportEvents \/ ImportMonth
  \/ ImportGallery \/ ImportEvent \/ ImportShore \/ ImportMarket \/ ImportVenue
  \/ Depart
  \/ ScheduleNext /\ UNCHANGED <<page, calendar>>

PublishedSpec == PublishedInit /\ [][PublishedNext]_publishedVars

-----------------------------------------------------------------------------
(* What a page permits, statement by statement, at clock t of a session that opens on date d *)

Within(windows, t) == \E w \in windows : w[1] <= t /\ t < w[2]
CellPermits(table, d, t) ==
  table[Weekday(d)].is = "clocks" /\ table[Weekday(d)].from <= t /\ t < table[Weekday(d)].to

DaysOf(range) == IF range[1] <= range[2] THEN range[1]..range[2] ELSE (range[1]..(Year - 1)) \cup (0..range[2])
ExceptionsPermit(p, schedule, d, t, unconditional) ==
  \A i \in DOMAIN schedule.exceptions :
    LET e == schedule.exceptions[i]
        closed == e.prose = "closed" /\ (p.source = "nps_more" \/ \E w \in Weekdays : e.table[w].is = "shut")
    IN (e.always /\ unconditional) \/ (\E range \in e.dates : YearDay(d) \in DaysOf(range))
         => ~closed /\ CellPermits(e.table, d, t)

SchedulePermits(p, schedule, d, t) ==
  CellPermits(schedule.table, d, t) /\ ExceptionsPermit(p, schedule, d, t, FALSE)
ParentPermits(p, parent, d, t) ==
  CASE parent.role = "full" -> CellPermits(parent.schedule.table, d, t)
                               /\ ExceptionsPermit(p, parent.schedule, d, t, p.source = "nps")
    [] parent.role = "exceptions" -> ExceptionsPermit(p, parent.schedule, d, t, TRUE)
    [] OTHER -> TRUE

ParkPermits(p, d, t) ==
  /\ d \in 0..p.until /\ d \notin p.unclear /\ YearDay(d) \notin p.closures
  /\ SchedulePermits(p, p.selected, d, t)
  /\ \A i \in DOMAIN p.parents : ParentPermits(p, p.parents[i], d, t)
  /\ \A i \in DOMAIN p.prose : d \in p.prose[i].days => p.prose[i].found /\ Within(p.prose[i].hours, t)

FacilityPermits(p, d, t) ==
  /\ d \in Dates /\ YearDay(d) \notin p.closures
  /\ SchedulePermits(p, p.selected, d, t)
  /\ \A i \in DOMAIN p.parents : p.parents[i].role # "other" => SchedulePermits(p, p.parents[i].schedule, d, t)
  /\ \A i \in DOMAIN p.lots : p.lots[i].near /\ p.lots[i].named => SchedulePermits(p, p.lots[i].schedule, d, t)
  /\ \A i \in DOMAIN p.clocks : p.clocks[i][1] <= t /\ t < p.clocks[i][2]

MarketPermits(p, d, t) ==
  \A f \in p.facts :
    /\ \A listed \in f.days : Weekday(d) \in listed
    /\ \A w \in f.clocks : w[1] <= t /\ t < w[2]
    /\ \A season \in f.seasons : IF season.annual THEN YearDay(d) \in DaysOf(<<season.from, season.to>>)
                                  ELSE d \in season.from..season.to

Permits(p, d, t) ==
  CASE p.source \in {"nps", "nps_more"} -> ParkPermits(p, d, t)
    [] p.source = "facility" -> FacilityPermits(p, d, t)
    [] p.source = "usfs" -> d \in Dates \ p.unclear /\ Weekday(d) \in p.profile.days
                            /\ \A feed \in DOMAIN p.literals : p.status[feed] # "closed" /\ Within(p.literals[feed], t)
    [] p.source = "usfs_current" -> d \in Dates /\ \A feed \in DOMAIN p.literals :
                                      p.status[feed] # "closed" /\ Within(p.literals[feed], t)
    [] p.source = "entries" ->
         LET stated(kind) == {e.hours : e \in {x \in Range(p.entries) : x.featured /\ x.kind = kind /\ x.date = d}}
         IN Within(stated("open"), t) /\ ~Within(stated("closed"), t)
    [] p.source = "table" -> ~p.ambiguous /\ YearDay(d) \notin p.closures
                             /\ Within({r.hours : r \in {x \in p.rows : Weekday(d) \in x.days}}, t)
    [] p.source = "daily" -> Within({p.hours}, t)
    [] p.source = "gallery" -> d \notin p.shut /\ \A feed \in Range(p.feeds) : Weekday(d) \in feed.days /\ Within({feed.hours}, t)
    [] p.source = "event" -> d = p.date /\ Within({p.hours}, t)
    [] p.source = "shore" -> ~p.closed /\ Within({p.hours}, t)
    [] p.source = "grid" -> d \in DOMAIN p.grid /\ p.grid[d].is = "clocks" /\ p.grid[d].from <= t
                            /\ t < p.grid[d].to /\ t < p.footer[Weekday(d)]
    [] p.source = "sessions" -> d \in p.months
                                /\ Within(IF d \in DOMAIN p.special THEN p.special[d] ELSE p.general[Weekday(d)], t)
    [] p.source = "events" -> \E e \in p.entries : e.date = d /\ e.title = d /\ e.kind = "open" /\ e.hours[1] <= t /\ t < Day
    [] p.source = "month" -> d \in p.month[1]..p.month[2] /\ Within({p.shown[Weekday(d)]}, t) /\ Within({p.schema[Weekday(d)]}, t)
    [] p.source = "market" -> MarketPermits(p, d, t)
    [] p.source = "roster" -> d \in Dates /\ MarketPermits(p, d, t)
    [] p.source = "venue" -> d \in Dates \ (p.unclear \cup p.shut) /\ YearDay(d) \notin p.closures
                             /\ \A layer \in Range(p.layers) : d \in layer.from..layer.to /\
                                  \E w \in layer.windows : d \in w.on /\ Within({w.hours}, t) /\ t < w.lastEntry

\* A date that the source closes by name or by season, also for what began the evening before.  Of a venue these
\* are the reviewed dates; a roster's review is of the days on which a market opens.
Closes(p, d) ==
  CASE p.source = "venue" -> d \in p.shut \cap Dates \/ YearDay(d) \in p.closures
    [] p.source = "market" -> \E f \in p.facts : \E s \in f.seasons : ~Includes(s, d)
    [] OTHER -> FALSE

PermitsAt(p, moment) ==
  LET d == moment \div Day
      t == moment % Day
  IN Permits(p, d, t) \/ (Permits(p, d - 1, t + Day) /\ ~Closes(p, d))

-----------------------------------------------------------------------------
(* Properties *)

\* No adapter and no reading of a calendar widens what was published: a place is open to routing, and a
\* visit takes place, only at times that every statement of its page permits, across tables and their
\* exceptions, prose, holidays, seasons over the year's end, several feeds, and sessions over midnight.
OpenOnlyAsPublished ==
  /\ plan.at = "waiting" /\ Eligible(calendar) =>
       \A d \in -1..(Horizon + 1) : \A w \in DayIntervals(calendar, d) : \A t \in w[1]..(w[2] - 1) :
         PermitsAt(page, Day * d + t)
  /\ page # NoPage /\ plan.stops # <<>> /\ plan.stops[Len(plan.stops)].kind = "stop" =>
       LET left == plan.now + Offset(plan.zone)
       IN \A moment \in (left - trip.visits[1].dwell)..(left - 1) : PermitsAt(page, moment)
=============================================================================
