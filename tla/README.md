# RoadtripsAreFun: specifications and proofs

TLA+ models of RoadtripsAreFun: the Studio's paid trip jobs, its batch studies, the limits on
provider calls, the feed of results to the browser, the browser's session, saved trips from the page
to the tables, and the planning of a trip: which source records become places and what their published
hours become, the catalog of places with its releases, discovery, selection, the schedule and the
final check. Every definition
is translated from the code; `PROJECT.json` ("map") names the lines each one stands for. TLC checks
the models on small instances, TLAPS proves the most important properties for all instances.

## 1. The system

A React application (`frontend/`) talks to one FastAPI process (`backend/app`, a single uvicorn
worker, `backend/Dockerfile`). Trips are stored in Postgres (Neon). A Studio lets visitors run
routing algorithms and whole batches of experiments; these call paid providers.

| component | state it keeps | operations | talks to |
|---|---|---|---|
| Studio jobs, `routing/studio_jobs.py` | `jobs` by id, an asyncio lock | POST, GET, DELETE, prune, shutdown | run records, turn stream |
| Run records, `crud/lab_runs.py`, `routers/algorithm_lab.py` | `algorithm_lab_runs` rows | begin, finish, cancel, record; execute_run | Postgres, providers |
| Turn stream, `agent/progress_stream.py` | queue of events, worker thread, `stopped` | publish, heartbeat, close | studio jobs, planner |
| Provider gates, `routing/runtime.py` | semaphores per run and per process, thread tasks | run_context, limited, threaded, singleflight | HTTP clients, executors |
| Research studies, `research/store.py`, `worker.py`, `routers/studio_research.py` | SQLite `studies`, `cases`, `events`; child handles; worker processes | create, claim, start, pause, reap, activate, save | run records, file system, processes |
| Research feed, `research/database.py`, `studioResearch.js`, `studioResearchCache.js`, `StudioResearch.jsx` | mirrored snapshot, tab cache, sessionStorage copy, page state | mirror_once, changes, poll, merge, save, restore, clear | SQLite store, Postgres |
| Browser session, `session.js`, `protectedRequest.js`, `authService.ts` | tokens in sessionStorage, generation, status, shared renewal | signIn, signOut, ensureSession, request and replay | Cognito, API, `utils/auth.py` |
| Saved trips, `savedTrips.js`; storage, `crud/chat_crud.py`, `routers/chat_api.py` | lifecycles (ready, pending, identities); `chats`, `route_segments`, `route_steps` | ensureChatCreated, create, update, delete | browser session, Postgres |
| Traveller memory, `crud/memory_crud.py` | persona rows | read, merge under a row lock | Postgres |
| Route stream and settings in the browser, `tripRouteStream.js`, `routingSettings.js` | generation, pending refresh, watchdog | stream, refresh, invalidate | browser session |
| Trip routing, `routers/routing_api.py`, `routing/planners/cp_sat.py`, `sources/persona_candidates.py`, `cp_sat_selection.py` | one trip's pools, ratings, exclusions, stops | discovery rounds, rating, road checks, select, schedule, reroute, final check | catalog, provider gates |
| Schedule and calendars, `cp_sat_scheduler.py`, `travel_timing.py`, `trip_calendar.py`, `visit_calendar.py` | clocks of one route, days, nights | place visits, hotels and the end on dated clocks; check them with actual legs | catalog's calendars, hotels |
| Meals, occupancy, prices, evenings, evaluation | none between requests | functions of one accepted route | trip routing |
| Planner agent, `agent/` | none between requests | extraction of a trip from text | language model |
| Places catalog, `catalog/ingest.py`, `calendar_enrichment.py`, `release_holds.py`, `hold_resolution.py`, `admission.py`, `repository.py` | generations with rows and calendars, the active one, recovery receipts, the release's hold list and reviewed exceptions | stage, activate, enrich, freeze, roll back, paged lookup | Postgres, trip routing |
| Source adapters, the rest of `catalog/` | retained pages, pinned selections | admit, hold or refuse the records of one source; convert its hours | the ingestion above |
| Assembly and unattended refresh, `catalog/mixed.py`, `automated_bindings.py`, `scripts/catalog_automated_import.py`, `catalog_incremental_*.py` | artifacts on disk | merge batches, select arrivals, bind hours, write an enrichment | adapters, ingestion |

What is hard in it:

* **Interleaving.** Handlers interleave at every await; jobs, turns and mirror passes run in
  threads; studies run in detached processes that share a SQLite file with the API; a page's timers
  and promises interleave with sign-ins and reloads.
* **At most once.** Providers are paid. Reconnects, retries, evictions, pauses, resumes, crashes
  and restarts may never pay for an id or a trip twice.
* **Cancellation.** A DELETE, a closed stream, a shutdown or a failed sibling cancels tasks whose
  threads go on; permits, rows and locks must come out right.
* **Late answers.** Renewals, requests, cache reads and polls are answered after the session, the
  page or the study they belong to has ended.
* **Partial failure.** Statements fail or lose their acknowledgement; workers are killed between
  two writes; a save's two halves are two transactions.
* **Identity.** Two tabs number their trips alike; retries, renumbering, late requests and deletions
  meet under one number.
* **A moving catalog.** Operators switch generations, hold places back and roll back between the
  pages of one lookup and between a trip's discovery and its final check.
* **Evidence that ages.** An import replays its batches on the day it runs, and again for a receipt or
  a switch; evidence may meanwhile be too old, one publisher may contradict another, and the same
  place comes from several sources, in one generation or along a chain of enrichments.
* **Two clocks.** The scheduler works with estimated driving and its own zones, the final check with
  actual legs; loops of exclusion and reselection must not run out.

`PROJECT.json` lists these at the lines where they bite ("hazards"), each with the properties that
would show it going wrong, or with the reason why there is none yet. Lesser ones without a property:
the turn's queue drops its oldest event when full; `singleflight` keeps a failed task for the run;
shutdown closes the connection pool while a cancelled job's thread may still write (modelled as a
failed write); an exception after the worker's Popen marks the study failed while the worker lives;
an older SQLite file put back reuses revisions the mirror has seen; while the key set cannot be
fetched the verifier rejects valid tokens (modelled as a rejected token).

## 2. The modules

### StudioJobs, RunLedger (jobs, rows, threads)

`StudioJobs` models one API process. `jobs` is `StudioJobs.jobs` (owner, payload, terminal event,
whether the task is done, its thread), `older` the order of the `finished` stamps, `lock` the request
that holds the asyncio lock with the step it awaits, `rows` the table, `workers` the threads of
`stream_turn`. `Ids` says which ids a visitor asks for; an id may be known to two. A POST is `Start` (up
to its first await), `ReadRecord` or `LockedStorageFails`, `StartDecide`; a DELETE is `Cancel`,
`ReadRecord`, `CancelDecide`, `CancelMark`, `CancelGather`; a GET is `Get`, `GetRow`. A GET keeps
nothing between its look into memory and its row, and memory starts empty, so `GetRow` is possible
whenever a row is visible and no variable says who reads. `Fresh` gives threads their identities in one
order, which is sound because unused ones are interchangeable; `struck` remembers that a statement of
the thread failed or its process died. `prune` is part of each handler that calls it, with every choice
that age or number allows. A thread goes through `ThreadStarts`, `Begin` (the INSERT), `Execute` (the
providers are paid), `Executed`, `Finish`, and on cancellation or failure through `Interrupted`, `Mark`,
`BeginFails`, `FinishFails`, `FinishDropped`. `Consume` and `Close` are the job's task on the event
loop. `Shutdown` and `Restart` are the process.

`RunLedger` is the abstract promise: an id gets one record, its providers are paid at most once and
never before the record exists, and the record settles once. `StudioJobs` implements it under the
mapping `record <- Record, paid <- executions`.

### ResearchStudy (studies and their workers)

`state`, `pid` and `cases` are the SQLite tables, `handles` the router's `_workers`, `starts` and
`reaper` the requests in flight, `workers` the processes with their two lanes, `runs` the run records of
live trials, `orderly` a history: so far every start was recorded before the next one and had its
study's earlier child polled, none failed or met an API restart, and no poll wrote late. One action is
one SQLite transaction, one process step or one awaited provider step: `Claim`, `Spawn`, `RecordPid`,
`RecordChild`, `StartFails`; `Reap` when a poll is undisturbed, `ReapLook` and `ReapWrite` when it is
slow; `Pause`; in the worker `Activate`, `Load`, `Reset`, `Take`, `Mark`, `SolverTrial`, `Look`,
`Insert`, `Settle`, `Save`, `Halt`, `GoLive`, `Count`, `Conclude`, `Interrupt`; and the failures
`WorkerFails`, `Crash`, `ApiRestart`. The constant `Faults` says which of them a run allows.

What the worker reads in one transaction and writes in a later one are two steps, and a second worker
on the study, a pause or a restart may come between them: the rows and the reset of each running one
(`Load`, `Reset`), the study's state and the case marked as running (`Take`, `Mark`), the last fatal
result and the pause (`Save`, `Halt`), the unfinished rows and the study's final state (`Count`,
`Conclude`), an exception and its "interrupted" (`WorkerFails`, `Interrupt`). Only the lanes of one
worker cannot come between each other's steps where the code has no await (`Held`). A worker that has
exited keeps nothing but the study it was started for, which is all that a poll reads of it.

### ProviderGates (permits)

Calls of one provider kind take a permit of their run and one of the process by two non-blocking
acquisitions, back off with the first when the second is refused, and give both back when the
coroutine or, for `threaded`, the thread's function ends. A run's context opens, closes (cancels
its calls, waits for tasks and threads, closes the clients) and may itself be cancelled while it
waits (`TearDown`). Kinds have separate gates, so one is modelled.

### ResearchFeed (results to the page)

`rev` is the events table: the revision at which each case finished. `MirrorRead` and `MirrorWrite` are
the two halves of `mirror_once`; its worker is one, so the end of the study is one step here;
`AnswerState`, `AnswerRows` and `AnswerSaved` are the API's answers from the live store (state and rows
in separate reads) and from the mirror; `Ask`, `Receive`, `Restore`, `Restored`, `Saved`, `Remount`,
`Reload`, `Act`, `SignOut` are the page, its in-memory cache and the compressed copy in sessionStorage.

### BrowserSession (session and requests)

The state of `session.js` with every token as a record of its serial number, account and the
sign-in it descends from (a history). `ensureSession` is what the function does up to its first
await, `outcome` what its caller gets; it is part of `Request`, `Receive` and `Restore`, which call
it. `Renewed`, `RenewalRefused`, `RenewalUnavailable` and `RenewalLate` are the ways a renewal
ends, each with the `finally` that clears the shared operation and with the callers' continuations
(`Settle`). `Dispatch` is the check of the session after the await and the request that goes out;
`Serve` is the API, whose verifier comes before the work of the allowlisted endpoints
(docs/session-refresh.md); `Receive` returns, throws or replays. `Ages` and `Refuse` make tokens
old or unwelcome.

### SavedTrips (pages, requests, rows)

`rows` is the table `chats` (planning identity, which save each of the two halves holds, the inline
route), `segments` the `route_segments` in order, `pages` what each tab knows (its trip's number, the
numbers it has loaded, whether the row is ready), `calls` the requests on their way, served or not.
Each `Planners` page plans one trip, so the page stands for its `agentChatId`; `Viewers` open a
stored trip and save visit marks. `Plan` numbers a trip one above the loaded ones, `Open` reads one,
`Save` is `ensureChatCreated` or `updateUserData` up to the request. The handlers have no await, so
each is one action: `Create` (the upsert whose predicate compares the planning identity), `Update`
(ChatData with the segments, then ChatLog in a transaction that may fail), `UpdateMissing`,
`Unavailable`, `Delete` (the row only). Answers are `Acknowledge`, `Renumber` (a fresh number after
an identity conflict, twice at most), `Recreate` (a 404 creates once) and `Fail`; `Lose` breaks the
connection or leaves the page, and the request may still arrive.

### PlacesCatalog (generations and the paged lookup)

`imports` are the staged generations by manifest with their rows, unusable calendars and moved
coordinates, `active` the row of `places_catalog_active`, `receipts` the frozen recovery receipts,
`held` and `registry` the pinned hold list and the pinned exceptions of the running release, `expired`
the admissions that have run out, `walk` one search's cursor. Each operator command is one action, for
it runs in one transaction under the same advisory lock: `StageBase`, `Activate` (`ingest.py`),
`StageChild`, `Switch` (`calendar_enrichment.py`), `Freeze` and `Rollback` (the receipt), `Release` (a
longer hold list or one more exception; the process starts only if the whole registry stands, and its
searches start anew) and `Expire`. Holds are read in two ways: staging an import or an enrichment and
switching between the two read the prepared rows in the process (`Unheld`), activation of an import,
recovery and lookups read the stored rows in the database (`Clear`, `SqlAdmitted`), where an imported
calendar ends the exception of its row. An enrichment that gives an excepted row a calendar can
therefore be staged and switched to, its lookups leave the row out, and `ingest.activate` refuses it.
`ReadPage` is `nearby_page`, `TakePage` the caller's loop. What an artifact contains is a constant; what
staging, switching and recovery require of it is in the guards; what is recorded of each of its rows
(`Recorded`) is what holds and exceptions are compared with.

### HoldResolution (reviewed exceptions to holds)

Operators without state, from `hold_resolution.py`, `browse_quarantine.py` and `release_holds.py`.
`Approved` is the whole check of a payload: a row that may only be browsed carries the restriction made
of its own review (`Quarantined`); a row for routes was promoted from one that was browsed
(`Promoted`), keeps it whole, speaks of its own arrival from receipts read before the review
(`Grounded`) and does not outlast its admission (`Retains`). `RegistryStands` is `load_registry`.
`Resolved` is the look-up by a record that a search has read, without region and with an imported
calendar in place of its own (`Projection`), `SqlResolved` the look-up by digest of the stored row.
Digests and canonical texts are equality of facts.

### TripPlanning (one trip over a changing catalog)

`TripPlanning` extends `PlacesCatalog`: a trip's steps interleave with the catalog's. `Search` starts a
lookup at a point not searched yet, `Gather` cuts the pool and freezes what may be rated. `Ask` reuses
stored ratings or sends one group of the frozen places to the paid rating, `Repair` sends a group of
which the answer rated nothing once more, and `Rate` ends the round. The groups of a round are disjoint
and run side by side; they are taken in one order, for none reads what another writes. A retry inside a
request is `limited` with `retry_async`, of ProviderGates, and counts as one sending here. `sent` counts
the sendings of each place until the discovery ends. `CheckRoads` are the detours, `Plan` starts the
planner with its budget of selections, `Select` chooses among the sets of stops that the solver may
return, `Schedule` accepts or excludes one stop, `Reroute` and `Refresh` read the stops again from the
active generation, `Time` is the final check, `Conflict` the exclusion and reselection of
`plan_final_route`, `Refuse` every way a provider or a solver ends the trip (an exception leaves nothing
of it), `Restart` a release. Whether a visit fits its hours is left open here and decided by
TripSchedule.

### TripSchedule (the two clocks)

A behaviour is one route: `ScheduleInit` chooses policy, departure, route and visits, `Arrive` takes the
next event within the day's deadline or finds a conflict, `Overnight` drives to one of the six searched
positions and restarts the next morning on the hotel's clock, `GiveUp` ends at the limit of nights or
without a position. `Time` is `apply_timing`, one stop at a time, with any actual leg up to one half
hour longer than estimated. Time is in half hours, so zone shifts, dwell and windows are exact;
`ScheduleAssumption` says so of the constants, and that the windows of a date close by the end of the
next one. `ScheduleHolds` has one exception, disagreement 3 of section 4. The final check's outcomes "no
night" and "stay changed" are in the code and in the model, and no behaviour reaches them: they are the
code's own guards against what the scheduler already excludes.

### PublishedHours (from a source's page to a visit)

Extends TripSchedule by the step before it. `page` is what one source states about one place, its prose
reduced to what it restricts (dates, clocks, "closed", "found on the page or not"), `calendar` what the
adapter makes of it in the release's calendar contract (weekly rows, seasons, overrides, closures,
unknown), `Held` if it refuses. Each `Import...` action is one adapter with all of its refusals:
reviewed National Park schedules of two generations, unreviewed facilities, the Forest Service's
reviewed and current feeds, dated entries, tables, grids, sessions, events, daily and monthly statements
of operators, markets, venues. `AllowedDay`, `DayIntervals` and `Eligible` are routing's reading of a
calendar; `Depart` gives the windows to a trip of TripSchedule, which then visits the place or finds a
conflict. `Permits` is the reference: it reads the same page statement by statement at one clock of one
date and shares no operator with the adapters. Identity and receipt checks are one flag each, time zones
belong to TripSchedule, and a page is stated in local clocks.

The loops in which an adapter intersects one statement after the other are one fold, `Restricted`, with
the three ways in which the code ends them: at a date it cannot read (`Narrowed`), also at a closed one
(`UntilClosed`), or never (`Shared`). `Adapted` is the adapter of a page, also where SourceAdmission
needs the hours of a row. The page "roster" belongs to the three adapters of state market rosters, which
no visitor imports alone: `bounded_calendar` spells the calendar of such a market out for the reviewed
dates and drops its seasons, so that a session over midnight on the last of them is not cut (as the one
of a season is, `visit_calendar.day_intervals`); `Closes` says so.

`PageTyped` is what a page is after parsing (`PagesAssumption`): lists are lists, clocks of a table are
within a day and others end by the end of the next one (`Window` allows an offset of one day), and only
the first review has unclear dates, only the second has named holidays. One of its parts is about
reviewed data and not about code: the hours of a reviewed Forest Service profile lie within the clocks
of the literals that the profile names (`usfs_visit_calendar.py`, `_PROFILES`, where both are constants
side by side).

### ArrivalEvidence, MarketEvidence (one source record)

Operators without state: what each adapter asks of one record before it is a place that can be driven
to. A record carries what was retained of it: what each publisher says (`says`), points from other
publishers (`points`), the day its oldest page was read (`read`), the router's answer for its point
(`drive`), the mapped way at its end (`way`), lots, buildings and areas. Places lie on a line whose
unit is 25 metres, so that the code's bounds of 75, 100, 250 and 500 metres are 3, 4, 10 and 20.
Parsing of addresses and names, checksums, licences and pinned selections are flags.
`MarketEvidence` has the four adapters of the national markets feed with the state rosters, seasons
and Census answers that they compare.

### SourceAdmission (from records to a generation)

A *world* is what is imported: the batches of a base generation with the merge mapping, and a chain of
enrichments, each with its batches, selection, bindings and reviewed entries. `Replay` is one adapter
run on one day: pages must be in time, each record is judged alone, and then the adapter's policy
decides. A reviewed selection is refused as a whole if one record no longer qualifies; a list holds the
record alone; a roster must give exactly the frozen selection. Where an adapter takes candidates in
turn, `Kept` is the one set that the turns leave. `WorldTyped` says which fields a record of a source
carries, of which kind its page is, and that a reviewed entry is what an adapter made of the page it
cites (`WorldsAssumption`); the importer checks the form of such an entry and its receipts, not its
hours again. `Assembled` is `mixed.assemble`, `Enriched` is
`calendar_enrichment.prepare`, which `Accepts` its inputs or refuses them as a whole; `Keys` are the
publishers' own facility numbers, each tagged with its publisher. `staged`, `receipts`, `serving` and
`day` are the state: `Stage`, `Freeze` and `Switch` prepare the artifact again and compare, `Activate`
and `Rollback` do not. `Look` takes a place that is served, with the hours it is served with, to
PublishedHours and a trip. PlacesCatalog has the same commands under concurrent searches and holds, with
opaque contents; here contents are computed and commands run one after another, as an operator runs
them.

### CatalogRefresh (the unattended refresh)

`Refresh` is `catalog_automated_import.py` from the pinned snapshot to the artifact: both
acquisitions, in which units and drives may fail to load (`ParksAcquired`, `ForestAcquired`), the
selection of new arrivals in the order of the command (`Arrivals`), the hours for places that lack
them (`Bindings`), the road of interest, and the payload that the operator's import then meets
(`Enriched`). The importer makes its own checks; that they accept what the refresh writes is a
property. `CatalogSpec` is the behaviour of the run `schedule`: single pages as in PublishedHours,
worlds with their imports and refreshes, and trips to what either gives.

`MC*.tla` give the constants that a configuration cannot (functions, symmetry). Definitions whose
comment begins with "Seeded bug" are plausible mistakes; `PROJECT.json` ("mutants") says which
definition each replaces and which property must then fail. They are no part of any specification.

## 3. What the runs check

| run | instance | what it shows |
|---|---|---|
| `jobs` | 2 visitors, 2 ids, one of them known to both, 2 threads, 1 active, 1 finished kept; storage failures, shutdown, crash; fair | admission limits; an id is paid at most once; "complete" is true; only stopped or failed runs stay unfinished; RunLedger is implemented; jobs and cancelled threads end and the lock is released (`JobsEnd`) |
| `research_live` | 2 studies, 2 cases (one paid), 2 workers, 1 start request, kills and API restarts, fair | while starts are orderly one study executes and finished cases are not repeated, although every read and its write are two steps; studies settle whatever dies |
| `research_faults` | 1 study, 2 start requests, every fault | a paid trip is never repeated, even when two workers run one study |
| `research_stale_handle` | 1 study, 3 workers, 1 start request at a time, no fault | **violated**: see 1 below |
| `gates_base` | 2 runs, 4 calls (coroutine and blocking), limits 2 and 2, 1 executor thread | only dropped calls lose permits; closed runs are quiet; calls and runs end |
| `gates_torn` | as above | **violated**: see 2 below |
| `feed` | 2 cases, 2 disturbances, live store and mirror, fair | cursors skip nothing; complete means all; sessions stay apart; the mirror only grows; results arrive |
| `session` | 2 accounts, an allowlisted and another request, 1 sign-in or sign-out, 2 troubles, fair | credentials, status, renewals, replay and accounts as described; every request ends |
| `trips` | 2 planning pages (one with a long route), 1 viewing page, 3 numbers, 2 saves a page, 1 deletion, 2 mishaps | one row per plan; no trip replaces another; acknowledged saves stay; a route reads back as planned |
| `planning` | 4 places, 2 imports and 1 enrichment, 2 search points, pages of 1, 4 catalog changes, a place that may be held and 3 entries for it, cap 2, 2 stops wanted, fair | a lookup is complete in one generation; no later round rates a place again, and one group is repaired once; reselection never runs out; accepted stops are current, routable and, if held, excepted as they are; trips end |
| `schedule` | 4 policies, 3 departures, 8 routes over a zone border, up to 2 visits and 2 nights; pages of every source, imported and visited; about 570 worlds of 17 sources with up to two enrichments and a refresh, over 7 days | the final clocks refuse nothing that was scheduled, but a destination whose deadline is before the preferred hotel arrival; the calendar filter removes only impossible visits; a place is open to routing, and visited, only as published; no place is served twice; a generation adds only what its publishers said on the day; hours are kept along enrichments; the importer accepts what a refresh writes |
| `schedule_deadline` | the same routes and policies, one departure, nothing to visit | **violated**: see 3 below |

### Bounds, and why they are enough

* *Jobs.* Two ids and two threads let an id be started twice and two ids compete for one place; two
  visitors are needed for the limit per visitor and for an id that another visitor's job has.
  `MaxActive` and `MaxFinished` are 1 so that both limits bite with two ids (4 and 16 in the code); the
  limits themselves are proved for every value. With `MaxActive` 1 the limit per visitor follows from
  the one over all visitors, so the run says nothing of it: `Admission` proves it for every pair of
  bounds. Threads are identities that are not reused: their number bounds the starts, so a third start
  of an id is beyond the run and covered by the proofs.
* *Studies.* Two studies compete for the store; two workers are a first and a resumed (or second) one;
  the stale handle needs a third, the child that has ended. `HaltLimit` is 1 instead of 3, so that one
  fatal failure reaches it. `Pipeline` has one paid case besides a solver case: lanes, resume and
  repetition need no more.
* *Gates.* Three calls in one run against a run limit of 2, and one call in the other against a
  process limit of 2: both gates are exhausted, and refusals by the second gate happen. One executor
  thread makes blocking calls queue.
* *Feed.* Two cases let the cursor stand between two rows. Two disturbances (reloads, remounts,
  clears, sign-outs, failed requests or passes) give every ordered pair of them.
* *Session.* Two requests share a renewal or follow each other; one change of session lies before,
  within or after each await; two troubles allow a rejected token whose renewal fails. The stored
  account is one of two, so that another one may sign in. More changes of session are covered by the
  proofs.
* *Trips.* Two planners collide on a number and one must renumber into a third; a viewer edits the
  same row as its planner; one long and one short route tell segments from an inline route; two saves
  give a newer and an older one; two mishaps give a lost answer and a failed half, or two late
  requests. The properties are proved for any number of pages, saves, numbers and mishaps.
* *Planning.* Pages of one place put a catalog change between any two rows. Four places with a held, a
  moved and a shut one, and one that a later import admits for browsing only, and two stops wanted with
  a cap of two, make the pools overflow, the ratings run out and both reselection loops start again.
  Groups of one and of two places are answered in whole, in part, on repair or never. The place that may
  be held has an entry for its present row, one for the row before its promotion and one that would
  renew its admission; a later import gives its identity to another place, which has also moved. It may
  be held from the start, so four changes allow an exception, an enrichment, its rollback and an expiry,
  or a hold, its exception and two switches, in one trip. The cap of 60 and the radius only scale this.
* *Schedule.* Two visits around a border and two nights let the border lie before, between and after
  them and a hotel stand on either side; windows that open late, close early and span midnight, a
  fixed start and a place that is always open are among the visits. A leg may be up to one unit longer
  than estimated; from there on the check may refuse, so longer ones add nothing.
* *Pages.* A week of two days and a year of three let a horizon of four evaluated days contain every
  weekday twice and pass the year's end; windows before, over and after midnight are among the
  clocks. For every source the pages vary one group of statements (table and exceptions, parents,
  prose, feeds, seasons, layers and last entries) while the others are fixed, for the adapters
  combine the groups by intersection; `MCPublishedHours` lists them.
* *Worlds.* For every source there is one record that is admitted and one for each condition that
  its adapter asks for; records are judged one by one, so pairs of failing conditions add nothing. Pairs
  of records stand closer than, at and beyond 100 and 250 metres, with the same and other names,
  regions and identities; beside them are merges, chains of two enrichments, bindings, frozen
  selections, held records and refreshes of both agencies. A month is 4 days and a run lasts 7, so that
  evidence is fresh, at its limit and too old.

### Fairness

Weak fairness only, and only for what a scheduler or a timeout brings about: threads and tasks that
can run do run, awaited statements return or fail, providers answer or time out (every call has a
timeout in the code), a renewal ends within the 15 seconds of its race, the page's timers fire, the
mirror task loops and somebody polls the study list (the dashboard does, every few seconds).
A planning trip's own step is fair as a
whole (lookups, the language model, the solver and the routing service return or time out) and needs
no fairness of the catalog, whose operators are never forced to act.
Visitors are never forced to do anything: starts, pauses, cancellations, sign-ins, reloads and
closing a run are not fair, and neither are crashes and failures. `CHECK_DEADLOCK` is off where
the system may rightly come to rest (all jobs done, all threads used, nobody clicking).

## 4. Disagreements the runs show

1. `research_stale_handle`: when a paused study's child ends between the poll of the study's next start
   and that start's claim, the next poll finds that child ended and marks the running study
   interrupted, after which a second worker can be started
   (studio_research.py:36 against docs/studio-research.md:140).
   `research_faults` shows that even so no trip is paid twice: the insert of the run record
   arbitrates.
2. `gates_torn`: a cancellation that arrives while a run's context waits for its threads drops
   queued blocking calls with their permits (runtime.py:58 against the comment at line 147).
3. `schedule_deadline`: a destination that does not fit its own deadline is scheduled up to the
   preferred hotel arrival, and the final check then refuses the trip
   (cp_sat_scheduler.py:151 against docs/arrival-timing.md:3). It is the one exception of `ScheduleHolds`.

Two lesser ones are behaviours of StudioJobs that no run states as a property. `prune` forgets a
remembered cancellation like any finished job, and a POST that arrives after that starts paid work
(studio_jobs.py:77 against the comment at line 150). A DELETE that is answered "cancelled" while
`lab_runs.finish` is in flight leaves a row "completed" (algorithm_lab.py:254 against
docs/studio-progress.md:14).

## 5. What is proved

TLAPS checks the theorems for every value of the constants that the modules' assumptions allow.

* `StudioJobsProofs`. `TypeCorrect`; `PaidOnce` and `RecordedFirst` from `PaymentInv` (in
  StudioJobs): "paid at most once" is not inductive, for it says nothing of a thread that is about
  to pay. The invariant adds that a thread past its INSERT has a stored row and an unpaid id, that
  two such threads never share an id, and that a thread past the payment has paid exactly once; the
  INSERT's primary key is what establishes it, whatever memory has forgotten. `SettledForGood`
  follows from the guards of the two statements that settle a row. `LedgerImplemented`: each step
  maps to a step of RunLedger or to a stutter. `Admission` (the limits on active trips): a POST that
  decides to start holds the lock since it looked, and everything else only ends jobs.
  `CompleteIsExecuted`: a job is complete only through its own thread's result (`JobInv`), what the
  lock's holder has read stays true up to the row being settled (`LockInv`), and so does what a client
  was told (`ToldInv`); rows and payments are never taken back. `RowsGetFinished` from `RunningInv`: a
  running row has a thread that answers for it, on its way to settling it, stopped or struck.
* `ProviderGatesProofs`. `DroppedCallsLose`: the permits of a gate, free or held by a call or lost
  by a dropped one, always add up to its limit; `TypeCorrect` (no semaphore is released once too
  often) and `FlightsAreBounded` follow. `PermitsAreConserved`: without a cancellation of a closing
  run nothing is ever lost, so `gates_torn` needs exactly that. `ClosedIsQuiet`.
* `BrowserSessionProofs`. The invariant has a part for the session (`SessionInv`: stored tokens descend
  from the sign-in in force and belong to the stored owner; an operation of the present generation
  renews a token of the stored account; whatever ends a session begins a generation) and one for each
  request (`CallInv`: what it waits for and what it carries belong to the account of its data; if its
  generation is still the present one, its token is of the sign-in in force; what it has worked). Every
  step either keeps generation, sign-in and owner or begins a new generation (`SessionStep`), which is
  all that requests need to know of it (`CallStep`). Theorems: `TypeCorrect`, `NoRevival`,
  `HonestStatus`, `WorksOnce`, `Apart`. `RenewedForCause` adds `SoleInv`: of the renewals awaited only
  the shared one is of the present generation, and a request reports as rejected only what the verifier
  refused.
* `SavedTripsProofs`. `IInv` has `PageInv` (what a page knows of its number and its row), `CallInv`
  (where a request can still arrive: the page's number, a deleted one, or one that another plan has
  for good), `OneCall` (a page waits for one request) and `RowInv` (a stored row has the number its
  setup page has, and the route of its plan, inline or in segments but never in both halves).
  Theorems: `TypeCorrect`, `OneTripStored`, `StoredTripsStay`, `RoutesReadBack`.
  `AcknowledgedSavesStay` needs `SaveInv` on top: both halves of the row hold what was acknowledged,
  or what another page wrote since.
* `ResearchFeedProofs`. Every copy (mirror, answer under way, page, memory, sessionStorage) holds the
  finished cases between one revision and its cursor (`Delta`), a whole copy those since the
  beginning. `IInv` says so of each copy and adds that what is merged begins where the other ends
  (`MirrorInv`, `AskInv`) and that copies carry the session in force (`SessionInv`). Theorems:
  `TypeCorrect`, `NothingSkipped`, `CompleteIsWhole`, `SessionsStayApart`, `MirrorOnlyGrows`.
* `ResearchStudyProofs`. `TypeCorrect` with `WorkerInv`. `TripsPaidOnce` from `PaidInv`: a trip is
  unpaid while it has no run record, and whoever inserts the record pays; as nothing removes a record
  this holds for any number of workers on one study and every fault, so the stale handle of section 4
  costs no money. `PausesAreHeard` follows from the guards of the transactions and
  types alone. `OneStudyExecutes` is false of the code; `OrderlyStudies` proves it while starts are
  orderly, for any number of studies, workers and requests, whatever is paused, fails in a worker or
  dies. `OrderInv` ties each live worker to its study: it is the stored pid of a study that says it
  runs, and its recorded child unless the API restarted, or it is the child of the one start in flight,
  whose study has no other. `ResumeRepeatsNothing` adds `LaneInv` (a case leaves the queue before a lane
  works on it) and `QueueInv` (what an executing worker has in its queue, still has to reset or is about to
  mark is not finished). `CompleteIsTrue` adds `DoneInv`: what a worker found finished when it counted
  still is when it concludes. None of this holds with two workers on one study: one of them may mark
  a case as running between the other's count and its "complete", so both are stated for orderly starts.
* `CatalogRefreshProofs`. `NoPlaceTwice` and `HoursStay` are about whole chains, while each import
  looks at one parent. `Invariant` says that a staged generation keeps its content, that its parent
  is staged, and that every enrichment has grown out of its parent (`EnrichmentGrows`: all rows, new
  ones near none, hours only where named or where none were imported). Then both follow for each link
  of a chain. Nothing is assumed of the records, for the checks compare whatever they are given.
  `OnlyAsPublished` has the rule of each of the seventeen sources (`PublishedOn`), which every record
  that its adapter admits meets on the day of the replay (`ReplayedArePublished`) and which outlasts
  every merge: were it lost by some merge of a base, there would be a first one (`MergesApply`, the least
  counterexample among numbers, since induction is out of reach). `EvidenceInv` says that batches stay
  what an adapter can replay. `RefreshStands`: what an unattended source replays depends on the day only
  through the ages of its pages (`SameReplay`); `BundleAccepted` goes through each of the importer's
  checks for what a refresh bundles; `NamedInv`, `ServingInv` and `AcceptedInv` carry this to the day of
  the import. `ScheduleStands` from `RoadInv`: a plan's stops, with their estimated legs, fit between
  the moments of a course, and the check, whose clock is another one, is never behind that course while
  no leg was longer. `FilterIsSafe` from `AgeInv`: a plan is as many days old as it has nights and never
  behind its departure, so what it visits lies in the filter's longest trip; the windows of a calendar
  that was imported or served close by the end of the next date (`WindowPermits`).

  `NeverWidened` is about hours from the page to the visit, in four steps. (1) A fold of restrictions:
  what is left of hours lies within the hours and within every statement, whatever ends the loop
  (`RestrictedWithin`). The fold is brought into steps by `RestrictedInTurn`, again with a least
  counterexample, for any number of statements. So the hours an adapter has for a date are permitted by
  each table, exception, parent, lot and clock that applies to it (`NpsSays`, `FacilitySays`, ...), of
  markets also across weekdays and seasons that pass the year's end (`MarketAsPublished`), of venues
  across layers and last entries (`VenueAsPublished`). (2) For each of the eighteen kinds of pages the
  calendar has no hours beyond these (`AsPublishedBy`, `AdaptedAsPublished`), and nothing that routing does
  when it reads one adds any: a session over midnight belongs to the date on which it opens and is cut
  where the next date has rules of its own (`ReadAsPublished`, `OpenAt`). (3) Merges, selections,
  bindings, enrichments and rollbacks pass calendars on with the pages they were made of (`StatedInv`,
  by `ContentStated` for whatever is prepared again; `ReadInv` for what a visitor holds, which needs that
  what is served is staged, `ServingInv`). (4) A trip departs with that calendar and keeps it
  (`VisitorInv`), and whoever has just left a place was there within one of its windows (`LeftInv`), for
  the scheduler's start lies in a window together with the whole dwell. `StatedInv`, `ReadInv`,
  `VisitorInv`, `LeftInv` and the parts that `AgeInv` adds to `RoadInv` were model-checked with the
  constants of the run `schedule` before they were proved.
* `TripPlanningProofs`, about PlacesCatalog and TripPlanning together. `CatalogInv` and `CatalogKept`: a
  staged generation never changes, holds and expiries are not taken back, the registry stands, and a
  parent or a receipt's generation is still there when it is switched to. `WalkInv`: between two pages,
  everything eligible up to the last row read is found, or it is tight and the tight places are full; a
  page leaves out rows only when it is full, and then later ones; rows are counted once. `WalkComplete`
  is not inductive without these. `PoolInv`: the stops are among what is left, that among the candidates
  that are not excluded, and the two budgets count what is left and what is excluded; so a budget never
  ends before the pool does. `RatingInv`: what is frozen was not sent before, what waits for its repair
  was sent at most once, and what was sent was attempted, whose number the budget bounds. That a selection is
  always feasible (`SelectionExists`) needs that a maximum exists, which is derived from finiteness
  without induction (`LeastExists`, `GreatestExists`). Theorems: `PlanTypes`, `SearchIsComplete`,
  `OneRatingRound`, `LoopsSuffice`, `AcceptedIsCurrent`. The last one and `SearchIsComplete` need that a
  row which the database admits is not dropped by the process that reads its projection (`HoldsAgree`,
  for any row, holds and standing registry; the reverse is false for imported calendars), and that an
  exception of a promoted row is for exactly this row and outlasts no admission
  (`ExceptionsRenewNothing`).

`RecordedFirst`, `FlightsAreBounded`, `CompleteIsTrue` and `PausesAreHeard` state properties that no
run lists: `RecordedFirst` and `FlightsAreBounded` follow from ones that are checked, `PausesAreHeard` from
the guards of single transactions, and `CompleteIsTrue` from the same invariants as `ResumeRepeatsNothing`.

Assumptions are named in the modules that declare the constants and are evaluated by the runs:
bounds are naturals, limits positive, `Null` is none of the values it is told apart from
(`NullAssumption`, `ResearchNullAssumption`, `NoGenerationAssumption`), the places of a catalog are
finitely many numbers (`CatalogAssumption`), and an enrichment's parent is numbered within its world
(`WorldsAssumption`).

The proofs of TripSchedule, PublishedHours, SourceAdmission and CatalogRefresh also assume the types of
their constants (`ScheduleAssumption`, `PublishedAssumption`, `PagesAssumption`, `WorldsAssumption`):
times are whole half hours, given windows close by the end of the next date, pages are what the parsers
let pass, and records carry the fields and the page of their source.

Every invariant and action property that a passing run lists is stated by a theorem. Only model-checked:
all liveness (TLAPS has no rules for fairness and ENABLED that its backends here support): `JobsEnd`
under all faults of jobs, `StudySettles` under kills and API restarts, `CallsAndRunsEnd`, `FeedArrives`,
`RequestsEnd`, `TripEnds`. That one study executes under starts that are not orderly is not even true
(section 4). Nothing is proved by the library's induction theorems or about a recursive operator; no
module that a theorem reaches declares one. Where a proof is about any number of statements, merges or
visits, it takes the least number for which the claim fails.

## 6. What is not modelled, and why

* Of trip routing: the score's detour term and tie breaks, the planners `greedy` and
  `ortools_knapsack`, meals, occupancy, prices, evenings and the evaluation of finished runs. They are
  sequential functions of one request over real-valued data. Their calls to providers are in
  ProviderGates.
* Of the catalog: the downloads, the literal parsing of prose and addresses (a page states restrictions
  here, a record says open or closed), checksums, licences and pinned selections (one flag each), the
  attributes of a row that no check compares, `parking_holds` (a report for reviewers), the digests and
  the file format of the registry of exceptions, the release SQL, and the scripts of past campaigns.
* Of the steps of a leg in trip storage: they are stored and restored as the segments are.
* Of the page: two calls that join one pending creation, the deletion of a trip from the page that
  shows it, the trip route's event stream (the replay loop of protectedRequest with a watchdog), the
  owner's routing settings.
* Traveller memory (one statement per operation), what the trait cache contains (`Ask` may find any
  rating stored) and `singleflight`/`joined` (tasks shared within one run).
* Progress events and heartbeats between start and end of a turn, the texts of errors, logging,
  ranking and statistics queries over the rows.
* The owner's unlimited access and the legacy endpoints without job ids: they bypass the registry
  and have no concurrent state of their own.
* In BrowserSession: the account-scoped UI storage that sign-out clears, and reload as an action
  (a page load is Init, with every state the storage may hold).
* Process identifiers are not reused and clocks do not go back. Both can happen (a restarted
  container counts pids from low numbers).
* The design that draws a study's trials, the user interface, the planner agent around the language
  model, the endpoints that forward to one provider.

## 7. Plan

Done, in the order of importance: StudioJobs with RunLedger, ResearchStudy, ProviderGates,
ResearchFeed, BrowserSession, SavedTrips with the storage, PlacesCatalog with TripPlanning,
TripSchedule with PublishedHours, SourceAdmission with CatalogRefresh, HoldResolution, and the proofs of
section 5.

Next modules: `TurnStream` (the bounded queue, drop-oldest and the terminal event, refined by the
`Consume` and `Close` of StudioJobs; `singleflight` and `joined`); `RouteStream` and
`RoutingSettings` on top of BrowserSession (generation counter and watchdog); the merge of traveller
memory under its row lock.

Next proof: the converse of `NeverWidened`, that nothing published is lost, for the sources that withhold
nothing.
