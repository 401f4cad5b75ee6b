------------------------------- MODULE SavedTrips -------------------------------
(***************************************************************************)
(* The saved trips of one account: their rows and route segments           *)
(* (backend/app/routers/chat_api.py, crud/chat_crud.py) and the pages that *)
(* create and update them (frontend/src/services/savedTrips.js,            *)
(* pages/TripSetup/TripSetupPage.jsx, components/TripVisitProgress.jsx).   *)
(* Every page has its own copy of what it loaded.  A handler runs to its   *)
(* end without an await, so serving a request is one step.                 *)
(***************************************************************************)
EXTENDS Naturals, FiniteSets, Sequences

CONSTANTS
  Planners,   \* setup pages; each plans one trip, so a page's name is its agentChatId
  Viewers,    \* pages that open a stored trip and save visit marks
  Long,       \* planners whose route takes two stored segments
  LastId,     \* bound on trip numbers
  Saves,      \* bound on a page's saves
  Deletes, Mishaps,   \* bounds on DELETE requests, and on failed requests and pages left
  Null

ASSUME TripsAssumption ==
  /\ Long \subseteq Planners /\ {LastId, Saves, Deletes, Mishaps} \subseteq Nat
  /\ Planners \cap Viewers = {} /\ Null \notin Planners

Pages == Planners \cup Viewers
Ids == 1..LastId

VARIABLES
  rows,       \* chats: the row of each trip number, or Null
  segments,   \* route_segments: by trip number, the stored chunks in order
  pages,      \* what each page holds
  calls,      \* requests that were sent and not yet answered to their page
  removed,    \* trip numbers deleted so far
  mishaps

vars == <<rows, segments, pages, calls, removed, mishaps>>

Stamp == [by : Pages, n : 1..Saves]
Row == [plan : Planners, data : Stamp, log : Stamp, route : Seq(Planners)]
Page == [at : {"loading", "editing", "saving", "closed"}, plan : Planners \cup {Null}, id : 0..LastId,
         known : SUBSET Ids, route : Seq(Planners), ready : BOOLEAN, saves : 0..Saves, acked : 0..Saves,
         late : BOOLEAN]
Call == [page : Pages, kind : {"create", "update"}, attempt : 1..3, id : Ids, plan : Planners,
         route : Seq(Planners), n : 1..Saves, lost : BOOLEAN, answer : {0, 200, 404, 409, 503}]

ASSUME NullAssumption == Null \notin Row

Init ==
  /\ rows = [i \in Ids |-> Null] /\ segments = [i \in Ids |-> <<>>]
  /\ pages = [p \in Pages |-> [at |-> "loading", plan |-> Null, id |-> 0, known |-> {}, route |-> <<>>,
                               ready |-> FALSE, saves |-> 0, acked |-> 0, late |-> FALSE]]
  /\ calls = {} /\ removed = {} /\ mishaps = 0

Mishap == mishaps < Mishaps /\ mishaps' = mishaps + 1

RouteOf(p) == [k \in 1..(IF p \in Long THEN 2 ELSE 1) |-> p]      \* segment_route
Stored == {i \in Ids : rows[i] # Null}
\* One more than the largest number the page was given.
NextId(i) == i - 1 \in Stored \cup {0} /\ \A j \in Stored : j < i

\* GET /chats: a route is inline until its first update, then read from the segments.
ReadBack(i) == IF rows[i].route = <<>> THEN segments[i] ELSE rows[i].route

-----------------------------------------------------------------------------
(* The pages *)

\* A setup page loads the account's trips, plans, and numbers its trip after them.
Plan(p) ==
  /\ p \in Planners /\ pages[p].at = "loading"
  /\ \E i \in Ids :
       /\ NextId(i)
       /\ pages' = [pages EXCEPT ![p] = [@ EXCEPT !.at = "editing", !.plan = p, !.id = i,
                                                  !.known = Stored, !.route = RouteOf(p)]]
  /\ UNCHANGED <<rows, segments, calls, removed, mishaps>>

\* Another page opens a stored trip, which is ready for updates.
Open(p, i) ==
  /\ p \in Viewers /\ pages[p].at = "loading" /\ i \in Stored
  /\ pages' = [pages EXCEPT ![p] = [@ EXCEPT !.at = "editing", !.plan = rows[i].plan, !.id = i,
                                             !.known = Stored, !.route = ReadBack(i), !.ready = TRUE]]
  /\ UNCHANGED <<rows, segments, calls, removed, mishaps>>

Request(p, kind, attempt) ==
  [page |-> p, kind |-> kind, attempt |-> attempt, id |-> pages'[p].id, plan |-> pages'[p].plan,
   route |-> pages'[p].route, n |-> pages'[p].saves, lost |-> FALSE, answer |-> 0]

\* Seeded bug: a second save may start while the first is out.
SaveAgain(p) ==
  /\ pages[p].at \in {"editing", "saving"} /\ pages[p].saves < Saves
  /\ pages' = [pages EXCEPT ![p].at = "saving", ![p].saves = @ + 1]
  /\ calls' = calls \cup {Request(p, IF pages[p].ready THEN "update" ELSE "create", 1)}
  /\ UNCHANGED <<rows, segments, removed, mishaps>>

\* A first save or a retry; ensureChatCreated sends nothing for a trip that is ready.
Save(p) ==
  /\ pages[p].at = "editing" /\ pages[p].saves < Saves
  /\ pages' = [pages EXCEPT ![p].at = "saving", ![p].saves = @ + 1]
  /\ calls' = calls \cup {Request(p, IF pages[p].ready THEN "update" ELSE "create", 1)}
  /\ UNCHANGED <<rows, segments, removed, mishaps>>

-----------------------------------------------------------------------------
(* The handlers *)

\* A call is answered; nobody waits for the answer of a lost one.
Answered(c, status) ==
  calls' = (calls \ {c}) \cup (IF c.lost THEN {} ELSE {[c EXCEPT !.answer = status]})

\* Seeded bug: the upsert has no condition on the planning identity.
AnyRow(c) == TRUE

\* The row is free, or belongs to the same planning request.
SameRequest(c) == IF rows[c.id] = Null THEN TRUE ELSE rows[c.id].plan = c.plan

\* POST: one upsert of both halves with the route inline.
Create(c) ==
  LET stamp == [by |-> c.page, n |-> c.n]
  IN /\ c.kind = "create" /\ c.answer = 0
     /\ IF SameRequest(c)
        THEN /\ rows' = [rows EXCEPT ![c.id] = [plan |-> c.plan, data |-> stamp, log |-> stamp, route |-> c.route]]
             /\ Answered(c, 200)
        ELSE UNCHANGED rows /\ Answered(c, 409)
     /\ UNCHANGED <<segments, pages, removed, mishaps>>

\* Seeded bug: an update appends its segments.
Appended(old, new) == old \o new

\* Upserted by position: segments beyond the new route stay.
Overlay(old, new) == new \o SubSeq(old, Len(new) + 1, Len(old))

\* PUT: chat_data with the segments, then chat_log in a transaction of its own, which may fail.
Update(c) ==
  LET stamp == [by |-> c.page, n |-> c.n]
      data == [plan |-> c.plan, data |-> stamp, log |-> rows[c.id].log, route |-> <<>>]
  IN /\ c.kind = "update" /\ c.answer = 0 /\ rows[c.id] # Null
     /\ segments' = [segments EXCEPT ![c.id] = Overlay(@, c.route)]
     /\ \/ rows' = [rows EXCEPT ![c.id] = [data EXCEPT !.log = stamp]] /\ Answered(c, 200) /\ UNCHANGED mishaps
        \/ Mishap /\ rows' = [rows EXCEPT ![c.id] = data] /\ Answered(c, 503)
     /\ UNCHANGED <<pages, removed>>

UpdateMissing(c) ==
  /\ c.kind = "update" /\ c.answer = 0 /\ rows[c.id] = Null
  /\ Answered(c, 404)
  /\ UNCHANGED <<rows, segments, pages, removed, mishaps>>

\* The database cannot be reached.
Unavailable(c) ==
  /\ Mishap /\ c.answer = 0
  /\ Answered(c, 503)
  /\ UNCHANGED <<rows, segments, pages, removed>>

\* DELETE removes the row only.
Delete(i) ==
  /\ i \in Stored /\ Cardinality(removed) < Deletes
  /\ rows' = [rows EXCEPT ![i] = Null] /\ removed' = removed \cup {i}
  /\ UNCHANGED <<segments, pages, calls, mishaps>>

-----------------------------------------------------------------------------
(* The answers *)

Acknowledge(c) ==
  /\ c.answer = 200
  /\ pages' = [pages EXCEPT ![c.page] = [@ EXCEPT !.at = "editing", !.ready = TRUE, !.acked = c.n]]
  /\ calls' = calls \ {c}
  /\ UNCHANGED <<rows, segments, removed, mishaps>>

\* Seeded bug: any failed create is tried again under a fresh number.
RetriesAny(c) == c.kind = "create" /\ c.answer \in {409, 503} /\ c.attempt < 3
\* createChat: only an identity conflict of a guided create is, at most twice.
Retries(c) == c.kind = "create" /\ c.answer = 409 /\ c.attempt < 3

\* freshTripId: a number outside those this page knows of.
Renumber(c) ==
  /\ Retries(c)
  /\ \E i \in Ids \ (pages[c.page].known \cup {c.id}) :
       pages' = [pages EXCEPT ![c.page].id = i, ![c.page].known = @ \cup {c.id}]
  /\ calls' = (calls \ {c}) \cup {Request(c.page, "create", c.attempt + 1)}
  /\ UNCHANGED <<rows, segments, removed, mishaps>>

\* An update that finds no row creates it once, without renumbering.
Recreate(c) ==
  /\ c.answer = 404
  /\ UNCHANGED pages
  /\ calls' = (calls \ {c}) \cup {Request(c.page, "create", 3)}
  /\ UNCHANGED <<rows, segments, removed, mishaps>>

\* The save failed; the page keeps its work and offers a retry.
Fail(c) ==
  /\ c.answer \in {409, 503} /\ ~Retries(c)
  /\ pages' = [pages EXCEPT ![c.page].at = "editing"]
  /\ calls' = calls \ {c}
  /\ UNCHANGED <<rows, segments, removed, mishaps>>

\* The connection breaks or the page is left; an unserved request may have reached the server.
Lose(c) ==
  /\ Mishap /\ ~c.lost
  /\ \E at \in {"editing", "closed"} :
       pages' = [pages EXCEPT ![c.page].at = at, ![c.page].late = @ \/ c.answer = 0]
  /\ calls' = (calls \ {c}) \cup (IF c.answer = 0 THEN {[c EXCEPT !.lost = TRUE]} ELSE {})
  /\ UNCHANGED <<rows, segments, removed>>

Serve(c) == Create(c) \/ Update(c) \/ UpdateMissing(c) \/ Unavailable(c)
Receive(c) == Acknowledge(c) \/ Renumber(c) \/ Recreate(c) \/ Fail(c)

Next ==
  \/ \E p \in Pages : Plan(p) \/ Save(p)
  \/ \E p \in Viewers, i \in Ids : Open(p, i)
  \/ \E c \in calls : Serve(c) \/ (~c.lost /\ Receive(c)) \/ Lose(c)
  \/ \E i \in Ids : Delete(i)

Spec == Init /\ [][Next]_vars

-----------------------------------------------------------------------------
(* Properties *)

\* Types of the rows, pages and requests.
TypeOK ==
  /\ rows \in [Ids -> Row \cup {Null}]
  /\ segments \in [Ids -> Seq(Planners)]
  /\ pages \in [Pages -> Page] /\ calls \subseteq Call
  /\ removed \subseteq Ids /\ mishaps \in Nat

\* Identity conflicts, renumbering, lost answers, retries and late requests never store one planned
\* trip twice (unless its first number was deleted under it).
OneTripPerPlan ==
  \A i, j \in Stored \ removed : rows[i].plan = rows[j].plan => i = j

\* Two tabs that number their trips alike: a stored trip is never replaced by another one, by no create
\* (which the upsert checks) and no update (which it does not), as long as its number was not deleted.
TripKept ==
  [][\A i \in Stored \ removed' : rows'[i] # Null /\ rows'[i].plan = rows[i].plan]_rows

\* An acknowledged save is in both halves of its row or was overwritten by another page or a newer save
\* of this one, unless a save this page gave up was still on its way.
SavesKept ==
  \A p \in Pages : pages[p].acked # 0 /\ ~pages[p].late /\ pages[p].id \notin removed =>
    /\ pages[p].id \in Stored
    /\ \A half \in {rows[pages[p].id].data, rows[pages[p].id].log} : half.by = p => half.n >= pages[p].acked

\* What a page loads is the route that was planned, under a number that was never deleted.
RouteReadsBack ==
  \A i \in Stored \ removed : ReadBack(i) = RouteOf(rows[i].plan)
=============================================================================
