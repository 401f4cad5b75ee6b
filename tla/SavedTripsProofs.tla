---------------------------- MODULE SavedTripsProofs ----------------------------
(***************************************************************************)
(* Proofs about SavedTrips, for any pages, trip numbers and bounds.        *)
(***************************************************************************)
EXTENDS SavedTrips, SequenceTheorems, TLAPS

\* Trip number i is stored for plan p, or for another one; a deleted number counts as either.
Holds(i, p) == i \in removed \/ (rows[i] # Null /\ rows[i].plan = p)
Refuses(i, p) == i \in removed \/ (rows[i] # Null /\ rows[i].plan # p)

\* Both halves of a row that page p wrote last are at least its save n.
Kept(i, p, n) ==
  /\ rows[i].data.by = p => rows[i].data.n >= n
  /\ rows[i].log.by = p => rows[i].log.n >= n

\* A page that shows a trip has its number; once it is ready the number is the trip's.
PageInv(p) ==
  /\ pages[p].acked <= pages[p].saves
  /\ pages[p].acked # 0 => pages[p].ready
  /\ pages[p].at = "loading" => pages[p].id = 0 /\ ~pages[p].ready /\ pages[p].acked = 0
  /\ pages[p].at # "loading" =>
       /\ pages[p].id \in Ids /\ pages[p].plan \in Planners
       /\ IF p \in Planners THEN pages[p].plan = p ELSE pages[p].ready
       /\ pages[p].route = RouteOf(pages[p].plan) \/ (p \in Viewers /\ pages[p].id \in removed)
  /\ pages[p].ready => Holds(pages[p].id, pages[p].plan)

\* A page waits for one call; a create can only reach the page's number, one that was deleted, or a
\* number that another plan has for good; an update reaches a number its plan has for good.
CallInv(c) ==
  /\ pages[c.page].at # "loading" /\ c.plan = pages[c.page].plan
  /\ c.route = RouteOf(c.plan) \/ c.id \in removed
  /\ IF c.lost THEN pages[c.page].late /\ c.answer = 0
     ELSE pages[c.page].at = "saving" /\ c.id = pages[c.page].id /\ c.n = pages[c.page].saves
  /\ c.kind = "create" =>
       /\ c.id = pages[c.page].id \/ Refuses(c.id, c.plan)
       /\ c.page \in Viewers => c.id \in removed
       /\ ~c.lost /\ c.attempt < 3 => ~pages[c.page].ready
  /\ c.kind = "update" => Holds(c.id, c.plan)
  /\ c.answer = 200 => Holds(c.id, c.plan)
  /\ c.answer = 404 => c.id \in removed
  /\ c.answer = 409 => c.kind = "create" /\ Refuses(c.id, c.plan)

OneCall == \A c, d \in calls : ~c.lost /\ ~d.lost /\ c.page = d.page => c = d

\* A stored trip has the number its setup page has, and the route of its plan.
RowInv(i) ==
  i \notin removed =>
    IF rows[i] = Null THEN segments[i] = <<>>
    ELSE LET route == RouteOf(rows[i].plan)
         IN /\ pages[rows[i].plan].id = i
            /\ \/ rows[i].route = route /\ segments[i] \in {<<>>, route}
               \/ rows[i].route = <<>> /\ segments[i] = route

IInv ==
  /\ TypeOK /\ OneCall
  /\ \A p \in Pages : PageInv(p)
  /\ \A c \in calls : CallInv(c)
  /\ \A i \in Ids : RowInv(i)

\* What was acknowledged to page p, or is about to be.
SaveInv ==
  /\ \A p \in Pages : pages[p].acked # 0 /\ ~pages[p].late /\ pages[p].id \notin removed =>
       Kept(pages[p].id, p, pages[p].acked)
  /\ \A c \in calls : c.answer = 200 /\ ~pages[c.page].late /\ c.id \notin removed => Kept(c.id, c.page, c.n)

-----------------------------------------------------------------------------
(* The operators *)

\* A row is not Null.
LEMMA RowsAreNotNull == \A r \in Row : r # Null
  BY NullAssumption

\* The stored route of a plan is a sequence of its chunks, and not empty.
LEMMA RouteType ==
  ASSUME NEW p \in Planners
  PROVE  RouteOf(p) \in Seq(Planners) /\ RouteOf(p) # <<>>
<1>1. CASE p \in Long
  <2>1. RouteOf(p) = <<p, p>>
    BY <1>1 DEF RouteOf
  <2> QED BY <2>1
<1>2. CASE p \notin Long
  <2>1. RouteOf(p) = <<p>>
    BY <1>2 DEF RouteOf
  <2> QED BY <2>1
<1> QED BY <1>1, <1>2

\* An overlay is a sequence of chunks.
LEMMA OverlayType ==
  ASSUME NEW old \in Seq(Planners), NEW new \in Seq(Planners)
  PROVE  Overlay(old, new) \in Seq(Planners)
<1>1. Len(new) \in Nat /\ Len(old) \in Nat
  OBVIOUS
<1>2. SubSeq(old, Len(new) + 1, Len(old)) \in Seq(Planners)
  BY <1>1, SubSeqProperties
<1> QED BY <1>2, ConcatProperties DEF Overlay

\* Over nothing, or over itself, a route is stored as it is.
LEMMA OverlaySame ==
  ASSUME NEW new \in Seq(Planners), NEW old \in {<<>>, new}
  PROVE  Overlay(old, new) = new
<1>1. Len(new) \in Nat /\ old \in Seq(Planners) /\ Len(old) \in Nat /\ Len(old) <= Len(new)
  <2>1. CASE old = <<>>
    BY <2>1, EmptySeq, LenProperties
  <2>2. CASE old = new
    BY <2>2, LenProperties
  <2> QED BY <2>1, <2>2
<1>2. SubSeq(old, Len(new) + 1, Len(old)) = <<>>
  BY <1>1, SubSeqEmpty
<1> QED BY <1>2, ConcatEmptySeq DEF Overlay

\* Whichever call a page sends is a call.
LEMMA RequestType ==
  ASSUME TypeOK', NEW p \in Pages, NEW kind \in {"create", "update"}, NEW attempt \in 1..3,
         pages'[p].id \in Ids, pages'[p].plan \in Planners, pages'[p].saves \in 1..Saves
  PROVE  Request(p, kind, attempt) \in Call
  BY DEF Request, Call, TypeOK, Page

-----------------------------------------------------------------------------
(* Types *)

LEMMA InitType == Init => TypeOK
<1> SUFFICES ASSUME Init PROVE TypeOK
  OBVIOUS
<1>1. pages \in [Pages -> Page]
  BY TripsAssumption DEF Init, Page
<1>2. <<>> \in Seq(Planners)
  BY EmptySeq
<1> QED BY <1>1, <1>2 DEF Init, TypeOK

\* A page whose number is one has a plan, too, and what it may send is a call.
LEMMA PagesOfCalls ==
  ASSUME IInv, NEW c \in calls
  PROVE  /\ c \in Call /\ c.page \in Pages /\ c.id \in Ids
         /\ pages[c.page] \in Page /\ pages[c.page].id \in Ids /\ pages[c.page].plan \in Planners
         /\ pages[c.page].at # "loading"
<1>1. c \in Call /\ pages \in [Pages -> Page] /\ CallInv(c)
  BY DEF IInv, TypeOK
<1>2. c.page \in Pages /\ c.id \in Ids
  BY <1>1 DEF Call
<1>3. PageInv(c.page)
  BY <1>2 DEF IInv
<1> QED BY <1>1, <1>2, <1>3 DEF CallInv, PageInv

\* An answer keeps a call a call.
LEMMA AnsweredType ==
  ASSUME TypeOK, NEW c \in calls, NEW status \in {200, 404, 409, 503}, Answered(c, status)
  PROVE  calls' \subseteq Call
<1>1. c \in Call
  BY DEF TypeOK
<1>2. [c EXCEPT !.answer = status] \in Call
  BY <1>1 DEF Call
<1> QED BY <1>2 DEF TypeOK, Answered

LEMMA TypeStep == IInv /\ [Next]_vars => TypeOK'
<1> SUFFICES ASSUME IInv, [Next]_vars PROVE TypeOK'
  OBVIOUS
<1>0. TypeOK
  BY DEF IInv
<1>1. ASSUME NEW p \in Pages, Plan(p) PROVE TypeOK'
  <2>1. PICK i \in Ids :
          pages' = [pages EXCEPT ![p] = [@ EXCEPT !.at = "editing", !.plan = p, !.id = i,
                                                  !.known = Stored, !.route = RouteOf(p)]]
    BY <1>1 DEF Plan
  <2>2. Stored \subseteq Ids /\ RouteOf(p) \in Seq(Planners) /\ p \in Planners
    BY <1>1, RouteType DEF Plan, Stored
  <2> DEFINE new == [pages[p] EXCEPT !.at = "editing", !.plan = p, !.id = i, !.known = Stored, !.route = RouteOf(p)]
  <2>3. pages[p] \in Page /\ i \in 0..LastId
    BY <1>0 DEF TypeOK, Ids
  <2>4. new \in Page
    BY <2>2, <2>3 DEF Page
  <2>5. pages' = [pages EXCEPT ![p] = new]
    BY <2>1
  <2>6. pages' \in [Pages -> Page]
    <3> HIDE DEF new
    <3> QED BY <2>4, <2>5, <1>0 DEF TypeOK
  <2> QED BY <2>6, <1>0, <1>1 DEF Plan, TypeOK
<1>2. ASSUME NEW p \in Pages, Save(p) PROVE TypeOK'
  <2>1. PageInv(p) /\ pages[p] \in Page /\ pages[p].at = "editing"
    BY <1>0, <1>2 DEF IInv, TypeOK, Save
  <2>2. pages[p].saves + 1 \in 1..Saves
    BY <2>1, <1>2, TripsAssumption DEF Save, Page
  <2>3. pages' \in [Pages -> Page]
    <3> DEFINE new == [pages[p] EXCEPT !.at = "saving", !.saves = @ + 1]
    <3>0. pages[p].saves + 1 \in 0..Saves
      BY <2>2
    <3>1. new \in Page
      BY <2>1, <3>0 DEF Page
    <3>2. pages' = [pages EXCEPT ![p] = new]
      BY <1>0, <1>2 DEF Save, TypeOK
    <3> HIDE DEF new
    <3> QED BY <3>1, <3>2, <1>0 DEF TypeOK
  <2>4. Request(p, IF pages[p].ready THEN "update" ELSE "create", 1) \in Call
    BY <2>1, <2>2, <2>3, <1>0, <1>2 DEF Request, Call, TypeOK, Page, PageInv, Save
  <2> QED BY <2>3, <2>4, <1>0, <1>2 DEF Save, TypeOK
<1>3. ASSUME NEW p \in Viewers, NEW i \in Ids, Open(p, i) PROVE TypeOK'
  <2>1. rows[i] \in Row /\ segments[i] \in Seq(Planners) /\ Stored \subseteq Ids /\ p \in Pages
    BY <1>0, <1>3 DEF Open, Stored, TypeOK, Pages
  <2>2. ReadBack(i) \in Seq(Planners) /\ rows[i].plan \in Planners
    BY <2>1 DEF ReadBack, Row
  <2>3. pages' \in [Pages -> Page]
    <3> DEFINE new == [pages[p] EXCEPT !.at = "editing", !.plan = rows[i].plan, !.id = i, !.known = Stored,
                                       !.route = ReadBack(i), !.ready = TRUE]
    <3>1. pages[p] \in Page /\ i \in 0..LastId
      BY <2>1, <1>0 DEF TypeOK, Ids
    <3>2. new \in Page
      BY <2>1, <2>2, <3>1 DEF Page
    <3>3. pages' = [pages EXCEPT ![p] = new]
      BY <1>3 DEF Open
    <3> HIDE DEF new
    <3> QED BY <3>2, <3>3, <1>0 DEF TypeOK
  <2> QED BY <2>3, <1>0, <1>3 DEF Open, TypeOK
<1>4. ASSUME NEW c \in calls, Create(c) PROVE TypeOK'
  <2>1. c \in Call
    BY <1>0 DEF TypeOK
  <2>2. [plan |-> c.plan, data |-> [by |-> c.page, n |-> c.n], log |-> [by |-> c.page, n |-> c.n],
         route |-> c.route] \in Row
    BY <2>1 DEF Call, Row, Stamp
  <2>3. rows' \in [Ids -> Row \cup {Null}]
    BY <2>2, <2>1, <1>0, <1>4 DEF Create, TypeOK
  <2>4. calls' \subseteq Call
    BY <1>0, <1>4, AnsweredType DEF Create
  <2> QED BY <2>3, <2>4, <1>0, <1>4 DEF Create, TypeOK
<1>5. ASSUME NEW c \in calls, Update(c) PROVE TypeOK'
  <2>1. c \in Call /\ rows[c.id] \in Row
    BY <1>0, <1>5 DEF TypeOK, Update, Call
  <2>2. Overlay(segments[c.id], c.route) \in Seq(Planners)
    BY <2>1, <1>0, OverlayType DEF TypeOK, Call
  <2>3. segments' \in [Ids -> Seq(Planners)]
    BY <2>2, <1>0, <1>5 DEF Update, TypeOK
  <2> DEFINE stamp == [by |-> c.page, n |-> c.n]
  <2>4. stamp \in Stamp /\ rows[c.id].log \in Stamp
    BY <2>1 DEF Call, Stamp, Row
  <2>5. \A log \in Stamp : [plan |-> c.plan, data |-> stamp, log |-> log, route |-> <<>>] \in Row
    <3> HIDE DEF stamp
    <3> QED BY <2>1, <2>4 DEF Call, Row
  <2>6. rows' \in [Ids -> Row \cup {Null}]
    BY <2>4, <2>5, <1>0, <1>5, ZenonT(60) DEF Update, TypeOK
  <2>7. calls' \subseteq Call /\ mishaps' \in Nat
    BY <1>0, <1>5, AnsweredType DEF Update, Mishap, TypeOK
  <2> QED BY <2>3, <2>6, <2>7, <1>0, <1>5 DEF Update, TypeOK
<1>6. ASSUME NEW c \in calls, UpdateMissing(c) PROVE TypeOK'
  BY <1>0, <1>6, AnsweredType DEF UpdateMissing, TypeOK
<1>7. ASSUME NEW c \in calls, Unavailable(c) PROVE TypeOK'
  BY <1>0, <1>7, AnsweredType DEF Unavailable, Mishap, TypeOK
<1>8. ASSUME NEW c \in calls, Acknowledge(c) PROVE TypeOK'
  <2>1. c \in Call /\ c.page \in Pages
    BY <1>0 DEF TypeOK, Call
  <2>2. pages' \in [Pages -> Page]
    <3> DEFINE new == [pages[c.page] EXCEPT !.at = "editing", !.ready = TRUE, !.acked = c.n]
    <3>1. pages[c.page] \in Page /\ c.n \in 0..Saves
      BY <2>1, <1>0, TripsAssumption DEF TypeOK, Call
    <3>2. new \in Page
      BY <3>1 DEF Page
    <3>3. pages' = [pages EXCEPT ![c.page] = new]
      BY <1>8 DEF Acknowledge
    <3> HIDE DEF new
    <3> QED BY <2>1, <3>2, <3>3, <1>0 DEF TypeOK
  <2> QED BY <2>2, <1>0, <1>8 DEF Acknowledge, TypeOK
<1>9. ASSUME NEW c \in calls, Renumber(c) PROVE TypeOK'
  <2>1. c \in Call /\ c.page \in Pages /\ c.id \in Ids /\ pages[c.page] \in Page /\ pages[c.page].plan \in Planners
    BY PagesOfCalls
  <2>2. PICK i \in Ids : pages' = [pages EXCEPT ![c.page].id = i, ![c.page].known = @ \cup {c.id}]
    BY <1>9 DEF Renumber
  <2>3. pages' \in [Pages -> Page]
    <3> DEFINE new == [pages[c.page] EXCEPT !.id = i, !.known = @ \cup {c.id}]
    <3>0. i \in 0..LastId /\ pages[c.page].known \cup {c.id} \in SUBSET Ids
      BY <2>1 DEF Page, Ids
    <3>1. new \in Page
      BY <2>1, <3>0 DEF Page
    <3>2. pages' = [pages EXCEPT ![c.page] = new]
      BY <2>1, <2>2, <1>0 DEF TypeOK
    <3> HIDE DEF new
    <3> QED BY <2>1, <3>1, <3>2, <1>0 DEF TypeOK
  <2>4. pages'[c.page].id = i /\ pages'[c.page].plan = pages[c.page].plan /\ pages'[c.page].saves = pages[c.page].saves
    BY <2>1, <2>2, <1>0 DEF TypeOK, Page
  <2>5. pages[c.page].saves \in 1..Saves /\ c.attempt + 1 \in 1..3
    <3>1. CallInv(c) /\ ~c.lost
      BY <1>9 DEF IInv, CallInv, Renumber, Retries
    <3> QED BY <3>1, <2>1, <1>9 DEF CallInv, Call, Renumber, Retries
  <2>6. Request(c.page, "create", c.attempt + 1) \in Call
    BY <2>1, <2>3, <2>4, <2>5 DEF Request, Call, Page
  <2> QED BY <2>3, <2>6, <1>0, <1>9 DEF Renumber, TypeOK
<1>10. ASSUME NEW c \in calls, Recreate(c) PROVE TypeOK'
  <2>1. c \in Call /\ c.page \in Pages /\ pages[c.page] \in Page /\ pages[c.page].plan \in Planners
        /\ pages[c.page].id \in Ids
    BY PagesOfCalls
  <2>2. pages[c.page].saves \in 1..Saves
    <3>1. CallInv(c) /\ ~c.lost
      BY <1>10 DEF IInv, CallInv, Recreate
    <3> QED BY <3>1, <2>1 DEF CallInv, Call
  <2>3. Request(c.page, "create", 3) \in Call
    BY <2>1, <2>2, <1>10 DEF Request, Call, Page, Recreate
  <2> QED BY <2>3, <1>0, <1>10 DEF Recreate, TypeOK
<1>11. ASSUME NEW c \in calls, Fail(c) PROVE TypeOK'
  <2>1. c.page \in Pages
    BY <1>0 DEF TypeOK, Call
  <2>2. [pages[c.page] EXCEPT !.at = "editing"] \in Page
    BY <2>1, <1>0, ZenonT(60) DEF TypeOK, Page
  <2>3. pages' \in [Pages -> Page]
    BY <2>1, <2>2, <1>0, <1>11 DEF Fail, TypeOK
  <2> QED BY <2>3, <1>0, <1>11 DEF Fail, TypeOK
<1>12. ASSUME NEW c \in calls, Lose(c) PROVE TypeOK'
  <2>1. c \in Call /\ c.page \in Pages
    BY <1>0 DEF TypeOK, Call
  <2>2. [c EXCEPT !.lost = TRUE] \in Call
    <3>1. PICK lost \in BOOLEAN : lost = TRUE
      OBVIOUS
    <3>3. [c EXCEPT !.lost = lost] \in Call
      BY <2>1 DEF Call
    <3> QED BY <3>1, <3>3
  <2>3. PICK at \in {"editing", "closed"} :
          pages' = [pages EXCEPT ![c.page].at = at, ![c.page].late = @ \/ c.answer = 0]
    BY <1>12 DEF Lose
  <2>4. [pages[c.page] EXCEPT !.at = at, !.late = @ \/ c.answer = 0] \in Page
    <3>1. pages[c.page] \in Page
      BY <2>1, <1>0 DEF TypeOK
    <3>2. PICK late \in BOOLEAN : late = (pages[c.page].late \/ c.answer = 0)
      OBVIOUS
    <3>3. [pages[c.page] EXCEPT !.at = at, !.late = late] \in Page
      BY <3>1 DEF Page
    <3> QED BY <3>2, <3>3
  <2> DEFINE new == [pages[c.page] EXCEPT !.at = at, !.late = @ \/ c.answer = 0]
  <2>5. pages' \in [Pages -> Page]
    <3>1. pages' = [pages EXCEPT ![c.page] = new]
      BY <2>1, <2>3, <1>0 DEF TypeOK
    <3>2. new \in Page
      BY <2>4
    <3> HIDE DEF new
    <3> QED BY <2>1, <3>1, <3>2, <1>0 DEF TypeOK
  <2>6. calls' \subseteq Call
    <3>1. calls' \subseteq calls \cup {[c EXCEPT !.lost = TRUE]}
      BY <1>12 DEF Lose
    <3> QED BY <2>2, <3>1, <1>0 DEF TypeOK
  <2>7. mishaps' \in Nat
    BY <1>0, <1>12 DEF Lose, Mishap, TypeOK
  <2> QED BY <2>5, <2>6, <2>7, <1>0, <1>12 DEF Lose, TypeOK
<1>13. ASSUME NEW i \in Ids, Delete(i) PROVE TypeOK'
  BY <1>0, <1>13 DEF Delete, TypeOK
<1>14. ASSUME UNCHANGED vars PROVE TypeOK'
  BY <1>0, <1>14 DEF vars, TypeOK
<1> QED BY <1>1, <1>2, <1>3, <1>4, <1>5, <1>6, <1>7, <1>8, <1>9, <1>10, <1>11, <1>12, <1>13, <1>14
        DEF Next, Serve, Receive

-----------------------------------------------------------------------------
(* What no step changes *)

\* A row whose number is not deleted keeps its plan; a deleted number stays deleted.
LEMMA RowsKeepPlans ==
  ASSUME IInv, [Next]_vars
  PROVE  /\ removed \subseteq removed'
         /\ \A i \in Ids : i \notin removed' /\ rows[i] # Null => rows'[i] # Null /\ rows'[i].plan = rows[i].plan
<1> DEFINE Goal == /\ removed \subseteq removed'
                   /\ \A i \in Ids : i \notin removed' /\ rows[i] # Null =>
                        rows'[i] # Null /\ rows'[i].plan = rows[i].plan
<1>1. ASSUME NEW c \in calls, Create(c) PROVE Goal
  <2>1. c \in Call /\ rows \in [Ids -> Row \cup {Null}]
    BY DEF IInv, TypeOK
  <2> DEFINE new == [plan |-> c.plan, data |-> [by |-> c.page, n |-> c.n],
                     log |-> [by |-> c.page, n |-> c.n], route |-> c.route]
  <2>2. new \in Row /\ new # Null /\ new.plan = c.plan
    BY <2>1, RowsAreNotNull DEF Call, Row, Stamp
  <2>3. \/ rows' = rows
        \/ SameRequest(c) /\ rows' = [rows EXCEPT ![c.id] = new]
    BY <1>1 DEF Create
  <2> HIDE DEF new
  <2> QED BY <2>1, <2>2, <2>3, <1>1 DEF Create, SameRequest
<1>2. ASSUME NEW c \in calls, Update(c) PROVE Goal
  <2>1. c \in Call /\ rows \in [Ids -> Row \cup {Null}] /\ CallInv(c)
    BY DEF IInv, TypeOK
  <2>2. c.kind = "update" /\ Holds(c.id, c.plan) /\ rows[c.id] # Null /\ removed' = removed
    BY <2>1, <1>2 DEF CallInv, Update
  <2>3. PICK log \in Stamp :
          rows' = [rows EXCEPT ![c.id] = [plan |-> c.plan, data |-> [by |-> c.page, n |-> c.n],
                                          log |-> log, route |-> <<>>]]
    <3>1. rows[c.id].log \in Stamp /\ [by |-> c.page, n |-> c.n] \in Stamp
      BY <2>1, <2>2 DEF Call, Row, Stamp
    <3> QED BY <3>1, <1>2 DEF Update
  <2> DEFINE new == [plan |-> c.plan, data |-> [by |-> c.page, n |-> c.n], log |-> log, route |-> <<>>]
  <2>4. new \in Row /\ new # Null /\ new.plan = c.plan
    BY <2>1, EmptySeq, RowsAreNotNull, ZenonT(60) DEF Call, Row, Stamp
  <2>5. rows' = [rows EXCEPT ![c.id] = new]
    BY <2>3
  <2> HIDE DEF new
  <2> QED BY <2>1, <2>2, <2>4, <2>5 DEF Holds
<1>3. ASSUME NEW i \in Ids, Delete(i) PROVE Goal
  BY <1>3 DEF Delete, IInv, TypeOK
<1>4. ASSUME UNCHANGED <<rows, removed>> PROVE Goal
  BY <1>4
<1> QED
  BY <1>1, <1>2, <1>3, <1>4
     DEF Next, vars, Plan, Save, Open, Serve, Receive, UpdateMissing, Unavailable, Acknowledge, Renumber,
         Recreate, Fail, Lose

\* So what is known about a number stays true.
LEMMA Stable ==
  ASSUME IInv, [Next]_vars, NEW i \in Ids, NEW p
  PROVE  /\ Holds(i, p) => Holds(i, p)'
         /\ Refuses(i, p) => Refuses(i, p)'
         /\ i \in removed => i \in removed'
  BY RowsKeepPlans DEF Holds, Refuses

LEMMA PageSame ==
  ASSUME IInv, [Next]_vars, NEW p \in Pages, pages'[p] = pages[p]
  PROVE  PageInv(p)'
<1>1. PageInv(p) /\ pages[p] \in Page
  BY DEF IInv, TypeOK
<1>2. CASE pages[p].at = "loading"
  BY <1>1, <1>2 DEF PageInv, Page
<1>3. CASE pages[p].at # "loading"
  <2>1. PICK i \in Ids, q \in Planners : i = pages[p].id /\ q = pages[p].plan
    BY <1>1, <1>3 DEF PageInv
  <2>2. (Holds(i, q) => Holds(i, q)') /\ (i \in removed => i \in removed')
    BY Stable
  <2>3. pages[p].ready => Holds(pages[p].id, pages[p].plan)'
    BY <1>1, <2>1, <2>2 DEF PageInv, Holds
  <2>4. pages[p].route = RouteOf(pages[p].plan) \/ (p \in Viewers /\ pages[p].id \in removed')
    BY <1>1, <1>3, <2>1, <2>2 DEF PageInv
  <2> QED BY <1>1, <1>3, <2>3, <2>4 DEF PageInv, Holds
<1> QED BY <1>2, <1>3

LEMMA CallSame ==
  ASSUME IInv, [Next]_vars, NEW c \in calls, pages'[c.page] = pages[c.page]
  PROVE  CallInv(c)'
<1>1. CallInv(c) /\ c.id \in Ids
  BY PagesOfCalls DEF IInv
<1>2. /\ Holds(c.id, c.plan) => Holds(c.id, c.plan)'
      /\ Refuses(c.id, c.plan) => Refuses(c.id, c.plan)'
      /\ c.id \in removed => c.id \in removed'
  BY <1>1, Stable
<1> QED BY <1>1, <1>2 DEF CallInv

-----------------------------------------------------------------------------
(* Pages *)

\* What a page p is after a step, when the step changes no other page.
LEMMA PagesStep ==
  ASSUME IInv, [Next]_vars
  PROVE  \A q \in Pages : PageInv(q)'
<1>0. TypeOK /\ pages \in [Pages -> Page] /\ \A q \in Pages : PageInv(q)
  BY DEF IInv, TypeOK
<1>1. ASSUME NEW p \in Pages, Plan(p) PROVE PageInv(p)' /\ \A q \in Pages \ {p} : pages'[q] = pages[q]
  <2>1. PICK i \in Ids :
          pages' = [pages EXCEPT ![p] = [@ EXCEPT !.at = "editing", !.plan = p, !.id = i,
                                                  !.known = Stored, !.route = RouteOf(p)]]
    BY <1>1 DEF Plan
  <2>2. p \in Planners /\ pages[p].at = "loading" /\ PageInv(p) /\ pages[p] \in Page
    BY <1>0, <1>1 DEF Plan
  <2>3. /\ pages'[p].at = "editing" /\ pages'[p].plan = p /\ pages'[p].id = i /\ pages'[p].route = RouteOf(p)
        /\ pages'[p].ready = pages[p].ready /\ pages'[p].acked = pages[p].acked /\ pages'[p].saves = pages[p].saves
    BY <1>0, <2>1, <2>2 DEF Page
  <2>4. PageInv(p)'
    BY <2>2, <2>3, RouteType DEF PageInv
  <2> QED BY <1>0, <2>1, <2>4
<1>2. ASSUME NEW p \in Pages, Save(p) PROVE PageInv(p)' /\ \A q \in Pages \ {p} : pages'[q] = pages[q]
  <2>1. PageInv(p) /\ pages[p] \in Page /\ pages[p].at = "editing" /\ removed' = removed /\ rows' = rows
    BY <1>0, <1>2 DEF Save
  <2>2. /\ pages'[p].at = "saving" /\ pages'[p].saves = pages[p].saves + 1
        /\ pages'[p].plan = pages[p].plan /\ pages'[p].id = pages[p].id /\ pages'[p].route = pages[p].route
        /\ pages'[p].ready = pages[p].ready /\ pages'[p].acked = pages[p].acked
    BY <1>0, <1>2, <2>1 DEF Save, Page
  <2>3. PageInv(p)'
    BY <2>1, <2>2 DEF PageInv, Page, Holds
  <2> QED BY <1>0, <1>2, <2>3 DEF Save
<1>3. ASSUME NEW p \in Viewers, NEW i \in Ids, Open(p, i)
      PROVE  PageInv(p)' /\ \A q \in Pages \ {p} : pages'[q] = pages[q]
  <2>1. /\ p \in Pages /\ p \notin Planners /\ PageInv(p) /\ pages[p] \in Page /\ RowInv(i)
        /\ rows[i] # Null /\ rows[i] \in Row /\ rows' = rows /\ removed' = removed
    BY <1>0, <1>3, TripsAssumption DEF Open, Stored, Pages, IInv, TypeOK
  <2>2. /\ pages'[p].at = "editing" /\ pages'[p].plan = rows[i].plan /\ pages'[p].id = i
        /\ pages'[p].route = ReadBack(i) /\ pages'[p].ready /\ pages'[p].acked = pages[p].acked
        /\ pages'[p].saves = pages[p].saves
    BY <1>0, <1>3, <2>1 DEF Open, Page
  <2>3. rows[i].plan \in Planners
    BY <2>1 DEF Row
  <2>4. ReadBack(i) = RouteOf(rows[i].plan) \/ i \in removed
    BY <2>1, <2>3, RouteType DEF RowInv, ReadBack
  <2>5. PageInv(p)'
    BY <2>1, <2>2, <2>3, <2>4 DEF PageInv, Holds
  <2> QED BY <1>0, <1>3, <2>5 DEF Open
<1>4. ASSUME NEW c \in calls, Acknowledge(c)
      PROVE  PageInv(c.page)' /\ \A q \in Pages \ {c.page} : pages'[q] = pages[q]
  <2>1. /\ c \in Call /\ c.page \in Pages /\ pages[c.page] \in Page /\ CallInv(c) /\ PageInv(c.page)
        /\ rows' = rows /\ removed' = removed /\ c.answer = 200
    BY <1>0, <1>4, PagesOfCalls DEF Acknowledge, IInv
  <2>2. ~c.lost /\ c.id = pages[c.page].id /\ c.n = pages[c.page].saves /\ Holds(c.id, c.plan)
        /\ c.plan = pages[c.page].plan /\ pages[c.page].at = "saving" /\ c.n \in 1..Saves
    BY <2>1 DEF CallInv, Call
  <2>3. /\ pages'[c.page].at = "editing" /\ pages'[c.page].ready /\ pages'[c.page].acked = c.n
        /\ pages'[c.page].plan = pages[c.page].plan /\ pages'[c.page].id = pages[c.page].id
        /\ pages'[c.page].route = pages[c.page].route /\ pages'[c.page].saves = pages[c.page].saves
    BY <1>0, <1>4, <2>1 DEF Acknowledge, Page
  <2>4. PageInv(c.page)'
    BY <2>1, <2>2, <2>3 DEF PageInv, Holds
  <2> QED BY <1>0, <1>4, <2>4 DEF Acknowledge
<1>5. ASSUME NEW c \in calls, ~c.lost, Renumber(c)
      PROVE  PageInv(c.page)' /\ \A q \in Pages \ {c.page} : pages'[q] = pages[q]
  <2>1. /\ c \in Call /\ c.page \in Pages /\ pages[c.page] \in Page /\ CallInv(c) /\ PageInv(c.page)
        /\ rows' = rows /\ removed' = removed /\ c.kind = "create" /\ c.attempt < 3
    BY <1>0, <1>5, PagesOfCalls DEF Renumber, Retries, IInv
  <2>2. ~pages[c.page].ready /\ pages[c.page].at = "saving"
    BY <2>1, <1>5 DEF CallInv
  <2>3. PICK i \in Ids : pages' = [pages EXCEPT ![c.page].id = i, ![c.page].known = @ \cup {c.id}]
    BY <1>5 DEF Renumber
  <2>4. /\ pages'[c.page].at = "saving" /\ ~pages'[c.page].ready /\ pages'[c.page].id = i
        /\ pages'[c.page].plan = pages[c.page].plan /\ pages'[c.page].acked = pages[c.page].acked
        /\ pages'[c.page].route = pages[c.page].route /\ pages'[c.page].saves = pages[c.page].saves
    BY <1>0, <2>1, <2>2, <2>3 DEF Page
  <2>5. PageInv(c.page)'
    <3>1. c.page \in Planners /\ c.page \notin Viewers
      BY <2>1, <2>2, TripsAssumption DEF PageInv
    <3> QED BY <2>1, <2>2, <2>4, <3>1 DEF PageInv
  <2> QED BY <1>0, <2>3, <2>5
<1>6. ASSUME NEW c \in calls, ~c.lost, Fail(c) \/ Lose(c)
      PROVE  PageInv(c.page)' /\ \A q \in Pages \ {c.page} : pages'[q] = pages[q]
  <2>1. /\ c.page \in Pages /\ pages[c.page] \in Page /\ PageInv(c.page) /\ rows' = rows /\ removed' = removed
        /\ pages[c.page].at = "saving"
    BY <1>0, <1>6, PagesOfCalls DEF Fail, Lose, IInv, CallInv
  <2>2. /\ pages'[c.page].at \in {"editing", "closed"} /\ pages'[c.page].ready = pages[c.page].ready
        /\ pages'[c.page].acked = pages[c.page].acked
        /\ pages'[c.page].plan = pages[c.page].plan /\ pages'[c.page].id = pages[c.page].id
        /\ pages'[c.page].route = pages[c.page].route /\ pages'[c.page].saves = pages[c.page].saves
    BY <1>0, <1>6, <2>1 DEF Fail, Lose, Page
  <2>3. PageInv(c.page)'
    BY <2>1, <2>2 DEF PageInv, Holds
  <2> QED BY <1>0, <1>6, <2>3 DEF Fail, Lose
<1>7. ASSUME UNCHANGED pages PROVE \A q \in Pages : PageInv(q)'
  BY <1>7, PageSame
<1>8. \A p \in Pages : PageInv(p)' /\ (\A q \in Pages \ {p} : pages'[q] = pages[q]) => \A q \in Pages : PageInv(q)'
  BY PageSame
<1>9. \A c \in calls : c.page \in Pages
  BY PagesOfCalls
<1>10. \A c \in calls : (Acknowledge(c) \/ Renumber(c) \/ Fail(c) \/ Lose(c)) => ~c.lost
  BY DEF IInv, CallInv, Acknowledge, Renumber, Retries, Fail, Lose
<1> QED
  BY <1>1, <1>2, <1>3, <1>4, <1>5, <1>6, <1>7, <1>8, <1>9, <1>10
     DEF Next, vars, Serve, Receive, Create, Update, UpdateMissing, Unavailable, Recreate, Delete, Pages

-----------------------------------------------------------------------------
(* Calls *)

\* An answer other than the acknowledged one keeps the facts about a call that it states.
LEMMA AnsweredInv ==
  ASSUME IInv, [Next]_vars, NEW c \in calls, pages' = pages, NEW status \in {200, 404, 409, 503},
         Answered(c, status),
         status = 200 => Holds(c.id, c.plan)',
         status = 404 => c.id \in removed',
         status = 409 => c.kind = "create" /\ Refuses(c.id, c.plan)'
  PROVE  (\A d \in calls' : CallInv(d)') /\ OneCall'
<1> DEFINE e == [c EXCEPT !.answer = status]
<1>1. c \in Call /\ calls' \subseteq calls \cup {e} /\ (c.lost => calls' \subseteq calls) /\ c \notin calls' \ {e}
  BY DEF Answered, IInv, TypeOK
<1>2. /\ e.page = c.page /\ e.kind = c.kind /\ e.attempt = c.attempt /\ e.id = c.id /\ e.plan = c.plan
      /\ e.route = c.route /\ e.n = c.n /\ e.lost = c.lost /\ e.answer = status
  BY <1>1 DEF Call
<1> HIDE DEF e
<1>3. \A d \in calls : CallInv(d)'
  BY CallSame
<1>4. ~c.lost => CallInv(e)'
  BY <1>2, <1>3 DEF CallInv
<1>5. \A d \in calls' : CallInv(d)'
  BY <1>1, <1>3, <1>4
<1>6. OneCall'
  BY <1>1, <1>2 DEF OneCall, IInv
<1> QED BY <1>5, <1>6

\* A step that adds no call, and changes at most a page that waits for none afterwards.
LEMMA FewerCalls ==
  ASSUME IInv, [Next]_vars, calls' \subseteq calls, \A d \in calls' : pages'[d.page] = pages[d.page]
  PROVE  (\A d \in calls' : CallInv(d)') /\ OneCall'
<1>1. \A d \in calls' : CallInv(d)'
  BY CallSame
<1>2. OneCall'
  BY DEF OneCall, IInv
<1> QED BY <1>1, <1>2

\* A call nobody waits for asks little of its page.
LEMMA LostSame ==
  ASSUME IInv, [Next]_vars, NEW d \in calls, d.lost,
         pages'[d.page].at # "loading", pages'[d.page].plan = pages[d.page].plan,
         pages'[d.page].id = pages[d.page].id, pages[d.page].late => pages'[d.page].late
  PROVE  CallInv(d)'
<1>1. CallInv(d) /\ d.id \in Ids
  BY PagesOfCalls DEF IInv
<1>2. /\ Holds(d.id, d.plan) => Holds(d.id, d.plan)'
      /\ Refuses(d.id, d.plan) => Refuses(d.id, d.plan)'
      /\ d.id \in removed => d.id \in removed'
  BY <1>1, Stable
<1> QED BY <1>1, <1>2 DEF CallInv

\* Once a page's only call is served or given up, its other calls are lost ones.
LEMMA OthersLost ==
  ASSUME IInv, NEW c \in calls, ~c.lost, NEW d \in calls, d # c, d.page = c.page
  PROVE  d.lost
  BY DEF IInv, OneCall, TypeOK, Call

\* Page p sends r and waits for no other call.
LEMMA SentInv ==
  ASSUME IInv, [Next]_vars, NEW p \in Pages, NEW r, r.page = p, CallInv(r)',
         NEW rest \in SUBSET calls, \A d \in rest : CallInv(d)' /\ (d.page = p => d.lost),
         calls' = rest \cup {r}
  PROVE  (\A d \in calls' : CallInv(d)') /\ OneCall'
<1>1. \A d \in calls' : CallInv(d)'
  OBVIOUS
<1>2. ASSUME NEW d \in calls', NEW e \in calls', ~d.lost, ~e.lost, d.page = e.page PROVE d = e
  <2>1. OneCall
    BY DEF IInv
  <2> QED BY <1>2, <2>1 DEF OneCall
<1>3. OneCall'
  BY <1>2 DEF OneCall
<1> QED BY <1>1, <1>3

LEMMA CallsStep ==
  ASSUME IInv, [Next]_vars
  PROVE  (\A d \in calls' : CallInv(d)') /\ OneCall'
<1> DEFINE Goal == (\A d \in calls' : CallInv(d)') /\ OneCall'
<1>0. /\ TypeOK /\ TypeOK' /\ pages \in [Pages -> Page] /\ \A q \in Pages : PageInv(q)
      /\ \A d \in calls : CallInv(d) /\ d \in Call /\ d.page \in Pages /\ d.id \in Ids
  BY TypeStep DEF IInv, TypeOK, Call
<1>1. ASSUME NEW p \in Pages, Plan(p) PROVE Goal
  BY <1>0, <1>1, FewerCalls DEF Plan, CallInv
<1>2. ASSUME NEW p \in Viewers, NEW i \in Ids, Open(p, i) PROVE Goal
  BY <1>0, <1>2, FewerCalls DEF Open, CallInv
<1>3. ASSUME NEW p \in Pages, Save(p) PROVE Goal
  <2> DEFINE kind == IF pages[p].ready THEN "update" ELSE "create"
  <2>0. PICK r : r = Request(p, kind, 1)
    OBVIOUS
  <2>1. PageInv(p) /\ pages[p] \in Page /\ pages[p].at = "editing" /\ removed' = removed /\ rows' = rows
    BY <1>0, <1>3 DEF Save
  <2>2. /\ pages'[p].at = "saving" /\ pages'[p].saves = pages[p].saves + 1 /\ pages'[p].late = pages[p].late
        /\ pages'[p].plan = pages[p].plan /\ pages'[p].id = pages[p].id /\ pages'[p].route = pages[p].route
        /\ pages'[p].ready = pages[p].ready /\ \A q \in Pages \ {p} : pages'[q] = pages[q]
    BY <1>0, <1>3, <2>1 DEF Save, Page
  <2>3. \A d \in calls : CallInv(d)' /\ (d.page = p => d.lost)
    <3> TAKE d \in calls
    <3>1. CASE d.page = p
      <4>1. d.lost
        BY <1>0, <2>1, <3>1 DEF CallInv
      <4> QED BY <4>1, <2>2, <3>1, LostSame
    <3>2. CASE d.page # p
      BY <1>0, <2>2, <3>2, CallSame
    <3> QED BY <3>1, <3>2
  <2>4. /\ r.page = p /\ r.kind = kind /\ r.attempt = 1 /\ r.id = pages'[p].id /\ r.plan = pages'[p].plan
        /\ r.route = pages'[p].route /\ r.n = pages'[p].saves /\ r.lost = FALSE /\ r.answer = 0
    BY <2>0 DEF Request
  <2>5. calls' = calls \cup {r}
    BY <1>3, <2>0 DEF Save
  <2>6. CallInv(r)'
    <3>1. /\ (p \in Planners \/ pages[p].ready) /\ (pages[p].ready => Holds(pages[p].id, pages[p].plan))
          /\ pages[p].route = RouteOf(pages[p].plan) \/ pages[p].id \in removed
          /\ kind = "create" => ~pages[p].ready
          /\ kind = "update" => pages[p].ready
      BY <2>1 DEF PageInv
    <3>2. p \in Planners => p \notin Viewers
      BY TripsAssumption
    <3>3. kind \in {"create", "update"}
      OBVIOUS
    <3> HIDE DEF kind
    <3>4. r.route = RouteOf(r.plan) \/ r.id \in removed'
      BY <2>1, <2>2, <2>4, <3>1
    <3>5. r.kind = "update" => Holds(r.id, r.plan)'
      BY <2>1, <2>2, <2>4, <3>1 DEF Holds
    <3> QED BY <2>1, <2>2, <2>4, <3>1, <3>2, <3>3, <3>4, <3>5 DEF CallInv
  <2> QED BY <2>3, <2>4, <2>5, <2>6, SentInv
<1>4. ASSUME NEW c \in calls, Create(c) PROVE Goal
  <2>1. CASE SameRequest(c)
    <3> DEFINE new == [plan |-> c.plan, data |-> [by |-> c.page, n |-> c.n],
                       log |-> [by |-> c.page, n |-> c.n], route |-> c.route]
    <3>1. new \in Row /\ new # Null /\ new.plan = c.plan
      BY <1>0, RowsAreNotNull DEF Call, Row, Stamp
    <3>2. rows' = [rows EXCEPT ![c.id] = new] /\ Answered(c, 200) /\ pages' = pages
      BY <1>4, <2>1 DEF Create
    <3> HIDE DEF new
    <3>3. Holds(c.id, c.plan)'
      BY <1>0, <3>1, <3>2 DEF Holds, TypeOK
    <3> QED BY <3>2, <3>3, AnsweredInv
  <2>2. CASE ~SameRequest(c)
    <3>1. Answered(c, 409) /\ pages' = pages /\ rows' = rows /\ removed' = removed /\ c.kind = "create"
      BY <1>4, <2>2 DEF Create
    <3>2. Refuses(c.id, c.plan)'
      BY <2>2, <3>1 DEF SameRequest, Refuses
    <3> QED BY <3>1, <3>2, AnsweredInv
  <2> QED BY <2>1, <2>2
<1>5. ASSUME NEW c \in calls, Update(c) PROVE Goal
  <2>1. Holds(c.id, c.plan)'
    BY <1>0, <1>5, Stable DEF Update, CallInv
  <2>2. pages' = pages /\ (Answered(c, 200) \/ Answered(c, 503))
    BY <1>5 DEF Update
  <2> QED BY <2>1, <2>2, AnsweredInv
<1>6. ASSUME NEW c \in calls, UpdateMissing(c) \/ Unavailable(c) PROVE Goal
  <2>1. CASE UpdateMissing(c)
    <3>1. c.id \in removed' /\ Answered(c, 404) /\ pages' = pages
      BY <1>0, <2>1 DEF UpdateMissing, CallInv, Holds
    <3> QED BY <3>1, AnsweredInv
  <2>2. CASE Unavailable(c)
    BY <2>2, AnsweredInv DEF Unavailable
  <2> QED BY <1>6, <2>1, <2>2
<1>7. ASSUME NEW c \in calls, ~c.lost, Acknowledge(c) \/ Fail(c) PROVE Goal
  <2>1. calls' = calls \ {c} /\ \A q \in Pages \ {c.page} : pages'[q] = pages[q]
    BY <1>0, <1>7 DEF Acknowledge, Fail
  <2>2. /\ pages'[c.page].at = "editing" /\ pages'[c.page].plan = pages[c.page].plan
        /\ pages'[c.page].id = pages[c.page].id /\ pages'[c.page].late = pages[c.page].late
    <3>1. pages[c.page] \in Page /\ c.page \in Pages
      BY <1>0
    <3>2. CASE Acknowledge(c)
      <4> DEFINE new == [pages[c.page] EXCEPT !.at = "editing", !.ready = TRUE, !.acked = c.n]
      <4>1. pages' = [pages EXCEPT ![c.page] = new]
        BY <3>2 DEF Acknowledge
      <4>2. /\ new.at = "editing" /\ new.plan = pages[c.page].plan /\ new.id = pages[c.page].id
            /\ new.late = pages[c.page].late
        BY <3>1 DEF Page
      <4> HIDE DEF new
      <4> QED BY <1>0, <3>1, <4>1, <4>2
    <3>3. CASE Fail(c)
      <4>1. pages'[c.page] = [pages[c.page] EXCEPT !.at = "editing"]
        BY <1>0, <3>1, <3>3 DEF Fail
      <4> QED BY <3>1, <4>1 DEF Page
    <3> QED BY <1>7, <3>2, <3>3
  <2>3. ASSUME NEW d \in calls' PROVE CallInv(d)'
    <3>1. d \in calls /\ d # c
      BY <2>1
    <3>2. CASE d.page = c.page
      BY <1>7, <2>2, <3>1, <3>2, OthersLost, LostSame
    <3>3. CASE d.page # c.page
      BY <1>0, <2>1, <3>1, <3>3, CallSame
    <3> QED BY <3>2, <3>3
  <2>4. OneCall'
    BY <2>1 DEF OneCall, IInv
  <2> QED BY <2>3, <2>4
<1>8. ASSUME NEW c \in calls, ~c.lost, Lose(c) PROVE Goal
  <2> DEFINE e == [c EXCEPT !.lost = TRUE]
  <2>1. \A q \in Pages \ {c.page} : pages'[q] = pages[q]
    BY <1>0, <1>8 DEF Lose
  <2>2. /\ pages'[c.page].at \in {"editing", "closed"} /\ pages'[c.page].plan = pages[c.page].plan
        /\ pages'[c.page].id = pages[c.page].id /\ pages'[c.page].late = (pages[c.page].late \/ c.answer = 0)
    <3>1. pages[c.page] \in Page /\ c.page \in Pages
      BY <1>0
    <3>2. PICK at \in {"editing", "closed"} :
            pages' = [pages EXCEPT ![c.page].at = at, ![c.page].late = @ \/ c.answer = 0]
      BY <1>8 DEF Lose
    <3> QED BY <1>0, <3>1, <3>2 DEF Page
  <2>3. calls' = (calls \ {c}) \cup (IF c.answer = 0 THEN {e} ELSE {}) /\ removed' = removed /\ rows' = rows
    BY <1>8 DEF Lose
  <2>4. /\ e.page = c.page /\ e.kind = c.kind /\ e.id = c.id /\ e.plan = c.plan /\ e.route = c.route
        /\ e.lost = TRUE /\ e.answer = c.answer
    BY <1>0 DEF Call
  <2> HIDE DEF e
  <2>5. ASSUME NEW d \in calls \ {c} PROVE CallInv(d)'
    <3>1. CASE d.page = c.page
      BY <1>8, <2>2, <3>1, OthersLost, LostSame
    <3>2. CASE d.page # c.page
      BY <1>0, <2>1, <3>2, CallSame
    <3> QED BY <3>1, <3>2
  <2>6. ASSUME c.answer = 0 PROVE CallInv(e)'
    <3>1. CallInv(c)
      BY <1>0
    <3>2. Holds(c.id, c.plan)' = Holds(c.id, c.plan) /\ Refuses(c.id, c.plan)' = Refuses(c.id, c.plan)
      BY <2>3 DEF Holds, Refuses
    <3>3. pages'[c.page].late /\ pages'[c.page].at # "loading"
      BY <2>2, <2>6
    <3> QED BY <2>2, <2>3, <2>4, <2>6, <3>1, <3>2, <3>3 DEF CallInv
  <2>7. OneCall'
    BY <2>3, <2>4 DEF OneCall, IInv
  <2> QED BY <2>3, <2>5, <2>6, <2>7
<1>9. ASSUME NEW c \in calls, ~c.lost, Renumber(c) PROVE Goal
  <2>0. PICK r : r = Request(c.page, "create", c.attempt + 1)
    OBVIOUS
  <2>1. /\ CallInv(c) /\ c.kind = "create" /\ c.answer = 409 /\ c.attempt < 3 /\ c.attempt \in 1..3
        /\ calls' = (calls \ {c}) \cup {r} /\ rows' = rows /\ removed' = removed
        /\ pages[c.page] \in Page /\ PageInv(c.page)
    BY <1>0, <1>9, <2>0 DEF Renumber, Retries, Call
  <2>2. /\ ~pages[c.page].ready /\ pages[c.page].at = "saving" /\ Refuses(c.id, c.plan)
        /\ c.id = pages[c.page].id /\ c.plan = pages[c.page].plan
    BY <2>1, <1>9 DEF CallInv
  <2>3. PICK i \in Ids : pages' = [pages EXCEPT ![c.page].id = i, ![c.page].known = @ \cup {c.id}]
    BY <1>9 DEF Renumber
  <2>4. /\ pages'[c.page].at = "saving" /\ ~pages'[c.page].ready /\ pages'[c.page].id = i
        /\ pages'[c.page].plan = pages[c.page].plan /\ pages'[c.page].late = pages[c.page].late
        /\ pages'[c.page].route = pages[c.page].route
        /\ \A q \in Pages \ {c.page} : pages'[q] = pages[q]
    BY <1>0, <2>1, <2>2, <2>3 DEF Page
  <2>5. \A d \in calls \ {c} : CallInv(d)' /\ (d.page = c.page => d.lost)
    <3> TAKE d \in calls \ {c}
    <3>1. CASE d.page = c.page
      <4>1. d.lost /\ CallInv(d)
        BY <1>0, <1>9, <3>1, OthersLost
      <4>2. d.plan = c.plan /\ (d.kind = "create" => Refuses(d.id, d.plan))
        BY <4>1, <2>2, <3>1 DEF CallInv
      <4> QED BY <4>1, <4>2, <2>1, <2>4, <3>1 DEF CallInv, Holds, Refuses
    <3>2. CASE d.page # c.page
      BY <1>0, <2>4, <3>2, CallSame
    <3> QED BY <3>1, <3>2
  <2>6. /\ r.page = c.page /\ r.kind = "create" /\ r.attempt = c.attempt + 1 /\ r.id = pages'[c.page].id
        /\ r.plan = pages'[c.page].plan /\ r.route = pages'[c.page].route /\ r.n = pages'[c.page].saves
        /\ r.lost = FALSE /\ r.answer = 0
    BY <2>0 DEF Request
  <2>7. CallInv(r)'
    <3>1. c.page \in Planners /\ c.page \notin Viewers /\ pages[c.page].route = RouteOf(pages[c.page].plan)
      BY <2>1, <2>2, TripsAssumption DEF PageInv
    <3> QED BY <2>4, <2>6, <3>1 DEF CallInv
  <2>8. calls \ {c} \in SUBSET calls /\ c.page \in Pages
    BY <1>0
  <2> QED BY <2>1, <2>5, <2>6, <2>7, <2>8, SentInv
<1>10. ASSUME NEW c \in calls, ~c.lost, Recreate(c) PROVE Goal
  <2>0. PICK r : r = Request(c.page, "create", 3)
    OBVIOUS
  <2>1. /\ CallInv(c) /\ c.answer = 404 /\ calls' = (calls \ {c}) \cup {r} /\ pages' = pages
        /\ rows' = rows /\ removed' = removed /\ pages[c.page] \in Page /\ PageInv(c.page)
    BY <1>0, <1>10, <2>0 DEF Recreate
  <2>2. /\ pages[c.page].at = "saving" /\ c.id = pages[c.page].id /\ c.plan = pages[c.page].plan
        /\ c.id \in removed
    BY <2>1, <1>10 DEF CallInv
  <2>3. \A d \in calls \ {c} : CallInv(d)' /\ (d.page = c.page => d.lost)
    BY <1>10, <2>1, OthersLost, CallSame
  <2>4. /\ r.page = c.page /\ r.kind = "create" /\ r.attempt = 3 /\ r.id = pages'[c.page].id
        /\ r.plan = pages'[c.page].plan /\ r.route = pages'[c.page].route /\ r.n = pages'[c.page].saves
        /\ r.lost = FALSE /\ r.answer = 0
    BY <2>0 DEF Request
  <2>5. CallInv(r)'
    <3> QED BY <2>1, <2>2, <2>4 DEF CallInv
  <2>6. calls \ {c} \in SUBSET calls /\ c.page \in Pages
    BY <1>0
  <2> QED BY <2>1, <2>3, <2>4, <2>5, <2>6, SentInv
<1>11. ASSUME UNCHANGED <<pages, calls>> PROVE Goal
  BY <1>11, FewerCalls
<1>12. \A c \in calls : (Acknowledge(c) \/ Renumber(c) \/ Recreate(c) \/ Fail(c) \/ Lose(c)) => ~c.lost
  BY <1>0 DEF CallInv, Acknowledge, Renumber, Retries, Recreate, Fail, Lose
<1> QED
  BY <1>1, <1>2, <1>3, <1>4, <1>5, <1>6, <1>7, <1>8, <1>9, <1>10, <1>11, <1>12
     DEF Next, vars, Serve, Receive, Delete

-----------------------------------------------------------------------------
(* Rows *)

\* A page that no step touches and a row that no step touches stay together.
LEMMA RowSame ==
  ASSUME IInv, [Next]_vars, NEW i \in Ids, rows'[i] = rows[i], segments'[i] = segments[i],
         rows[i] # Null => pages'[rows[i].plan].id = pages[rows[i].plan].id
  PROVE  RowInv(i)'
<1>1. RowInv(i) /\ removed \subseteq removed'
  BY RowsKeepPlans DEF IInv
<1> QED BY <1>1 DEF RowInv, RouteOf

\* A setup page's number changes only while no trip of its plan is stored.
LEMMA NumbersStay ==
  ASSUME IInv, [Next]_vars, NEW i \in Ids, i \notin removed, rows[i] # Null
  PROVE  pages'[rows[i].plan].id = pages[rows[i].plan].id
<1> DEFINE p == rows[i].plan
<1>1. /\ p \in Planners /\ p \in Pages /\ p \notin Viewers /\ pages \in [Pages -> Page] /\ pages[p] \in Page
      /\ pages[p].id = i /\ pages[p].at # "loading"
  <2>1. rows[i] \in Row /\ RowInv(i) /\ pages \in [Pages -> Page]
    BY DEF IInv, TypeOK
  <2>2. p \in Planners /\ p \in Pages /\ p \notin Viewers
    BY <2>1, TripsAssumption DEF Row, Pages
  <2>3. pages[p].id = i /\ PageInv(p)
    BY <2>1, <2>2 DEF RowInv, IInv
  <2>4. i # 0
    BY DEF Ids
  <2> QED BY <2>1, <2>2, <2>3, <2>4 DEF PageInv
<1> HIDE DEF p
<1>2. ASSUME NEW q \in Pages, Plan(q) \/ Save(q) PROVE pages'[p].id = pages[p].id
  <2>1. CASE Plan(q)
    <3>1. q # p
      BY <1>1, <2>1 DEF Plan
    <3> QED BY <1>1, <2>1, <3>1 DEF Plan
  <2>2. CASE Save(q)
    <3>1. pages' = [pages EXCEPT ![q].at = "saving", ![q].saves = @ + 1]
      BY <2>2 DEF Save
    <3> QED BY <1>1, <3>1 DEF Page
  <2> QED BY <1>2, <2>1, <2>2
<1>3. ASSUME NEW q \in Viewers, NEW j \in Ids, Open(q, j) PROVE pages'[p].id = pages[p].id
  BY <1>1, <1>3 DEF Open
<1>4. ASSUME NEW c \in calls, Acknowledge(c) \/ Fail(c) \/ Lose(c) PROVE pages'[p].id = pages[p].id
  <2> DEFINE acked == [pages[c.page] EXCEPT !.at = "editing", !.ready = TRUE, !.acked = c.n]
  <2>1. /\ c.page \in Pages /\ pages[c.page] \in Page
        /\ acked.id = pages[c.page].id
    BY PagesOfCalls DEF Page
  <2>2. CASE Acknowledge(c)
    <3>1. pages' = [pages EXCEPT ![c.page] = acked]
      BY <2>2 DEF Acknowledge
    <3> HIDE DEF acked
    <3> QED BY <1>1, <2>1, <3>1
  <2>3. CASE Fail(c)
    BY <1>1, <2>1, <2>3 DEF Fail, Page
  <2>4. CASE Lose(c)
    <3>1. PICK at \in {"editing", "closed"} :
            pages' = [pages EXCEPT ![c.page].at = at, ![c.page].late = @ \/ c.answer = 0]
      BY <2>4 DEF Lose
    <3> QED BY <1>1, <2>1, <3>1 DEF Page
  <2> QED BY <1>4, <2>2, <2>3, <2>4
<1>5. ASSUME NEW c \in calls, Renumber(c) PROVE pages'[p].id = pages[p].id
  <2>1. CallInv(c) /\ c.page \in Pages /\ c.answer = 409 /\ c.kind = "create"
    BY <1>5, PagesOfCalls DEF IInv, Renumber, Retries
  <2>2. c.page # p
    <3>1. SUFFICES ASSUME c.page = p PROVE FALSE
      OBVIOUS
    <3>2. c.id = i /\ Refuses(i, c.plan) /\ c.plan = pages[p].plan
      BY <1>1, <2>1, <3>1 DEF CallInv
    <3>3. pages[p].plan = p
      BY <1>1 DEF IInv, PageInv
    <3> QED BY <3>2, <3>3 DEF Refuses, p
  <2> QED BY <1>1, <1>5, <2>1, <2>2 DEF Renumber
<1>6. ASSUME UNCHANGED pages PROVE pages'[p].id = pages[p].id
  BY <1>6
<1>7. pages'[p].id = pages[p].id
  BY <1>2, <1>3, <1>4, <1>5, <1>6
     DEF Next, vars, Serve, Receive, Create, Update, UpdateMissing, Unavailable, Recreate, Delete
<1> QED BY <1>7 DEF p

LEMMA RowsStep ==
  ASSUME IInv, [Next]_vars
  PROVE  \A i \in Ids : RowInv(i)'
<1>0. TypeOK /\ TypeOK' /\ removed \subseteq removed'
  BY TypeStep, RowsKeepPlans DEF IInv
<1>1. ASSUME NEW i \in Ids, rows'[i] = rows[i], segments'[i] = segments[i] PROVE RowInv(i)'
  <2>1. CASE i \in removed
    BY <1>0, <2>1 DEF RowInv
  <2>2. CASE i \notin removed
    BY <1>1, <2>2, NumbersStay, RowSame
  <2> QED BY <2>1, <2>2
<1>2. ASSUME NEW c \in calls, Create(c) PROVE \A i \in Ids : RowInv(i)'
  <2>1. /\ c \in Call /\ c.id \in Ids /\ CallInv(c) /\ c.kind = "create" /\ c.page \in Pages
        /\ removed' = removed /\ segments' = segments /\ pages' = pages
    BY <1>0, <1>2, PagesOfCalls DEF IInv, TypeOK, Create
  <2>2. CASE rows' = rows
    BY <1>1, <2>1, <2>2
  <2>3. CASE rows' # rows
    <3> DEFINE new == [plan |-> c.plan, data |-> [by |-> c.page, n |-> c.n],
                       log |-> [by |-> c.page, n |-> c.n], route |-> c.route]
    <3>1. new \in Row /\ new # Null /\ new.plan = c.plan /\ new.route = c.route
      BY <2>1, RowsAreNotNull DEF Call, Row, Stamp
    <3>2. rows' = [rows EXCEPT ![c.id] = new] /\ SameRequest(c)
      BY <1>2, <2>3 DEF Create
    <3> HIDE DEF new
    <3>3. \A i \in Ids \ {c.id} : RowInv(i)'
      BY <1>0, <1>1, <2>1, <3>2 DEF TypeOK
    <3>4. rows'[c.id] = new
      BY <1>0, <2>1, <3>2 DEF TypeOK
    <3>5. ASSUME c.id \notin removed PROVE RowInv(c.id)'
      <4>1. ~Refuses(c.id, c.plan)
        BY <3>2, <3>5 DEF SameRequest, Refuses
      <4>2. c.id = pages[c.page].id /\ c.page \in Planners /\ c.route = RouteOf(c.plan)
            /\ c.plan = pages[c.page].plan /\ pages[c.page].at # "loading" /\ PageInv(c.page)
        BY <2>1, <3>5, <4>1 DEF CallInv, Pages, IInv
      <4>3. c.plan = c.page
        BY <4>2 DEF PageInv
      <4>4. segments[c.id] \in {<<>>, RouteOf(c.plan)}
        BY <2>1, <3>2, <3>5 DEF IInv, RowInv, SameRequest
      <4> QED BY <2>1, <3>1, <3>4, <4>2, <4>3, <4>4 DEF RowInv, RouteOf
    <3>6. RowInv(c.id)'
      BY <2>1, <3>5 DEF RowInv
    <3> QED BY <3>3, <3>6
  <2> QED BY <2>2, <2>3
<1>3. ASSUME NEW c \in calls, Update(c) PROVE \A i \in Ids : RowInv(i)'
  <2>1. /\ c \in Call /\ c.id \in Ids /\ CallInv(c) /\ c.kind = "update" /\ c.plan \in Planners
        /\ rows[c.id] # Null /\ rows[c.id] \in Row /\ RowInv(c.id)
        /\ removed' = removed /\ pages' = pages
        /\ segments' = [segments EXCEPT ![c.id] = Overlay(segments[c.id], c.route)]
    BY <1>0, <1>3, PagesOfCalls DEF IInv, TypeOK, Update, Call
  <2>2. PICK log \in Stamp :
          rows' = [rows EXCEPT ![c.id] = [plan |-> c.plan, data |-> [by |-> c.page, n |-> c.n],
                                          log |-> log, route |-> <<>>]]
    <3>1. rows[c.id].log \in Stamp /\ [by |-> c.page, n |-> c.n] \in Stamp
      BY <2>1 DEF Call, Row, Stamp
    <3> QED BY <3>1, <1>3 DEF Update
  <2> DEFINE new == [plan |-> c.plan, data |-> [by |-> c.page, n |-> c.n], log |-> log, route |-> <<>>]
  <2>3. new \in Row /\ new # Null /\ new.plan = c.plan /\ new.route = <<>>
    BY <2>1, EmptySeq, RowsAreNotNull, ZenonT(60) DEF Call, Row, Stamp
  <2>4. rows' = [rows EXCEPT ![c.id] = new]
    BY <2>2
  <2> HIDE DEF new
  <2>5. \A i \in Ids \ {c.id} : RowInv(i)'
    BY <1>0, <1>1, <2>1, <2>4 DEF TypeOK
  <2>6. rows'[c.id] = new /\ segments'[c.id] = Overlay(segments[c.id], c.route)
    BY <1>0, <2>1, <2>4 DEF TypeOK
  <2>7. ASSUME c.id \notin removed PROVE RowInv(c.id)'
    <3>1. rows[c.id].plan = c.plan /\ c.route = RouteOf(c.plan) /\ RouteOf(c.plan) # <<>>
      BY <2>1, <2>7, RouteType DEF CallInv, Holds
    <3>2. segments[c.id] \in {<<>>, c.route} /\ pages[c.plan].id = c.id
      BY <2>1, <2>7, <3>1 DEF RowInv
    <3>3. Overlay(segments[c.id], c.route) = c.route
      <4>1. c.route \in Seq(Planners)
        BY <2>1 DEF Call
      <4> QED BY <3>2, <4>1, OverlaySame
    <3> QED BY <2>1, <2>3, <2>6, <3>1, <3>2, <3>3 DEF RowInv, RouteOf
  <2>8. RowInv(c.id)'
    BY <2>1, <2>7 DEF RowInv
  <2> QED BY <2>5, <2>8
<1>4. ASSUME NEW j \in Ids, Delete(j) PROVE \A i \in Ids : RowInv(i)'
  <2>1. RowInv(j)'
    BY <1>4 DEF Delete, RowInv
  <2>2. \A i \in Ids \ {j} : RowInv(i)'
    BY <1>0, <1>1, <1>4 DEF Delete, TypeOK
  <2> QED BY <2>1, <2>2
<1>5. ASSUME UNCHANGED <<rows, segments>> PROVE \A i \in Ids : RowInv(i)'
  BY <1>1, <1>5
<1> QED
  BY <1>2, <1>3, <1>4, <1>5
     DEF Next, vars, Plan, Save, Open, Serve, Receive, UpdateMissing, Unavailable, Acknowledge, Renumber,
         Recreate, Fail, Lose

-----------------------------------------------------------------------------
(* The theorems *)

LEMMA InitInv == Init => IInv
<1> SUFFICES ASSUME Init PROVE IInv
  OBVIOUS
<1>1. \A p \in Pages : PageInv(p)
  <2> TAKE p \in Pages
  <2>1. pages[p].at = "loading" /\ pages[p].id = 0 /\ ~pages[p].ready /\ pages[p].acked = 0 /\ pages[p].saves = 0
    BY DEF Init
  <2> QED BY <2>1 DEF PageInv
<1>2. \A i \in Ids : RowInv(i)
  BY DEF Init, RowInv
<1>3. calls = {}
  BY DEF Init
<1> QED BY <1>1, <1>2, <1>3, InitType DEF IInv, OneCall

LEMMA InvStep == IInv /\ [Next]_vars => IInv'
  BY TypeStep, PagesStep, CallsStep, RowsStep DEF IInv

\* The inductive invariant holds, for any pages, numbers and bounds.
THEOREM Invariant == Spec => []IInv
  BY InitInv, InvStep, PTL DEF Spec

\* The types hold in every reachable state.
THEOREM TypeCorrect == Spec => []TypeOK
<1>1. IInv => TypeOK
  BY DEF IInv
<1> QED BY <1>1, Invariant, PTL

\* One planned trip is stored once: the number of its setup page is the only one.
THEOREM OneTripStored == Spec => []OneTripPerPlan
<1>1. IInv => OneTripPerPlan
  <2> SUFFICES ASSUME IInv, NEW i \in Stored \ removed, NEW j \in Stored \ removed, rows[i].plan = rows[j].plan
               PROVE  i = j
    BY DEF OneTripPerPlan
  <2>1. i \in Ids /\ j \in Ids /\ rows[i] # Null /\ rows[j] # Null
    BY DEF Stored
  <2> QED BY <2>1 DEF IInv, RowInv
<1> QED BY <1>1, Invariant, PTL

\* No create and no update puts another trip in the place of a stored one.
THEOREM StoredTripsStay == Spec => TripKept
<1>1. IInv /\ [Next]_vars =>
        [\A i \in Stored \ removed' : rows'[i] # Null /\ rows'[i].plan = rows[i].plan]_rows
  BY RowsKeepPlans DEF Stored
<1> QED BY <1>1, Invariant, PTL DEF Spec, TripKept

\* Whatever was saved last, the route that is read back is the planned one.
THEOREM RoutesReadBack == Spec => []RouteReadsBack
<1>1. IInv => RouteReadsBack
  <2> SUFFICES ASSUME IInv, NEW i \in Stored \ removed PROVE ReadBack(i) = RouteOf(rows[i].plan)
    BY DEF RouteReadsBack
  <2>1. i \in Ids /\ i \notin removed /\ rows[i] # Null /\ rows[i] \in Row /\ RowInv(i)
    BY DEF Stored, IInv, TypeOK
  <2>2. RouteOf(rows[i].plan) # <<>>
    BY <2>1, RouteType DEF Row
  <2> QED BY <2>1, <2>2 DEF RowInv, ReadBack
<1> QED BY <1>1, Invariant, PTL

-----------------------------------------------------------------------------
(* Acknowledged saves *)

\* The row of call c is written by it, its log with the data or not at all.
Written(c, new) ==
  /\ new.data = [by |-> c.page, n |-> c.n]
  /\ new.log = new.data \/ (rows[c.id] # Null /\ new.log = rows[c.id].log)
  /\ rows' = [rows EXCEPT ![c.id] = new]

\* A write of call c leaves every save that is no newer one of its page.
LEMMA WriteKeeps ==
  ASSUME IInv, NEW c \in calls, NEW new \in Row, Written(c, new), NEW i \in Ids, NEW p \in Pages, NEW n \in Nat, p = c.page => n <= c.n,
         Kept(i, p, n)
  PROVE  Kept(i, p, n)'
<1>1. rows \in [Ids -> Row \cup {Null}] /\ c \in Call /\ c.id \in Ids
  BY PagesOfCalls DEF IInv, TypeOK
<1>2. new.data.by = c.page /\ new.data.n = c.n
  BY DEF Written
<1>3. CASE i # c.id
  BY <1>1, <1>3 DEF Kept, Written
<1>4. CASE i = c.id
  <2>1. rows'[i] = new
    BY <1>1, <1>4 DEF Written
  <2>2. p = c.page => new.data.n >= n
    <3>1. c.n \in Nat
      BY <1>1 DEF Call
    <3> QED BY <3>1, <1>2
  <2>3. new.log.by = p => new.log.n >= n
    BY <1>2, <1>4, <2>2 DEF Kept, Written
  <2> QED BY <1>2, <2>1, <2>2, <2>3 DEF Kept
<1> QED BY <1>3, <1>4

\* What SaveInv says of a page and of a call.
PageKept(p) == pages[p].acked # 0 /\ ~pages[p].late /\ pages[p].id \notin removed =>
                 Kept(pages[p].id, p, pages[p].acked)
CallKept(c) == c.answer = 200 /\ ~pages[c.page].late /\ c.id \notin removed => Kept(c.id, c.page, c.n)

\* Neither changes as long as the row does not.
LEMMA KeptSame ==
  ASSUME IInv, [Next]_vars,
         \A i \in Ids : i \notin removed' => rows'[i] = rows[i]
  PROVE  /\ \A p \in Pages : /\ pages'[p].acked = pages[p].acked /\ pages'[p].id = pages[p].id
                              /\ (pages[p].late => pages'[p].late) /\ PageKept(p)
                              => PageKept(p)'
         /\ \A d \in calls : (pages[d.page].late => pages'[d.page].late) /\ CallKept(d) => CallKept(d)'
<1>1. removed \subseteq removed'
  BY RowsKeepPlans
<1>2. \A i \in Ids : i \notin removed' => \A p, n : Kept(i, p, n) => Kept(i, p, n)'
  BY DEF Kept
<1>3. \A p \in Pages : pages[p].acked # 0 => pages[p].id \in Ids
  BY DEF IInv, PageInv
<1>4. \A d \in calls : d.id \in Ids
  BY PagesOfCalls
<1>5. ASSUME NEW p \in Pages, pages'[p].acked = pages[p].acked, pages'[p].id = pages[p].id,
             pages[p].late => pages'[p].late, PageKept(p)
      PROVE  PageKept(p)'
  BY <1>1, <1>2, <1>3, <1>5 DEF PageKept
<1>6. ASSUME NEW d \in calls, pages[d.page].late => pages'[d.page].late, CallKept(d) PROVE CallKept(d)'
  BY <1>1, <1>2, <1>4, <1>6 DEF CallKept
<1> QED BY <1>5, <1>6

\* A page that has nothing acknowledged is owed nothing.
LEMMA NothingOwed ==
  ASSUME NEW p, pages'[p].acked = 0
  PROVE  PageKept(p)'
  BY DEF PageKept

\* A handler's write: the page's own newer save, or another page's.
LEMMA WriteStep ==
  ASSUME IInv, SaveInv, [Next]_vars, NEW c \in calls, NEW new \in Row, NEW status \in {200, 503},
         Written(c, new), status = 200 => new.log = new.data,
         Answered(c, status), pages' = pages, removed' = removed
  PROVE  SaveInv'
<1>0. /\ c \in Call /\ c.page \in Pages /\ c.id \in Ids /\ CallInv(c) /\ c.n \in Nat
      /\ rows \in [Ids -> Row \cup {Null}]
      /\ \A p \in Pages : PageInv(p) /\ pages[p] \in Page
  BY PagesOfCalls DEF IInv, TypeOK, Call
<1>2. ASSUME NEW p \in Pages, NEW i \in Ids, NEW n \in Nat, p = c.page => n <= c.n, Kept(i, p, n)
      PROVE  Kept(i, p, n)'
  BY <1>2, WriteKeeps
<1>3. ASSUME NEW p \in Pages, pages[p].acked # 0, ~pages[p].late, pages[p].id \notin removed
      PROVE  Kept(pages[p].id, p, pages[p].acked)'
  <2>1. pages[p].id \in Ids /\ pages[p].acked \in Nat /\ pages[p].acked <= pages[p].saves
    BY <1>0, <1>3 DEF PageInv, Page
  <2>2. Kept(pages[p].id, p, pages[p].acked)
    BY <1>3 DEF SaveInv
  <2>3. p = c.page => c.n = pages[p].saves
    BY <1>0, <1>3 DEF CallInv
  <2>4. PICK i \in Ids, n \in Nat : i = pages[p].id /\ n = pages[p].acked
    BY <2>1
  <2>5. Kept(i, p, n)'
    BY <1>2, <2>1, <2>2, <2>3, <2>4
  <2> QED BY <2>4, <2>5 DEF Kept
<1>4. ASSUME NEW d \in calls \ {c}, d.answer = 200, ~pages[d.page].late, d.id \notin removed
      PROVE  Kept(d.id, d.page, d.n)'
  <2>1. d.page \in Pages /\ d.id \in Ids /\ d.n \in Nat /\ CallInv(d)
    BY PagesOfCalls DEF IInv, TypeOK, Call
  <2>2. d.page # c.page
    <3>1. SUFFICES ASSUME d.page = c.page PROVE FALSE
      OBVIOUS
    <3>2. ~c.lost /\ ~d.lost
      BY <1>0, <1>4, <2>1, <3>1 DEF CallInv
    <3> QED BY <3>1, <3>2 DEF IInv, OneCall
  <2>3. Kept(d.id, d.page, d.n)
    BY <1>4 DEF SaveInv
  <2> QED BY <1>2, <2>1, <2>2, <2>3
<1> DEFINE e == [c EXCEPT !.answer = status]
<1>5. e.answer = status /\ e.page = c.page /\ e.n = c.n /\ e.id = c.id
  BY <1>0 DEF Call
<1>6. calls' \subseteq (calls \ {c}) \cup {e}
  BY DEF Answered
<1> HIDE DEF e
<1>7. status = 200 => Kept(c.id, c.page, c.n)'
  <2>1. rows'[c.id] = new /\ new.data.by = c.page /\ new.data.n = c.n
    BY <1>0 DEF Written
  <2> QED BY <1>0, <2>1 DEF Kept
<1>8. \A p \in Pages : pages'[p].acked # 0 /\ ~pages'[p].late /\ pages'[p].id \notin removed' =>
        Kept(pages[p].id, p, pages[p].acked)'
  BY <1>3
<1>9. ASSUME NEW d \in calls', d.answer = 200, ~pages'[d.page].late, d.id \notin removed'
      PROVE  Kept(d.id, d.page, d.n)'
  <2>1. CASE d = e
    BY <1>5, <1>7, <1>9, <2>1
  <2>2. CASE d # e
    BY <1>4, <1>6, <1>9, <2>2
  <2> QED BY <2>1, <2>2
<1> QED BY <1>8, <1>9 DEF SaveInv

LEMMA SavesStep ==
  ASSUME IInv, SaveInv, [Next]_vars
  PROVE  SaveInv'
<1>0. /\ TypeOK /\ pages \in [Pages -> Page] /\ \A p \in Pages : PageInv(p) /\ PageKept(p) /\ pages[p] \in Page
      /\ \A d \in calls : /\ CallInv(d) /\ CallKept(d) /\ d \in Call /\ d.page \in Pages /\ d.id \in Ids
                         /\ d.n \in 1..Saves
  BY PagesOfCalls DEF IInv, SaveInv, PageKept, CallKept, TypeOK, Call
<1>1. ASSUME \A p \in Pages : PageKept(p)', \A d \in calls' : CallKept(d)' PROVE SaveInv'
  BY <1>1 DEF SaveInv, PageKept, CallKept
<1>2. ASSUME NEW c \in calls, Create(c) PROVE SaveInv'
  <2>1. CASE SameRequest(c)
    <3> DEFINE new == [plan |-> c.plan, data |-> [by |-> c.page, n |-> c.n],
                       log |-> [by |-> c.page, n |-> c.n], route |-> c.route]
    <3>1. new \in Row /\ new.data = [by |-> c.page, n |-> c.n] /\ new.log = new.data
      BY <1>0 DEF Call, Row, Stamp
    <3>2. rows' = [rows EXCEPT ![c.id] = new] /\ Answered(c, 200) /\ pages' = pages /\ removed' = removed
      BY <1>2, <2>1 DEF Create
    <3> HIDE DEF new
    <3>3. Written(c, new)
      BY <3>1, <3>2 DEF Written
    <3> QED BY <3>1, <3>2, <3>3, WriteStep
  <2>2. CASE ~SameRequest(c)
    <3>1. rows' = rows /\ pages' = pages /\ removed' = removed /\ Answered(c, 409)
      BY <1>2, <2>2 DEF Create
    <3> DEFINE e == [c EXCEPT !.answer = 409]
    <3>2. e.answer = 409
      BY <1>0 DEF Call
    <3>4. calls' \subseteq calls \cup {e}
      BY <3>1 DEF Answered
    <3> HIDE DEF e
    <3>3. \A d \in calls' : d \in calls \/ d.answer # 200
      BY <3>2, <3>4
    <3> QED BY <1>0, <1>1, <3>1, <3>3, KeptSame DEF CallKept
  <2> QED BY <2>1, <2>2
<1>3. ASSUME NEW c \in calls, Update(c) PROVE SaveInv'
  <2> DEFINE stamp == [by |-> c.page, n |-> c.n]
             row(log) == [plan |-> c.plan, data |-> stamp, log |-> log, route |-> <<>>]
  <2>1. rows[c.id] \in Row /\ rows[c.id] # Null /\ pages' = pages /\ removed' = removed
    BY <1>0, <1>3 DEF TypeOK, Update
  <2>2. stamp \in Stamp /\ rows[c.id].log \in Stamp /\ c.plan \in Planners
    BY <1>0, <2>1 DEF Call, Stamp, Row
  <2>3. \A log \in Stamp : row(log) \in Row /\ row(log).data = stamp /\ row(log).log = log
    <3> HIDE DEF stamp
    <3> QED BY <2>2, EmptySeq DEF Row
  <2>4. \/ rows' = [rows EXCEPT ![c.id] = row(stamp)] /\ Answered(c, 200)
        \/ rows' = [rows EXCEPT ![c.id] = row(rows[c.id].log)] /\ Answered(c, 503)
    BY <1>3 DEF Update
  <2>5. PICK log \in Stamp, status \in {200, 503} :
          /\ rows' = [rows EXCEPT ![c.id] = row(log)] /\ Answered(c, status)
          /\ log = stamp \/ (status = 503 /\ log = rows[c.id].log)
    <3> HIDE DEF row, stamp
    <3> QED BY <2>2, <2>4
  <2>6. PICK new \in Row : new = row(log) /\ new.data = stamp /\ new.log = log
    <3>1. row(log) \in Row /\ row(log).data = stamp /\ row(log).log = log
      BY <2>3
    <3> HIDE DEF row, stamp
    <3> QED BY <3>1
  <2>7. /\ new.data = [by |-> c.page, n |-> c.n]
        /\ new.log = new.data \/ (status = 503 /\ rows[c.id] # Null /\ new.log = rows[c.id].log)
    BY <2>1, <2>5, <2>6
  <2>8. rows' = [rows EXCEPT ![c.id] = new] /\ Answered(c, status)
    BY <2>5, <2>6
  <2> HIDE DEF row, stamp
  <2>9. Written(c, new) /\ (status = 200 => new.log = new.data)
    BY <2>7, <2>8 DEF Written
  <2> QED BY <2>1, <2>8, <2>9, WriteStep
<1>4. ASSUME NEW c \in calls, UpdateMissing(c) \/ Unavailable(c) PROVE SaveInv'
  <2>1. /\ rows' = rows /\ pages' = pages /\ removed' = removed
        /\ Answered(c, 404) \/ Answered(c, 503)
    BY <1>4 DEF UpdateMissing, Unavailable
  <2> DEFINE e(status) == [c EXCEPT !.answer = status]
  <2>2. e(404).answer = 404 /\ e(503).answer = 503
    BY <1>0 DEF Call
  <2>4. calls' \subseteq calls \cup {e(404), e(503)}
    BY <2>1 DEF Answered
  <2> HIDE DEF e
  <2>3. \A d \in calls' : d \in calls \/ d.answer # 200
    BY <2>2, <2>4
  <2> QED BY <1>0, <1>1, <2>1, <2>3, KeptSame DEF CallKept
<1>5. ASSUME NEW c \in calls, Acknowledge(c) PROVE SaveInv'
  <2> DEFINE acked == [pages[c.page] EXCEPT !.at = "editing", !.ready = TRUE, !.acked = c.n]
  <2>1. rows' = rows /\ removed' = removed /\ calls' = calls \ {c} /\ c.answer = 200 /\ ~c.lost
        /\ pages' = [pages EXCEPT ![c.page] = acked]
    BY <1>0, <1>5 DEF Acknowledge, CallInv
  <2>2. acked.acked = c.n /\ acked.late = pages[c.page].late /\ acked.id = pages[c.page].id
    BY <1>0 DEF Page
  <2>3. c.id = pages[c.page].id
    BY <1>0, <2>1 DEF CallInv
  <2> HIDE DEF acked
  <2>4. /\ \A q \in Pages \ {c.page} : pages'[q] = pages[q]
        /\ pages'[c.page] = acked
    BY <1>0, <2>1
  <2>5. PageKept(c.page)'
    BY <1>0, <2>1, <2>2, <2>3, <2>4 DEF PageKept, CallKept, Kept
  <2>6. \A q \in Pages : PageKept(q)'
    BY <1>0, <2>1, <2>4, <2>5, KeptSame
  <2>7. \A d \in calls' : CallKept(d)'
    BY <1>0, <2>1, <2>2, <2>4, KeptSame
  <2> QED BY <1>1, <2>6, <2>7
<1>6. ASSUME NEW p \in Pages, NEW calls0 \in SUBSET calls, rows' = rows, removed' = removed,
             \A q \in Pages \ {p} : pages'[q] = pages[q],
             pages[p].late => pages'[p].late,
             \/ pages'[p].acked = pages[p].acked /\ pages'[p].id = pages[p].id
             \/ pages'[p].acked = 0,
             \A d \in calls' : d \in calls0 \/ d.answer # 200
      PROVE  SaveInv'
  <2>1. \A q \in Pages : PageKept(q)'
    BY <1>0, <1>6, KeptSame, NothingOwed
  <2>2. \A d \in calls' : CallKept(d)'
    BY <1>0, <1>6, KeptSame DEF CallKept
  <2> QED BY <1>1, <2>1, <2>2
<1>7. ASSUME NEW p \in Pages, Plan(p) PROVE SaveInv'
  <2>1. pages[p].acked = 0 /\ pages[p] \in Page
    BY <1>0, <1>7 DEF PageInv, Plan
  <2>2. PICK i \in Ids :
          pages' = [pages EXCEPT ![p] = [@ EXCEPT !.at = "editing", !.plan = p, !.id = i,
                                                  !.known = Stored, !.route = RouteOf(p)]]
    BY <1>7 DEF Plan
  <2> DEFINE new == [pages[p] EXCEPT !.at = "editing", !.plan = p, !.id = i, !.known = Stored, !.route = RouteOf(p)]
  <2>3. new.acked = 0 /\ new.late = pages[p].late
    BY <2>1 DEF Page
  <2>4. pages' = [pages EXCEPT ![p] = new]
    BY <2>2
  <2> HIDE DEF new
  <2>5. pages'[p] = new /\ \A q \in Pages \ {p} : pages'[q] = pages[q]
    BY <1>0, <2>4
  <2>6. rows' = rows /\ removed' = removed /\ calls' = calls
    BY <1>7 DEF Plan
  <2> QED BY <1>6, <2>3, <2>5, <2>6
<1>8. ASSUME NEW p \in Viewers, NEW i \in Ids, Open(p, i) PROVE SaveInv'
  <2>1. pages[p].acked = 0 /\ pages[p] \in Page /\ p \in Pages
    BY <1>0, <1>8 DEF PageInv, Open, Pages
  <2> DEFINE new == [pages[p] EXCEPT !.at = "editing", !.plan = rows[i].plan, !.id = i, !.known = Stored,
                                     !.route = ReadBack(i), !.ready = TRUE]
  <2>2. new.acked = 0 /\ new.late = pages[p].late
    BY <2>1 DEF Page
  <2>3. pages' = [pages EXCEPT ![p] = new]
    BY <1>8 DEF Open
  <2> HIDE DEF new
  <2>4. pages'[p] = new /\ \A q \in Pages \ {p} : pages'[q] = pages[q]
    BY <1>0, <2>1, <2>3
  <2> QED BY <1>6, <1>8, <2>1, <2>2, <2>4 DEF Open
<1>9. ASSUME NEW p \in Pages, Save(p) PROVE SaveInv'
  <2>0. PICK r : r = Request(p, IF pages[p].ready THEN "update" ELSE "create", 1)
    OBVIOUS
  <2>1. rows' = rows /\ removed' = removed /\ r.answer = 0 /\ calls' = calls \cup {r}
    BY <1>9, <2>0 DEF Save, Request
  <2>2. /\ pages'[p].acked = pages[p].acked /\ pages'[p].id = pages[p].id /\ pages'[p].late = pages[p].late
        /\ \A q \in Pages \ {p} : pages'[q] = pages[q]
    BY <1>0, <1>9 DEF Save, Page
  <2>3. \A d \in calls' : d \in calls \/ d.answer # 200
    BY <2>1
  <2> QED BY <1>6, <2>1, <2>2, <2>3
<1>10. ASSUME NEW c \in calls, Renumber(c) PROVE SaveInv'
  <2>0. PICK r : r = Request(c.page, "create", c.attempt + 1)
    OBVIOUS
  <2>1. /\ rows' = rows /\ removed' = removed /\ r.answer = 0 /\ calls' = (calls \ {c}) \cup {r}
        /\ pages[c.page].acked = 0
    BY <1>0, <1>10, <2>0 DEF Renumber, Retries, Request, CallInv, PageInv
  <2>2. PICK i \in Ids : pages' = [pages EXCEPT ![c.page].id = i, ![c.page].known = @ \cup {c.id}]
    BY <1>10 DEF Renumber
  <2>3. /\ pages'[c.page].acked = 0 /\ pages'[c.page].late = pages[c.page].late
        /\ \A q \in Pages \ {c.page} : pages'[q] = pages[q]
    BY <1>0, <2>1, <2>2 DEF Page
  <2>4. \A d \in calls' : d \in calls \/ d.answer # 200
    BY <2>1
  <2> QED BY <1>0, <1>6, <2>1, <2>3, <2>4
<1>11. ASSUME NEW c \in calls, Recreate(c) PROVE SaveInv'
  <2>0. PICK r : r = Request(c.page, "create", 3)
    OBVIOUS
  <2>1. rows' = rows /\ removed' = removed /\ pages' = pages /\ r.answer = 0 /\ calls' = (calls \ {c}) \cup {r}
    BY <1>11, <2>0 DEF Recreate, Request
  <2>2. \A d \in calls' : d \in calls \/ d.answer # 200
    BY <2>1
  <2> QED BY <1>0, <1>6, <2>1, <2>2
<1>12. ASSUME NEW c \in calls, Fail(c) PROVE SaveInv'
  <2>1. rows' = rows /\ removed' = removed /\ calls' \subseteq calls
        /\ pages' = [pages EXCEPT ![c.page].at = "editing"]
    BY <1>12 DEF Fail
  <2>2. /\ pages'[c.page].acked = pages[c.page].acked /\ pages'[c.page].id = pages[c.page].id
        /\ pages'[c.page].late = pages[c.page].late
        /\ \A q \in Pages \ {c.page} : pages'[q] = pages[q]
    BY <1>0, <2>1 DEF Page
  <2> QED BY <1>0, <1>6, <2>1, <2>2
<1>13. ASSUME NEW c \in calls, Lose(c) PROVE SaveInv'
  <2> DEFINE e == [c EXCEPT !.lost = TRUE]
  <2>1. e.answer = c.answer
    BY <1>0 DEF Call
  <2>2. rows' = rows /\ removed' = removed /\ calls' = (calls \ {c}) \cup (IF c.answer = 0 THEN {e} ELSE {})
    BY <1>13 DEF Lose
  <2> HIDE DEF e
  <2>3. PICK at \in {"editing", "closed"} :
          pages' = [pages EXCEPT ![c.page].at = at, ![c.page].late = @ \/ c.answer = 0]
    BY <1>13 DEF Lose
  <2>4. /\ pages'[c.page].acked = pages[c.page].acked /\ pages'[c.page].id = pages[c.page].id
        /\ (pages[c.page].late => pages'[c.page].late)
        /\ \A q \in Pages \ {c.page} : pages'[q] = pages[q]
    BY <1>0, <2>3 DEF Page
  <2>5. \A d \in calls' : d \in calls \/ d.answer # 200
    BY <2>1, <2>2
  <2> QED BY <1>0, <1>6, <2>2, <2>4, <2>5
<1>14. ASSUME NEW i \in Ids, Delete(i) PROVE SaveInv'
  <2>1. /\ pages' = pages /\ calls' = calls
        /\ \A j \in Ids : j \notin removed' => rows'[j] = rows[j]
    BY <1>0, <1>14 DEF Delete, TypeOK
  <2> QED BY <1>0, <1>1, <2>1, KeptSame
<1>15. ASSUME UNCHANGED vars PROVE SaveInv'
  <2>1. rows' = rows /\ pages' = pages /\ calls' = calls /\ removed' = removed
    BY <1>15 DEF vars
  <2> QED BY <1>0, <1>1, <2>1, KeptSame
<1> QED
  BY <1>2, <1>3, <1>4, <1>5, <1>7, <1>8, <1>9, <1>10, <1>11, <1>12, <1>13, <1>14, <1>15
     DEF Next, Serve, Receive, Pages

\* An acknowledged save is stored in both halves, unless a later one took its place.
THEOREM AcknowledgedSavesStay == Spec => []SavesKept
<1>1. Init => SaveInv
  BY DEF Init, SaveInv
<1>2. IInv /\ SaveInv => SavesKept
  <2> SUFFICES ASSUME IInv, SaveInv, NEW p \in Pages,
                      pages[p].acked # 0, ~pages[p].late, pages[p].id \notin removed
               PROVE  /\ pages[p].id \in Stored /\ Kept(pages[p].id, p, pages[p].acked)
    BY DEF SavesKept, Kept
  <2>1. PageInv(p)
    BY DEF IInv
  <2>2. pages[p].id \in Ids /\ Holds(pages[p].id, pages[p].plan)
    BY <2>1 DEF PageInv
  <2> QED BY <2>2 DEF Holds, Stored, SaveInv
<1>3. IInv /\ SaveInv /\ [Next]_vars => SaveInv'
  BY SavesStep
<1> QED BY <1>1, <1>2, <1>3, Invariant, PTL DEF Spec
=============================================================================
