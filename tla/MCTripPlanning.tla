----------------------------- MODULE MCTripPlanning -----------------------------
(***************************************************************************)
(* A small instance of TripPlanning: a base catalog, an enrichment that    *)
(* adds a place and shuts another, and a later base with fewer places:     *)
(* one has moved and taken over the identity of the pilot place, the other *)
(* is admitted for browsing only.  The pilot place was first admitted for  *)
(* browsing, then promoted.                                                *)
(***************************************************************************)
EXTENDS TripPlanning, TLC

CONSTANTS b1, b2, c1, q1, q2

MCPlaces == 1..4
MCPilot == {1}
MCTight == {3}
MCParent == (c1 :> b1)
MCRows == (b1 :> {1, 2, 3}) @@ (b2 :> {2, 3}) @@ (c1 :> {4})
MCShut == (b1 :> {}) @@ (b2 :> {}) @@ (c1 :> {2})
MCUpdated == (c1 :> {2, 4})
MCNear == (q1 :> {1, 2, 4}) @@ (q2 :> {2, 3})
MCMatch == <<9, 8, 5, 0>>

Page == [checked |-> 4, of |-> "page"]
Contract(id, tier, gates, reviewed, expires) ==
  [id |-> id, tier |-> tier, approved |-> TRUE, gates |-> gates, reviewed |-> reviewed, expires |-> expires]
Ordinary(p, moved) ==
  [id |-> p, aliases |-> {}, region |-> "state", moved |-> moved, native |-> "facts", categories |-> {"daytime"},
   receipt |-> Page, contracts |-> {}, calendars |-> {}, history |-> {}]
Plain(p, moved) == [facts |-> Ordinary(p, moved), markers |-> {}]

Browsed(p) ==
  LET f == [Ordinary(p, FALSE) EXCEPT !.categories = {"catalog_browse"},
                                      !.contracts = {Contract(p, "T2", BaseGates, 0, 30)}]
  IN [f EXCEPT !.calendars = {BrowseHold(f)}]
Browse == Browsed(1)
Qualification ==
  [by |-> "qualification", previous |-> Browse, reviewed |-> 5, receipts |-> {Page}, zone |-> TRUE,
   calendar |-> [windows |-> {[opens |-> 9, closes |-> 17, nextday |-> FALSE]}, unknown |-> FALSE, receipts |-> {Page}],
   arrival |-> [role |-> "visitor_parking", public |-> TRUE, same |-> TRUE, moved |-> FALSE, receipts |-> {Page}],
   basis |-> [kind |-> "published_hours", receipts |-> {Page}]]
Routed(expires) ==
  [Browse EXCEPT !.categories = {"catalog_browse", "daytime"}, !.contracts = {Contract(1, "T3", Gates, 5, expires)},
                 !.calendars = {Qualification}, !.history = {Browse}]

Entry(f) ==
  LET e == [facts |-> f, ids |-> {1}, causes |-> {1}, renewed |-> FALSE]
  IN [facts |-> f, ids |-> {1}, causes |-> {1}, renewed |-> FALSE, marker |-> MarkerOf(e)]

\* The exception in service, one for the row before its promotion, and one that would renew its admission.
MCEntries == ("promoted" :> Entry(Routed(30)) @@ "browse" :> Entry(Browse) @@ "renewed" :> Entry(Routed(31)))

Promotion == [facts |-> Routed(30), markers |-> {Entry(Routed(30)).marker}]
MCRecorded ==
  (b1 :> (1 :> Promotion @@ 2 :> Plain(2, FALSE) @@ 3 :> Plain(3, FALSE))) @@
  (b2 :> (2 :> [facts |-> [Ordinary(2, TRUE) EXCEPT !.aliases = {1}], markers |-> {}] @@
          3 :> [facts |-> Browsed(3), markers |-> {}])) @@
  (c1 :> (4 :> Plain(4, FALSE)))
=============================================================================
