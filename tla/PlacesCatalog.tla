----------------------------- MODULE PlacesCatalog -----------------------------
(***************************************************************************)
(* The places catalog: immutable generations that operators stage, switch  *)
(* to and recover from (backend/app/catalog/ingest.py,                     *)
(* calendar_enrichment.py, release_holds.py), and the paged lookup of a    *)
(* route search that reads them meanwhile (catalog/repository.py,          *)
(* admission.py, routing/sources/persona_candidates.py).                   *)
(* Places are numbered in the order (distance, source id) of the pages.    *)
(* Every write runs in one transaction under the same advisory lock, so it *)
(* is one step.                                                            *)
(***************************************************************************)
EXTENDS HoldResolution

CONSTANTS
  Places,      \* 1..n
  Pilot,       \* places that need a current admission contract, and may be held
  Bases,       \* generations imported whole; a generation is named by its manifest
  Children,    \* generations derived from a parent by a calendar enrichment
  Parent,      \* of each child
  Rows,        \* of each base; of each child, the rows it adds
  Shut,        \* places whose visit calendar in this artifact is unusable
  Updated,     \* of each child, the places its artifact has a calendar for
  Recorded,    \* of each base and child, what is recorded of each of its rows
  Entries,     \* reviewed exceptions to holds, by name
  Points,      \* search points
  Near,        \* of each point, the places within its radius
  Tight,       \* places that fit the trip only with the shortest visit
  PageSize, PoolSize,
  Changes,     \* bound on catalog releases, holds and expiries
  NoGeneration

ASSUME CatalogAssumption ==
  /\ Places \subseteq Nat \ {0} /\ IsFiniteSet(Places) /\ Pilot \cup Tight \subseteq Places
  /\ \A g \in Bases \cup Children : \A p \in Rows[g] :
       FactsTyped(Recorded[g][p].facts) /\ Recorded[g][p].facts.region # Omitted
  /\ Parent \in [Children -> Bases] /\ Bases \cap Children = {} /\ NoGeneration \notin Bases \cup Children
  /\ Rows \in [Bases \cup Children -> SUBSET Places] /\ \A b \in Bases : Rows[b] # {}
  /\ \A c \in Children : Rows[c] \cap Rows[Parent[c]] = {} /\ Updated[c] \subseteq Rows[c] \cup Rows[Parent[c]]
  /\ Updated \in [Children -> SUBSET Places]
  /\ Shut \in [Bases \cup Children -> SUBSET Places]
  /\ Near \in [Points -> SUBSET Places] /\ {PageSize, PoolSize} \subseteq Nat \ {0} /\ Changes \in Nat

ASSUME NoGenerationAssumption == NoGeneration \notin [rows : SUBSET Places, shut : SUBSET Places, moved : SUBSET Places]

Generations == Bases \cup Children

VARIABLES
  imports,     \* by generation, the rows it has, those that are shut and moved; NoGeneration before staging
  active,      \* places_catalog_active
  receipts,    \* frozen recovery receipts, by child
  held,        \* the pinned hold list of the deployed release
  registry,    \* the names of its pinned exceptions
  expired,     \* places whose admission contract has run out
  changes,
  walk         \* the paged lookup of the running search

catalog == <<imports, active, receipts, held, registry, expired, changes>>
catalogVars == <<catalog, walk>>

Content == [rows : SUBSET Places, shut : SUBSET Places, moved : SUBSET Places]
Idle == [at |-> "idle", point |-> NoGeneration, gen |-> NoGeneration, after |-> 0, scanned |-> 0,
         page |-> {}, fit |-> {}, tight |-> {}]

Change == changes < Changes /\ changes' = changes + 1
Staged(g) == imports[g] # NoGeneration

-----------------------------------------------------------------------------
(* Releases *)

\* Rows are immutable: a child has its own and those of its parent.
RowsOf(g) == Rows[g] \cup (IF g \in Children THEN Rows[Parent[g]] ELSE {})
Row(g, p) == IF g \in Bases \/ p \in Rows[g] THEN Recorded[g][p] ELSE Recorded[Parent[g]][p]
\* places_catalog_calendars: a child's calendars are kept beside its rows.
Imported(g, p) == g \in Children /\ p \in Updated[g]

Exceptions(names) == {Entries[n] : n \in names}

\* release_holds.reject: a held row refuses the whole generation; of an enrichment it reads the prepared rows.
Unheld(g, rows) == \A p \in rows : ~Blocked(Row(g, p), held, Exceptions(registry))
\* check_generation, in the database.
Clear(g) == \A p \in imports[g].rows : ~SqlBlocked(Row(g, p), Imported(g, p), held, Exceptions(registry))

BaseContent(g) == [rows |-> Rows[g], shut |-> Shut[g] \cap Rows[g], moved |-> {p \in Rows[g] : Row(g, p).facts.moved}]

\* A first release, on an empty catalog or with one import in service, whatever it holds.
CatalogInit ==
  /\ \E first \in Bases \cup {NoGeneration} :
       /\ imports = [g \in Generations |-> IF g = first THEN BaseContent(g) ELSE NoGeneration]
       /\ active = first
  /\ held \in SUBSET Pilot /\ registry \in SUBSET DOMAIN Entries /\ RegistryStands(Exceptions(registry), held)
  /\ receipts = {} /\ expired = {} /\ changes = 0
  /\ walk = Idle

\* _expected: the parent's rows and calendars, the additions, and the artifact's entries over both.
ChildContent(c) ==
  LET parent == imports[Parent[c]]
  IN [rows |-> parent.rows \cup Rows[c],
      shut |-> (parent.shut \ Updated[c]) \cup (Shut[c] \cap Updated[c]), moved |-> parent.moved]

\* ingest.stage; staging the same manifest again changes nothing.
StageBase(g) ==
  /\ Change /\ ~Staged(g) /\ Unheld(g, Rows[g])
  /\ imports' = [imports EXCEPT ![g] = BaseContent(g)]
  /\ UNCHANGED <<active, receipts, held, registry, expired, walk>>

\* ingest.activate: to any staged generation, a child's included.
Activate(g) ==
  /\ Change /\ Staged(g) /\ Clear(g)
  /\ active' = g
  /\ UNCHANGED <<imports, receipts, held, registry, expired, walk>>

\* calendar_enrichment.stage: the parent is active and still what the artifact was prepared from.
StageChild(c) ==
  /\ Change /\ ~Staged(c) /\ active = Parent[c]
  /\ imports[active] = BaseContent(active) /\ Unheld(c, Rows[active] \cup Rows[c])
  /\ imports' = [imports EXCEPT ![c] = ChildContent(c)]
  /\ UNCHANGED <<active, receipts, held, registry, expired, walk>>

\* calendar_enrichment.activate, forward or back, between a parent and its child only.
Switch(c, target) ==
  /\ Change /\ Staged(c) /\ active \in {Parent[c], c} /\ target \in {Parent[c], c}
  /\ imports[c] = ChildContent(c) /\ Unheld(target, imports[target].rows)
  /\ active' = target
  /\ UNCHANGED <<imports, receipts, held, registry, expired, walk>>

\* recovery_receipt
Freeze(c) ==
  /\ c \notin receipts /\ Staged(c) /\ imports[c] = ChildContent(c)
  /\ receipts' = receipts \cup {c}
  /\ UNCHANGED <<imports, active, held, registry, expired, changes, walk>>

\* rollback: by receipt alone, without preparing the artifact again.
Rollback(c) ==
  /\ Change /\ c \in receipts /\ active \in {Parent[c], c}
  /\ Clear(Parent[c]) /\ imports[Parent[c]].rows \subseteq imports[c].rows
  /\ active' = Parent[c]
  /\ UNCHANGED <<imports, receipts, held, registry, expired, walk>>

\* A release with a longer hold list or one more exception, which must all stand for it to start;
\* the process restarts and its searches with it.
Deploy(holds, names) ==
  /\ Change /\ RegistryStands(Exceptions(names), holds)
  /\ held' = holds /\ registry' = names /\ walk' = Idle
  /\ UNCHANGED <<imports, active, receipts, expired>>
Release ==
  \/ \E p \in Pilot \ held : Deploy(held \cup {p}, registry)
  \/ \E n \in DOMAIN Entries \ registry : Deploy(held, registry \cup {n})

Expire(p) ==
  /\ Change /\ p \in Pilot \ expired
  /\ expired' = expired \cup {p}
  /\ UNCHANGED <<imports, active, receipts, held, registry, walk>>

-----------------------------------------------------------------------------
(* The paged lookup *)

\* admission_details: of the rows of each generation, those that need no contract or carry one for routing.
Routable ==
  [g \in Generations |-> {p \in RowsOf(g) :
     LET f == Row(g, p).facts
     IN p \in Pilot \/ f.contracts # {} =>
          \E c \in f.contracts : f.contracts = {c} /\ c.id = f.id /\ c.approved /\ c.tier = "T3" /\ c.gates = Gates}]

\* What a search reads of each row.
Projected == [g \in Generations |-> [p \in RowsOf(g) |-> Projection(Row(g, p), Imported(g, p))]]

\* admission.routing_eligible, of what was read of a place, and the same in the database.
Contracted(g, p) == p \in Routable[g] \ expired
Admitted(g, p) == Contracted(g, p) /\ ~Blocked(Projected[g][p], held, Exceptions(registry))
SqlAdmitted(g, p) == Contracted(g, p) /\ ~SqlBlocked(Row(g, p), Imported(g, p), held, Exceptions(registry))

\* Rows of a generation that a page may return.
Eligible(g, point) == {p \in (imports[g].rows \ imports[g].shut) \cap Near[point] : SqlAdmitted(g, p)}

First(S, n) == {p \in S : Cardinality({q \in S : q < p}) < n}
Last(S) == CHOOSE p \in S : \A q \in S : q <= p

StartWalk(point) == walk' = [Idle EXCEPT !.at = "asking", !.point = point]

\* Seeded bug: a page reads whatever generation is active.
Latest == active
\* COALESCE(cursor's generation, the active one)
Pinned == IF walk.gen = NoGeneration THEN active ELSE walk.gen

\* nearby_page; without an active generation the page is empty.
ReadPage ==
  LET page == IF Pinned = NoGeneration THEN {}
              ELSE First({p \in Eligible(Pinned, walk.point) : p > walk.after}, PageSize)
  IN /\ walk.at = "asking"
     /\ walk' = [walk EXCEPT !.at = "page", !.page = page, !.gen = IF page = {} THEN @ ELSE Pinned,
                             !.scanned = @ + Cardinality(page)]
     /\ UNCHANGED catalog

\* _trip_attractions keeps what still qualifies; a short page, or all rows seen, ends the walk.
TakePage ==
  LET good == {p \in walk.page : Admitted(walk.gen, p)}
      fit == First(walk.fit \cup (good \ Tight), PoolSize)
      tight == First(walk.tight \cup (good \cap Tight), PoolSize)
      more == /\ Cardinality(walk.page) = PageSize /\ Cardinality(fit) < PoolSize
              /\ walk.scanned < Cardinality(imports[walk.gen].rows)
  IN /\ walk.at = "page"
     /\ walk' = IF more THEN [walk EXCEPT !.at = "asking", !.after = Last(walk.page), !.page = {},
                                          !.fit = fit, !.tight = tight]
                ELSE [walk EXCEPT !.at = "done", !.page = {}, !.fit = fit,
                                  !.tight = First(tight, PoolSize - Cardinality(fit))]
     /\ UNCHANGED catalog

\* nearby_page's own check: more rows were seen than the generation has.
Overrun == walk.gen # NoGeneration /\ walk.scanned > Cardinality(imports[walk.gen].rows)

Found == walk.fit \cup walk.tight

CatalogStep ==
  \/ \E g \in Generations : Activate(g)
  \/ \E g \in Bases : StageBase(g)
  \/ \E c \in Children : StageChild(c) \/ Freeze(c) \/ Rollback(c) \/ \E g \in Generations : Switch(c, g)
  \/ \E p \in Places : Expire(p)

-----------------------------------------------------------------------------
(* Properties *)

CatalogTypeOK ==
  /\ imports \in [Generations -> Content \cup {NoGeneration}]
  /\ active \in Generations \cup {NoGeneration} /\ receipts \subseteq Children
  /\ held \subseteq Pilot /\ registry \subseteq DOMAIN Entries /\ expired \subseteq Places /\ changes \in 0..Changes
  /\ walk.at \in {"idle", "asking", "page", "done"} /\ walk.gen \in Generations \cup {NoGeneration}
  /\ walk.page \cup Found \subseteq Places /\ walk.scanned \in Nat

\* However many switches, holds and expiries happen between its pages, a search finds, up to its limit,
\* every place that its first page's generation had and that stayed eligible, none of another one's,
\* and its pages never add up to more rows than that generation has.
WalkComplete ==
  /\ ~Overrun
  /\ walk.gen # NoGeneration => Found \subseteq imports[walk.gen].rows \ imports[walk.gen].shut
  /\ walk.at = "done" /\ walk.gen # NoGeneration =>
       LET there == Eligible(walk.gen, walk.point)
       IN \/ Cardinality(Found) = PoolSize
          \/ there \subseteq Found
  /\ walk.at = "done" /\ walk.tight # {} => Eligible(walk.gen, walk.point) \ Tight \subseteq walk.fit

=============================================================================
