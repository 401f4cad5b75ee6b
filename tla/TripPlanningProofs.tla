---------------------------- MODULE TripPlanningProofs ----------------------------
(***************************************************************************)
(* Proofs about PlacesCatalog and TripPlanning, for any catalog, releases, *)
(* bounds and matches.  A staged generation never changes and the hold     *)
(* list only grows with a restart (CatalogInv, CatalogKept); the paged     *)
(* lookup covers what its generation has up to the last row it read        *)
(* (WalkInv); the trip's candidates, exclusions and budgets shrink         *)
(* together (PoolInv).                                                     *)
(***************************************************************************)
EXTENDS TripPlanning, FiniteSetTheorems, TLAPS

-----------------------------------------------------------------------------
(* Numbers and finite sets *)

LEMMA MinOfTwo ==
  ASSUME NEW a \in Int, NEW b \in Int
  PROVE  Min({a, b}) = IF a <= b THEN a ELSE b
<1> DEFINE least == IF a <= b THEN a ELSE b
<1>1. least \in {a, b} /\ \A y \in {a, b} : least =< y
  OBVIOUS
<1>2. \A x \in {a, b} : (\A y \in {a, b} : x =< y) => x = least
  OBVIOUS
<1> QED BY <1>1, <1>2 DEF Min

LEMMA LeastExists ==
  ASSUME NEW N \in SUBSET Nat, N # {}
  PROVE  \E m \in N : \A n \in N : m <= n
<1> DEFINE T == {1..n : n \in N}
<1>1. \A n \in N : 1..n \in FiniteSubsetsOf(Nat)
  <2> TAKE n \in N
  <2>1. IsFiniteSet(1..n) /\ 1..n \in SUBSET Nat
    BY FS_Interval
  <2> QED BY <2>1 DEF FiniteSubsetsOf
<1>2. T \subseteq FiniteSubsetsOf(Nat) /\ T # {}
  BY <1>1
<1>3. PICK x \in T : \A y \in T : ~ (<<y, x>> \in StrictSubsetOrdering(Nat))
  BY <1>2, FS_StrictSubsetOrderingWellFounded, WFMin
<1>4. PICK m \in N : x = 1..m
  OBVIOUS
<1>5. ASSUME NEW n \in N, n < m PROVE FALSE
  <2>1. 1..n \subseteq 1..m /\ 1..n # 1..m
    BY <1>5
  <2>2. 1..n \in SUBSET Nat /\ 1..m \in SUBSET Nat
    OBVIOUS
  <2>3. <<1..n, 1..m>> \in StrictSubsetOrdering(Nat)
    BY <2>1, <2>2 DEF StrictSubsetOrdering
  <2> QED BY <2>3, <1>3, <1>4
<1> QED BY <1>5

LEMMA GreatestExists ==
  ASSUME NEW N \in SUBSET Nat, N # {}, NEW bound \in Nat, \A n \in N : n <= bound
  PROVE  \E m \in N : \A n \in N : n <= m
<1> DEFINE M == {bound - n : n \in N}
<1>0. \A n \in N : bound - n \in Nat
  OBVIOUS
<1>1. M \in SUBSET Nat /\ M # {}
  BY <1>0
<1>2. PICK k \in M : \A l \in M : k <= l
  BY <1>1, LeastExists
<1>3. PICK m \in N : k = bound - m
  OBVIOUS
<1>4. \A n \in N : bound - m <= bound - n
  BY <1>2, <1>3
<1> QED BY <1>4

\* A set of places is finite, and so is its size.
LEMMA PlacesFinite ==
  ASSUME NEW S \in SUBSET Places
  PROVE  IsFiniteSet(S) /\ Cardinality(S) \in Nat
BY FS_Subset, FS_CardinalityType, CatalogAssumption

LEMMA PlacesSubset ==
  ASSUME NEW S \in SUBSET Places, NEW T \in SUBSET S
  PROVE  Cardinality(T) <= Cardinality(S) /\ (Cardinality(T) = Cardinality(S) => T = S)
BY PlacesFinite, FS_Subset

LEMMA PlacesDisjoint ==
  ASSUME NEW S \in SUBSET Places, NEW T \in SUBSET Places, S \cap T = {}
  PROVE  Cardinality(S \cup T) = Cardinality(S) + Cardinality(T)
<1>1. Cardinality(S \cup T) = Cardinality(S) + Cardinality(T) - Cardinality(S \cap T)
  BY PlacesFinite, FS_Union
<1>2. Cardinality(S \cap T) = 0
  BY FS_EmptySet
<1> QED BY <1>1, <1>2, PlacesFinite

LEMMA PlacesAdd ==
  ASSUME NEW S \in SUBSET Places, NEW p \in Places
  PROVE  /\ p \notin S => Cardinality(S \cup {p}) = Cardinality(S) + 1
         /\ p \in S => Cardinality(S \ {p}) = Cardinality(S) - 1
BY PlacesFinite, FS_AddElement, FS_RemoveElement

\* A set has subsets of every smaller size.
LEMMA SubsetOfSize ==
  ASSUME NEW S, IsFiniteSet(S), NEW n \in 0..Cardinality(S)
  PROVE  \E T \in SUBSET S : Cardinality(T) = n
<1>1. Cardinality(S) \in Nat /\ ExistsBijection(1..Cardinality(S), S)
  BY FS_CardinalityType
<1>2. PICK f : f \in Bijection(1..Cardinality(S), S)
  BY <1>1 DEF ExistsBijection
<1> DEFINE T == {f[i] : i \in 1..n}
           g == [i \in 1..n |-> f[i]]
<1>3. 1..n \subseteq 1..Cardinality(S)
  BY <1>1
<1>4. T \in SUBSET S
  BY <1>2, <1>3 DEF Bijection, Injection
<1>5. g \in Bijection(1..n, T)
  BY <1>2, <1>3 DEF Bijection, Injection, Surjection, IsInjective
<1>6. ExistsBijection(1..n, T)
  BY <1>5 DEF ExistsBijection
<1>7. Cardinality(T) = n
  BY <1>6, FS_CountingElements
<1> QED BY <1>4, <1>7

LEMMA SomeOfThem ==
  ASSUME NEW S \in SUBSET Places, NEW n \in Nat
  PROVE  /\ SomeOf(S, n) # {}
         /\ \A T \in SomeOf(S, n) : T \subseteq S /\ Cardinality(T) <= n
<1> DEFINE size == Min({n, Cardinality(S)})
<1>1. IsFiniteSet(S) /\ Cardinality(S) \in Nat
  BY PlacesFinite
<1>2. size \in 0..Cardinality(S) /\ size <= n
  BY <1>1, MinOfTwo
<1>3. \E T \in SUBSET S : Cardinality(T) = size
  BY <1>1, <1>2, SubsetOfSize
<1> QED BY <1>2, <1>3 DEF SomeOf

-----------------------------------------------------------------------------
(* The order of the pages *)

Below(S, p) == {q \in S : q < p}

LEMMA BelowCounts ==
  ASSUME NEW S \in SUBSET Places, NEW p \in Places, NEW q \in Places
  PROVE  /\ Below(S, p) \in SUBSET Places /\ Cardinality(Below(S, p)) \in Nat
         /\ q <= p => Cardinality(Below(S, q)) <= Cardinality(Below(S, p))
         /\ q < p /\ q \in S => Cardinality(Below(S, q)) < Cardinality(Below(S, p))
<1>0. p \in Nat /\ q \in Nat /\ \A r \in S : r \in Nat
  BY CatalogAssumption
<1>1. Below(S, p) \in SUBSET Places /\ Below(S, q) \in SUBSET Places
  BY DEF Below
<1>2. Cardinality(Below(S, p)) \in Nat /\ Cardinality(Below(S, q)) \in Nat
  BY <1>1, PlacesFinite
<1>3. ASSUME q <= p PROVE Cardinality(Below(S, q)) <= Cardinality(Below(S, p))
  <2>1. ASSUME NEW z \in S, z < q PROVE z < p
    BY <1>0, <1>3, <2>1
  <2>2. Below(S, q) \in SUBSET Below(S, p)
    BY <2>1 DEF Below
  <2> QED BY <1>1, <2>2, PlacesSubset
<1>4. ASSUME q < p, q \in S PROVE Cardinality(Below(S, q)) < Cardinality(Below(S, p))
  <2>0. /\ ~(q < q)
        /\ \A z \in S : z < q => z < p
    BY <1>0, <1>4
  <2>1. Below(S, q) \in SUBSET Below(S, p) /\ q \in Below(S, p) /\ q \notin Below(S, q)
    BY <1>0, <1>4, <2>0 DEF Below
  <2>2. /\ Cardinality(Below(S, q)) <= Cardinality(Below(S, p))
        /\ Cardinality(Below(S, q)) # Cardinality(Below(S, p))
    BY <1>1, <2>1, PlacesSubset
  <2> QED BY <1>2, <2>2
<1> QED BY <1>1, <1>2, <1>3, <1>4

\* A page has a last row.
LEMMA LastOf ==
  ASSUME NEW S \in SUBSET Places, S # {}
  PROVE  Last(S) \in S /\ \A q \in S : q <= Last(S)
<1> DEFINE N == {Cardinality(Below(S, p)) : p \in S}
<1>0. S \subseteq Nat
  BY CatalogAssumption
<1>1. \A p \in S : Cardinality(Below(S, p)) \in Nat /\ Cardinality(Below(S, p)) <= Cardinality(S)
  <2> TAKE p \in S
  <2>1. Below(S, p) \in SUBSET S
    BY DEF Below
  <2>2. Cardinality(Below(S, p)) \in Nat
    BY BelowCounts
  <2> QED BY <2>1, <2>2, PlacesSubset
<1>2. Cardinality(S) \in Nat
  BY PlacesFinite
<1>3. PICK k \in N : \A l \in N : l <= k
  <2>1. N \in SUBSET Nat /\ N # {} /\ \A l \in N : l <= Cardinality(S)
    BY <1>1
  <2> QED BY <2>1, <1>2, GreatestExists
<1>4. PICK m \in S : k = Cardinality(Below(S, m))
  OBVIOUS
<1>5. ASSUME NEW q \in S, ~(q <= m) PROVE FALSE
  <2>1. m < q
    BY <1>0, <1>5
  <2>2. Cardinality(Below(S, m)) < Cardinality(Below(S, q))
    BY <2>1, BelowCounts
  <2>3. Cardinality(Below(S, q)) <= Cardinality(Below(S, m))
    BY <1>3, <1>4
  <2> QED BY <1>1, <2>2, <2>3
<1>6. \E p \in S : \A q \in S : q <= p
  BY <1>5
<1> QED BY <1>6 DEF Last

\* First takes as many as it may, in order, and everything if that is fewer.
LEMMA FirstOf ==
  ASSUME NEW S \in SUBSET Places, NEW n \in Nat
  PROVE  /\ First(S, n) \subseteq S
         /\ Cardinality(First(S, n)) \in Nat /\ Cardinality(First(S, n)) <= n
         /\ \A p \in S \ First(S, n) : Cardinality(First(S, n)) = n /\ \A q \in First(S, n) : q < p
<1> DEFINE F == First(S, n)
<1>1. F = {p \in S : Cardinality(Below(S, p)) < n}
  BY DEF First, Below
<1>2. F \in SUBSET S /\ F \in SUBSET Places /\ S \subseteq Nat
  BY <1>1, CatalogAssumption
<1>3. Cardinality(F) \in Nat /\ \A p \in S : Cardinality(Below(S, p)) \in Nat
  BY <1>2, PlacesFinite, BelowCounts
<1> HIDE DEF F
<1>4. Cardinality(F) <= n
  <2>1. CASE F = {}
    BY <2>1, FS_EmptySet
  <2>2. CASE F # {}
    <3> DEFINE m == Last(F)
    <3>1. m \in F /\ \A q \in F : q <= m
      BY <1>2, <2>2, LastOf
    <3> HIDE DEF m
    <3>2. F \ {m} \in SUBSET Below(S, m)
      BY <1>2, <3>1 DEF Below
    <3>3. Cardinality(F \ {m}) <= Cardinality(Below(S, m))
      BY <1>2, <3>1, <3>2, BelowCounts, PlacesSubset
    <3>4. Cardinality(F \ {m}) = Cardinality(F) - 1
      BY <1>2, <3>1, PlacesAdd
    <3>5. Cardinality(Below(S, m)) < n
      BY <1>1, <3>1
    <3> QED BY <1>2, <1>3, <3>1, <3>3, <3>4, <3>5
  <2> QED BY <2>1, <2>2
<1>5. ASSUME NEW p \in S \ F, NEW q \in F PROVE q < p
  <2>1. q # p
    BY <1>5
  <2>2. ASSUME p < q PROVE FALSE
    <3>1. Cardinality(Below(S, p)) < Cardinality(Below(S, q)) /\ Cardinality(Below(S, q)) < n
      BY <1>1, <1>2, <2>2, BelowCounts
    <3>2. Cardinality(Below(S, p)) < n
      BY <1>2, <1>3, <3>1
    <3> QED BY <1>1, <1>5, <3>2
  <2> QED BY <1>2, <1>5, <2>1, <2>2
<1>6. ASSUME NEW p \in S \ F PROVE Cardinality(F) = n
  <2>1. S \ F \in SUBSET Nat /\ S \ F # {}
    BY <1>2, <1>6
  <2>2. PICK m \in S \ F : \A q \in S \ F : m <= q
    BY <2>1, LeastExists
  <2>3. ASSUME NEW q \in S, q < m PROVE q \in F
    BY <1>2, <2>2, <2>3
  <2>4. Below(S, m) \in SUBSET F
    BY <2>3 DEF Below
  <2>5. Cardinality(Below(S, m)) <= Cardinality(F) /\ ~(Cardinality(Below(S, m)) < n)
    BY <1>1, <1>2, <2>2, <2>4, PlacesSubset
  <2> QED BY <1>2, <1>3, <1>4, <2>2, <2>5
<1> QED BY <1>2, <1>3, <1>4, <1>5, <1>6 DEF F
-----------------------------------------------------------------------------
(* Holds and their exceptions *)

\* What a projection leaves of a row has the row's identities, and is the row again once an entry gives its region.
LEMMA ProjectionKeeps ==
  ASSUME NEW row, NEW e, FactsTyped(row.facts), row.facts.region # Omitted, e.marker.region = row.facts.region
  PROVE  /\ Identities(Projection(row, FALSE).facts) = Identities(row.facts)
         /\ Identities(Projection(row, TRUE).facts) = Identities(row.facts)
         /\ Canonical(Projection(row, FALSE), e) = row.facts
<1> DEFINE f == row.facts
           bare(imported) == [f EXCEPT !.region = Omitted, !.calendars = IF imported THEN {} ELSE @]
<1>1. /\ f = [field \in DOMAIN f |-> f[field]]
      /\ {"id", "aliases", "contracts", "region", "calendars"} \subseteq DOMAIN f
  BY DEF FactsTyped
<1>2. \A imported \in BOOLEAN :
        /\ Projection(row, imported).facts = bare(imported)
        /\ bare(imported).id = f.id /\ bare(imported).contracts = f.contracts /\ bare(imported).aliases = f.aliases
  BY <1>1 DEF Projection
<1>3. [bare(FALSE) EXCEPT !.region = IF @ = Omitted THEN f.region ELSE @] = f
  <2>1. \A field \in DOMAIN f :
          bare(FALSE)[field] = IF field = "region" THEN Omitted ELSE f[field]
    BY <1>1
  <2>2. DOMAIN bare(FALSE) = DOMAIN f
    BY <1>1
  <2> QED BY <1>1, <2>1, <2>2
<1>4. Canonical(Projection(row, FALSE), e) = f
  BY <1>2, <1>3 DEF Canonical
<1> QED BY <1>2, <1>4 DEF Identities

\* A row that the database finds free of holds, a search and the final check find free as well.
LEMMA HoldsAgree ==
  ASSUME NEW row, NEW imported \in BOOLEAN, NEW holds, NEW exceptions,
         FactsTyped(row.facts), row.facts.region # Omitted,
         RegistryStands(exceptions, holds), ~SqlBlocked(row, imported, holds, exceptions)
  PROVE  ~Blocked(Projection(row, imported), holds, exceptions)
<1>1. Identities(Projection(row, imported).facts) = Identities(row.facts)
  <2>1. [marker |-> [region |-> row.facts.region]].marker.region = row.facts.region
    OBVIOUS
  <2> QED BY <2>1, ProjectionKeeps
<1>2. CASE Identities(row.facts) \cap holds = {}
  BY <1>1, <1>2 DEF Blocked
<1>3. CASE Identities(row.facts) \cap holds # {}
  <2>1. imported = FALSE
    BY <1>3 DEF SqlBlocked, SqlResolved
  <2>2. PICK e \in exceptions : row.facts = e.facts /\ row.markers = {e.marker}
    BY <1>3 DEF SqlBlocked, SqlResolved
  <2>3. e.ids = Identities(row.facts) \cap holds /\ e.marker.region = row.facts.region
    <3>1. e.ids = Identities(e.facts) \cap holds /\ e.marker = MarkerOf(e)
      BY <2>2 DEF RegistryStands, EntryStands
    <3>2. MarkerOf(e).region = e.facts.region
      BY DEF MarkerOf
    <3> QED BY <2>2, <3>1, <3>2
  <2>4. Canonical(Projection(row, imported), e) = e.facts
    BY <2>1, <2>2, <2>3, ProjectionKeeps
  <2>5. Projection(row, imported).markers = {e.marker}
    BY <2>2 DEF Projection
  <2> QED BY <1>1, <2>3, <2>4, <2>5 DEF Blocked, Resolved
<1> QED BY <1>2, <1>3

\* An exception for a row that may be routed never outlasts the admission it was promoted from.
LEMMA ExceptionsRenewNothing ==
  ASSUME NEW row, NEW imported, NEW holds, NEW exceptions,
         RegistryStands(exceptions, holds), ~SqlBlocked(row, imported, holds, exceptions),
         Identities(row.facts) \cap holds # {},
         \E c \in row.facts.contracts : row.facts.contracts = {c} /\ c.tier = "T3"
  PROVE  /\ \E e \in exceptions : e.facts = row.facts /\ e.ids = Identities(row.facts) \cap holds
         /\ \E old \in row.facts.history : \A c \in row.facts.contracts, was \in old.contracts : was.expires >= c.expires
<1>1. PICK e \in exceptions : row.facts = e.facts
  BY DEF SqlBlocked, SqlResolved
<1>2. EntryStands(e, holds)
  BY DEF RegistryStands
<1>3. PICK c \in row.facts.contracts : row.facts.contracts = {c} /\ Promoted(row.facts, c)
  BY <1>1, <1>2 DEF EntryStands, Approved
<1>4. PICK old \in row.facts.history : Retains(row.facts, c, old)
  BY <1>3 DEF Promoted
<1>5. \A was \in old.contracts : was.expires >= c.expires
  BY <1>4 DEF Retains
<1> QED BY <1>1, <1>2, <1>3, <1>4, <1>5 DEF EntryStands

-----------------------------------------------------------------------------
(* The catalog *)

CatalogInv ==
  /\ imports \in [Generations -> Content \cup {NoGeneration}]
  /\ active \in Generations \cup {NoGeneration} /\ (active # NoGeneration => Staged(active))
  /\ receipts \subseteq Children /\ expired \subseteq Places /\ changes \in 0..Changes
  /\ held \subseteq Pilot /\ registry \subseteq DOMAIN Entries /\ RegistryStands(Exceptions(registry), held)
  /\ \A g \in Generations : Staged(g) => imports[g].rows = RowsOf(g)
  /\ \A c \in Children : (Staged(c) => Staged(Parent[c])) /\ (c \in receipts => Staged(c))

\* What no step but a release does: change a staged generation, the holds or their exceptions, take back an expiry.
CatalogKept ==
  /\ \A g \in Generations : Staged(g) => imports'[g] = imports[g]
  /\ UNCHANGED <<held, registry>> /\ expired \subseteq expired'

LEMMA StagedContent ==
  ASSUME CatalogInv, NEW g \in Generations, Staged(g)
  PROVE  /\ imports[g] \in Content
         /\ imports[g].rows \subseteq Places /\ imports[g].shut \subseteq Places /\ imports[g].moved \subseteq Places
BY DEF CatalogInv, Staged, Content

LEMMA BaseIsContent ==
  ASSUME NEW g \in Bases
  PROVE  /\ g \in Generations /\ BaseContent(g) \in Content /\ BaseContent(g) # NoGeneration
         /\ BaseContent(g).rows = RowsOf(g)
<1>1. g \in Generations /\ Rows[g] \in SUBSET Places /\ Shut[g] \in SUBSET Places /\ g \notin Children
  BY CatalogAssumption DEF Generations
<1>2. BaseContent(g) \in Content
  BY <1>1 DEF BaseContent, Content
<1>3. BaseContent(g).rows = RowsOf(g)
  BY <1>1 DEF BaseContent, RowsOf
<1> QED BY <1>1, <1>2, <1>3, NoGenerationAssumption DEF Content

LEMMA ChildIsContent ==
  ASSUME CatalogInv, NEW c \in Children, Staged(Parent[c])
  PROVE  /\ c \in Generations /\ ChildContent(c) \in Content /\ ChildContent(c) # NoGeneration
         /\ ChildContent(c).rows = RowsOf(c)
<1>1. /\ c \in Generations /\ Parent[c] \in Generations
      /\ Rows[c] \in SUBSET Places /\ Shut[c] \in SUBSET Places /\ Updated[c] \in SUBSET Places
  BY CatalogAssumption DEF Generations
<1>2. /\ imports[Parent[c]].rows \subseteq Places /\ imports[Parent[c]].shut \subseteq Places
      /\ imports[Parent[c]].moved \subseteq Places
  BY <1>1, StagedContent
<1>3. ChildContent(c) \in Content
  BY <1>1, <1>2 DEF ChildContent, Content
<1>4. imports[Parent[c]].rows = Rows[Parent[c]]
  <2>1. Parent[c] \in Generations /\ Parent[c] \notin Children
    BY <1>1, CatalogAssumption
  <2>2. imports[Parent[c]].rows = RowsOf(Parent[c])
    BY <2>1 DEF CatalogInv
  <2>3. RowsOf(Parent[c]) = Rows[Parent[c]]
    BY <2>1 DEF RowsOf
  <2> QED BY <2>2, <2>3
<1>5. ChildContent(c).rows = RowsOf(c)
  BY <1>4 DEF ChildContent, RowsOf
<1> QED BY <1>1, <1>3, <1>5, NoGenerationAssumption DEF Content

\* A generation gets its content once.
LEMMA StagingKeeps ==
  ASSUME CatalogInv, NEW g \in Generations, ~Staged(g), g \in Children => Staged(Parent[g]),
         NEW r \in Content, r # NoGeneration, r.rows = RowsOf(g),
         imports' = [imports EXCEPT ![g] = r], UNCHANGED <<active, receipts, held, registry, expired>>, Change
  PROVE  CatalogInv' /\ CatalogKept
<1>1. imports' \in [Generations -> Content \cup {NoGeneration}]
  BY DEF CatalogInv
<1>2. \A h \in Generations : Staged(h) => imports'[h] = imports[h]
  BY DEF CatalogInv, Staged
<1>3. \A h \in Generations : Staged(h) => Staged(h)'
  BY <1>2 DEF Staged
<1>4. changes' \in 0..Changes
  BY CatalogAssumption DEF Change, CatalogInv
<1>5. \A c \in Children : c \in Generations /\ Parent[c] \in Generations
  BY CatalogAssumption DEF Generations
<1>6. ASSUME NEW c \in Children, Staged(c)' PROVE Staged(Parent[c])'
  <2>1. Staged(c) \/ c = g
    BY <1>5, <1>6 DEF CatalogInv, Staged
  <2>2. Staged(Parent[c])
    BY <1>6, <2>1 DEF CatalogInv, Staged
  <2> QED BY <1>3, <1>5, <2>2
<1>7. \A c \in Children : c \in receipts' => Staged(c)'
  BY <1>3, <1>5 DEF CatalogInv
<1>8. \A h \in Generations : Staged(h)' => imports'[h].rows = RowsOf(h)
  BY DEF CatalogInv, Staged
<1>9. RegistryStands(Exceptions(registry), held)'
  BY DEF CatalogInv, Exceptions
<1> QED BY <1>1, <1>2, <1>3, <1>4, <1>6, <1>7, <1>8, <1>9 DEF CatalogInv, CatalogKept

\* Switches, receipts, releases and expiries leave the generations alone.
LEMMA SwitchingKeeps ==
  ASSUME CatalogInv, UNCHANGED imports, active' = active \/ (active' \in Generations /\ Staged(active')),
         receipts' \subseteq Children, \A c \in receipts' : Staged(c), expired' \subseteq Places,
         held' \subseteq Pilot, registry' \subseteq DOMAIN Entries, RegistryStands(Exceptions(registry), held)',
         expired \subseteq expired', changes' = changes \/ Change
  PROVE  CatalogInv' /\ (UNCHANGED <<held, registry>> => CatalogKept)
<1>1. changes' \in 0..Changes
  BY CatalogAssumption DEF Change, CatalogInv
<1>2. active' \in Generations \cup {NoGeneration} /\ (active' # NoGeneration => imports'[active'] # NoGeneration)
  BY DEF CatalogInv, Staged
<1>3. \A g \in Generations : Staged(g)' => imports'[g].rows = RowsOf(g)
  BY DEF CatalogInv, Staged
<1> QED BY <1>1, <1>2, <1>3 DEF CatalogInv, CatalogKept, Staged

\* The holds and the exceptions of the release that runs.
LEMMA SameRelease ==
  ASSUME CatalogInv, UNCHANGED <<held, registry>>
  PROVE  held' \subseteq Pilot /\ registry' \subseteq DOMAIN Entries /\ RegistryStands(Exceptions(registry), held)'
BY DEF CatalogInv, Exceptions

LEMMA CatalogSteps ==
  ASSUME CatalogInv, CatalogStep
  PROVE  CatalogInv' /\ CatalogKept /\ UNCHANGED walk
<1> USE DEF CatalogInv
<1>1. ASSUME NEW g \in Generations, Activate(g) PROVE CatalogInv' /\ CatalogKept /\ UNCHANGED walk
  BY <1>1, SameRelease, SwitchingKeeps DEF Activate
<1>2. ASSUME NEW g \in Bases, StageBase(g) PROVE CatalogInv' /\ CatalogKept /\ UNCHANGED walk
  BY <1>2, StagingKeeps, BaseIsContent, CatalogAssumption DEF StageBase
<1>3. ASSUME NEW c \in Children, StageChild(c) PROVE CatalogInv' /\ CatalogKept /\ UNCHANGED walk
  <2>1. Staged(Parent[c])
    BY <1>3, CatalogAssumption DEF StageChild, Generations
  <2> QED BY <1>3, <2>1, StagingKeeps, ChildIsContent DEF StageChild
<1>4. ASSUME NEW c \in Children, Freeze(c) PROVE CatalogInv' /\ CatalogKept /\ UNCHANGED walk
  BY <1>4, SameRelease, SwitchingKeeps DEF Freeze
<1>5. ASSUME NEW c \in Children, Rollback(c) PROVE CatalogInv' /\ CatalogKept /\ UNCHANGED walk
  <2>1. Staged(Parent[c]) /\ Parent[c] \in Generations
    BY <1>5, CatalogAssumption DEF Rollback, Generations, Staged
  <2> QED BY <1>5, <2>1, SameRelease, SwitchingKeeps DEF Rollback
<1>6. ASSUME NEW c \in Children, NEW g \in Generations, Switch(c, g)
      PROVE CatalogInv' /\ CatalogKept /\ UNCHANGED walk
  <2>1. Staged(g)
    BY <1>6, CatalogAssumption DEF Switch, Generations, Staged
  <2> QED BY <1>6, <2>1, SameRelease, SwitchingKeeps DEF Switch
<1>7. ASSUME NEW p \in Places, Expire(p) PROVE CatalogInv' /\ CatalogKept /\ UNCHANGED walk
  BY <1>7, SameRelease, SwitchingKeeps DEF Expire
<1> QED BY <1>1, <1>2, <1>3, <1>4, <1>5, <1>6, <1>7 DEF CatalogStep

\* What the database admits, a search and the final check admit as well.
LEMMA AdmittedAlike ==
  ASSUME CatalogInv, NEW g \in Generations, Staged(g), NEW p \in imports[g].rows, SqlAdmitted(g, p)
  PROVE  Admitted(g, p)
<1>1. p \in RowsOf(g)
  BY DEF CatalogInv
<1>2. FactsTyped(Row(g, p).facts) /\ Row(g, p).facts.region # Omitted
  BY <1>1, CatalogAssumption DEF Row, RowsOf, Generations
<1>3. Imported(g, p) \in BOOLEAN
  BY DEF Imported
<1>4. RegistryStands(Exceptions(registry), held) /\ ~SqlBlocked(Row(g, p), Imported(g, p), held, Exceptions(registry))
  BY DEF CatalogInv, SqlAdmitted
<1>5. ~Blocked(Projection(Row(g, p), Imported(g, p)), held, Exceptions(registry))
  BY <1>2, <1>3, <1>4, HoldsAgree
<1>6. Projected[g][p] = Projection(Row(g, p), Imported(g, p))
  BY <1>1 DEF Projected
<1> QED BY <1>5, <1>6 DEF SqlAdmitted, Admitted

-----------------------------------------------------------------------------
(* The paged lookup *)

WalkType ==
  walk \in [at : {"idle", "asking", "page", "done"}, point : Points \cup {NoGeneration},
            gen : Generations \cup {NoGeneration}, after : Nat, scanned : Nat,
            page : SUBSET Places, fit : SUBSET Places, tight : SUBSET Places]

Upto(g, n) == {p \in imports[g].rows : p <= n}

\* Found, or one of more tight places than the walk keeps.
Covered(p) == p \in Found \/ (p \in Tight /\ Cardinality(walk.tight) = PoolSize)

\* What the walk holds is of its generation.
WalkPinned ==
  /\ walk.fit \cap Tight = {} /\ walk.tight \subseteq Tight
  /\ walk.at \in {"asking", "done"} => walk.page = {}
  /\ walk.gen = NoGeneration =>
       walk.page = {} /\ Found = {} /\ walk.scanned = 0 /\ walk.after = 0
  /\ walk.gen # NoGeneration =>
       /\ Staged(walk.gen) /\ walk.page \cup Found \subseteq imports[walk.gen].rows \ imports[walk.gen].shut
       /\ walk.scanned <= Cardinality(imports[walk.gen].rows)

\* Between the pages everything up to the last row read is covered, and the page begins after that row.
WalkCovers ==
  walk.at \in {"asking", "page"} =>
    /\ Cardinality(walk.fit) < PoolSize
    /\ walk.gen # NoGeneration =>
         /\ \A p \in walk.page : walk.after < p
         /\ walk.scanned <= Cardinality(Upto(walk.gen, walk.after)) + Cardinality(walk.page)
         /\ \A p \in Eligible(walk.gen, walk.point) : p <= walk.after => Covered(p)

\* A page leaves rows out only when it is full, and then later ones only.
PageCovers ==
  walk.at = "page" /\ walk.gen # NoGeneration =>
    \A p \in Eligible(walk.gen, walk.point) :
      walk.after < p => \/ p \in walk.page
                        \/ Cardinality(walk.page) = PageSize /\ \A q \in walk.page : q < p

WalkInv == WalkType /\ WalkPinned /\ WalkCovers /\ PageCovers /\ WalkComplete

LEMMA EmptyPool == Cardinality({}) < PoolSize
BY FS_EmptySet, CatalogAssumption

LEMMA IdleWalk ==
  ASSUME walk' = Idle \/ \E point \in Points : walk' = [Idle EXCEPT !.at = "asking", !.point = point]
  PROVE  WalkInv'
<1>1. CASE walk' = Idle
  <2>1. WalkType'
    BY <1>1 DEF WalkType, Idle
  <2>2. /\ walk'.at = "idle" /\ walk'.gen = NoGeneration /\ walk'.after = 0 /\ walk'.scanned = 0
        /\ walk'.page = {} /\ walk'.fit = {} /\ walk'.tight = {}
    BY <1>1 DEF Idle
  <2> QED BY <2>1, <2>2 DEF WalkInv, WalkPinned, WalkCovers, PageCovers, WalkComplete, Overrun, Found
<1>2. ASSUME NEW point \in Points, walk' = [Idle EXCEPT !.at = "asking", !.point = point] PROVE WalkInv'
  <2>1. WalkType'
    BY <1>2 DEF WalkType, Idle
  <2>2. /\ walk'.at = "asking" /\ walk'.gen = NoGeneration /\ walk'.after = 0 /\ walk'.scanned = 0
        /\ walk'.page = {} /\ walk'.fit = {} /\ walk'.tight = {}
    BY <1>2 DEF Idle
  <2>3. Cardinality(walk'.fit) < PoolSize
    BY <2>2, EmptyPool, Zenon
  <2> QED BY <2>1, <2>2, <2>3 DEF WalkInv, WalkPinned, WalkCovers, PageCovers, WalkComplete, Overrun, Found
<1> QED BY <1>1, <1>2

\* What a generation has that is eligible only shrinks, so a step of the catalog uncovers nothing.
LEMMA WalkStays ==
  ASSUME WalkInv, CatalogInv, CatalogKept, UNCHANGED walk
  PROVE  WalkInv'
<1> DEFINE g == walk.gen
           there == Eligible(g, walk.point)
<1>1. CASE g = NoGeneration
  BY <1>1 DEF WalkInv, WalkType, WalkPinned, WalkCovers, PageCovers, WalkComplete, Overrun, Found
<1>2. CASE g # NoGeneration
  <2>1. g \in Generations /\ Staged(g) /\ imports'[g] = imports[g] /\ g' = g
    BY <1>2 DEF WalkInv, WalkType, WalkPinned, CatalogKept
  <2>2. Eligible(walk.gen, walk.point)' \subseteq there
    BY <2>1 DEF Eligible, SqlAdmitted, Contracted, Exceptions, CatalogKept
  <2>3. WalkType' /\ WalkPinned' /\ Upto(walk.gen, walk.after)' = Upto(g, walk.after)
    BY <2>1, <1>2 DEF WalkInv, WalkType, WalkPinned, Staged, Found, Upto
  <2>4. WalkCovers' /\ PageCovers'
    BY <2>1, <2>2, <2>3, <1>2 DEF WalkInv, WalkCovers, PageCovers, Covered, Found
  <2>5. WalkComplete'
    BY <2>1, <2>2, <1>2 DEF WalkInv, WalkComplete, Overrun, Found
  <2> QED BY <2>3, <2>4, <2>5 DEF WalkInv
<1> QED BY <1>1, <1>2

LEMMA Reading ==
  ASSUME WalkInv, CatalogInv, ReadPage
  PROVE  WalkInv'
<1> DEFINE g == Pinned
           S == {p \in Eligible(g, walk.point) : p > walk.after}
           page == IF g = NoGeneration THEN {} ELSE First(S, PageSize)
<1>1. walk.at = "asking" /\ walk' = [walk EXCEPT !.at = "page", !.page = page,
         !.gen = IF page = {} THEN @ ELSE g, !.scanned = @ + Cardinality(page)]
  BY DEF ReadPage
<1>2. g \in Generations \cup {NoGeneration} /\ (g # NoGeneration => Staged(g))
  BY DEF Pinned, WalkInv, WalkType, WalkPinned, CatalogInv
<1>3. WalkType
  BY DEF WalkInv
<1>4. PageSize \in Nat \ {0} /\ Cardinality({}) = 0 /\ Places \subseteq Nat /\ NoGeneration \notin Generations
  BY CatalogAssumption, FS_EmptySet DEF Generations
<1>5. g # NoGeneration => S \in SUBSET Places
  BY <1>2, StagedContent DEF Eligible
<1>6. /\ page \in SUBSET Places /\ Cardinality(page) \in Nat
      /\ g # NoGeneration =>
           /\ page \subseteq S
           /\ \A p \in S : p \in page \/ (Cardinality(page) = PageSize /\ \A q \in page : q < p)
  BY <1>4, <1>5, FirstOf, PlacesFinite
<1> HIDE DEF page
<1>7. /\ walk'.at = "page" /\ walk'.page = page /\ walk'.scanned = walk.scanned + Cardinality(page)
      /\ walk'.gen = (IF page = {} THEN walk.gen ELSE g)
      /\ walk'.after = walk.after /\ walk'.fit = walk.fit /\ walk'.tight = walk.tight /\ walk'.point = walk.point
  BY <1>1, <1>3 DEF WalkType
<1>8. WalkType'
  <2>1. walk.scanned + Cardinality(page) \in Nat /\ (IF page = {} THEN walk.gen ELSE g) \in Generations \cup {NoGeneration}
    BY <1>2, <1>3, <1>6 DEF WalkType
  <2> QED BY <1>1, <1>3, <1>6, <2>1 DEF WalkType
<1>9. CASE walk'.gen = NoGeneration
  <2>1. page = {} /\ walk.gen = NoGeneration
    BY <1>7, <1>9 DEF page
  <2>2. walk.scanned = 0 /\ walk.after = 0 /\ Found = {} /\ Cardinality(walk.fit) < PoolSize
    BY <2>1, <1>1 DEF WalkInv, WalkPinned, WalkCovers
  <2>3. WalkPinned' /\ WalkComplete'
    BY <2>1, <2>2, <1>4, <1>7, <1>9 DEF WalkPinned, WalkComplete, Overrun, Found, WalkInv
  <2> QED BY <2>2, <2>3, <1>7, <1>8, <1>9 DEF WalkInv, WalkCovers, PageCovers
<1>10. CASE walk'.gen # NoGeneration
  <2>1. g # NoGeneration /\ walk'.gen = g /\ Staged(g) /\ Staged(g)' /\ imports' = imports
    BY <1>2, <1>4, <1>7, <1>10 DEF page, Pinned, ReadPage, catalog, Staged
  <2>2. /\ walk.gen # NoGeneration => walk.gen = g
        /\ walk.gen = NoGeneration => Found = {} /\ walk.scanned = 0 /\ walk.after = 0
        /\ walk.scanned \in Nat /\ walk.after \in Nat
    BY DEF Pinned, WalkInv, WalkType, WalkPinned
  <2> DEFINE R == imports[g].rows
             U == Upto(g, walk.after)
             E == Eligible(g, walk.point)
  <2>3. R \in SUBSET Places /\ U \in SUBSET R /\ U \in SUBSET Places /\ E \subseteq R \ imports[g].shut
    BY <2>1, <1>2, StagedContent DEF Upto, Eligible
  <2>4. /\ Cardinality(U) \in Nat /\ Cardinality(R) \in Nat
        /\ \A p \in page : p \in E /\ walk.after < p /\ ~(p <= walk.after) /\ p \in R
        /\ \A p \in U : p <= walk.after
    BY <2>1, <2>2, <2>3, <1>4, <1>6, PlacesFinite DEF Upto
  <2> HIDE DEF R, U, E
  <2>5. Cardinality(U) + Cardinality(page) <= Cardinality(R)
    <3>1. U \cap page = {} /\ U \cup page \in SUBSET R
      BY <2>3, <2>4
    <3>2. Cardinality(U \cup page) = Cardinality(U) + Cardinality(page)
      BY <3>1, <2>3, <1>6, PlacesDisjoint
    <3>3. Cardinality(U \cup page) <= Cardinality(R)
      BY <3>1, <2>3, PlacesSubset
    <3> QED BY <3>2, <3>3
  <2>6. walk.scanned <= Cardinality(U)
    <3>1. CASE walk.gen = NoGeneration
      BY <3>1, <2>2, <2>4
    <3>2. CASE walk.gen # NoGeneration
      <4>1. walk.page = {} /\ walk.scanned <= Cardinality(U) + Cardinality(walk.page)
        BY <3>2, <2>2, <1>1 DEF WalkInv, WalkCovers, WalkPinned, U
      <4> QED BY <4>1, <2>2, <2>4, <1>4
    <3> QED BY <3>1, <3>2
  <2>7. walk'.scanned <= Cardinality(U) + Cardinality(page) /\ walk'.scanned <= Cardinality(R)
    BY <2>2, <2>4, <2>5, <2>6, <1>6, <1>7
  <2>8. /\ Found' = Found /\ imports'[g] = imports[g] /\ Upto(walk.gen, walk.after)' = U
        /\ Eligible(walk.gen, walk.point)' = E
    BY <2>1, <1>7 DEF ReadPage, catalog, Found, Upto, Eligible, SqlAdmitted, Contracted, Exceptions, U, E
  <2>9. page \cup Found \subseteq R \ imports[g].shut
    BY <2>2, <2>3, <2>4 DEF WalkInv, WalkPinned, R
  <2>10. WalkPinned'
    <3>1. walk.fit \cap Tight = {} /\ walk.tight \subseteq Tight
      BY DEF WalkInv, WalkPinned
    <3>2. walk'.page \cup Found' \subseteq imports'[walk'.gen].rows \ imports'[walk'.gen].shut
      BY <2>1, <2>8, <2>9, <1>7 DEF R
    <3>3. walk'.scanned <= Cardinality(imports'[walk'.gen].rows)
      BY <2>1, <2>7 DEF R
    <3>4. Staged(walk.gen)'
      BY <2>1 DEF Staged
    <3> QED BY <3>1, <3>2, <3>3, <3>4, <1>7, <1>10 DEF WalkPinned
  <2>11. WalkCovers'
    <3>1. Cardinality(walk.fit) < PoolSize
      BY <1>1 DEF WalkInv, WalkCovers
    <3>2. ASSUME NEW p \in E, p <= walk.after PROVE Covered(p)'
      <4>1. Covered(p)
        <5>1. CASE walk.gen = NoGeneration
          <6>1. p \in Nat \ {0}
            BY <3>2, <2>3, CatalogAssumption
          <6> QED BY <5>1, <6>1, <3>2, <2>2
        <5>2. CASE walk.gen # NoGeneration
          BY <5>2, <3>2, <2>2, <1>1 DEF WalkInv, WalkCovers, E
        <5> QED BY <5>1, <5>2
      <4> QED BY <4>1, <1>7 DEF Covered, Found
    <3> QED BY <3>1, <3>2, <2>4, <2>7, <2>8, <1>7 DEF WalkCovers
  <2>12. PageCovers'
    <3>1. ASSUME NEW p \in E, walk.after < p
          PROVE p \in page \/ (Cardinality(page) = PageSize /\ \A q \in page : q < p)
      BY <3>1, <2>1, <1>6, <2>2, <2>3, <1>4 DEF E
    <3> SUFFICES ASSUME NEW p \in Eligible(walk.gen, walk.point)', walk'.after < p
                 PROVE  p \in walk'.page \/ (Cardinality(walk'.page) = PageSize /\ \A q \in walk'.page : q < p)
      BY DEF PageCovers
    <3> QED BY <3>1, <2>8, <1>7
  <2>13. WalkComplete'
    BY <2>1, <2>2, <2>4, <2>7, <2>8, <2>9, <1>7, <1>6 DEF WalkComplete, Overrun, R
  <2> QED BY <2>10, <2>11, <2>12, <2>13, <1>8 DEF WalkInv
<1> QED BY <1>9, <1>10

LEMMA Taking ==
  ASSUME WalkInv, CatalogInv, TakePage
  PROVE  WalkInv'
<1> DEFINE g == walk.gen
           good == {p \in walk.page : Admitted(g, p)}
           fit == First(walk.fit \cup (good \ Tight), PoolSize)
           pool == First(walk.tight \cup (good \cap Tight), PoolSize)
           tight == First(pool, PoolSize - Cardinality(fit))
           more == /\ Cardinality(walk.page) = PageSize /\ Cardinality(fit) < PoolSize
                   /\ walk.scanned < Cardinality(imports[g].rows)
           R == imports[g].rows
           U == Upto(g, walk.after)
           E == Eligible(g, walk.point)
<1>1. /\ walk.at = "page" /\ imports' = imports /\ UNCHANGED <<held, registry, expired>>
      /\ walk' = IF more THEN [walk EXCEPT !.at = "asking", !.after = Last(walk.page), !.page = {},
                                           !.fit = fit, !.tight = pool]
                 ELSE [walk EXCEPT !.at = "done", !.page = {}, !.fit = fit, !.tight = tight]
  BY DEF TakePage, catalog
<1>2. /\ PageSize \in Nat \ {0} /\ PoolSize \in Nat \ {0} /\ Places \subseteq Nat
      /\ NoGeneration \notin Generations
  BY CatalogAssumption DEF Generations
<1>3. WalkType /\ walk.page \in SUBSET Places /\ walk.fit \in SUBSET Places /\ walk.tight \in SUBSET Places
  BY DEF WalkInv, WalkType
<1>4. /\ fit \subseteq walk.fit \cup (good \ Tight) /\ fit \in SUBSET Places
      /\ Cardinality(fit) \in Nat /\ Cardinality(fit) <= PoolSize
      /\ \A p \in (walk.fit \cup (good \ Tight)) \ fit : Cardinality(fit) = PoolSize
  <2>1. walk.fit \cup (good \ Tight) \in SUBSET Places
    BY <1>3
  <2> QED BY <2>1, <1>2, FirstOf
<1>5. /\ pool \subseteq walk.tight \cup (good \cap Tight) /\ pool \in SUBSET Places
      /\ Cardinality(pool) \in Nat /\ Cardinality(pool) <= PoolSize
      /\ \A p \in (walk.tight \cup (good \cap Tight)) \ pool : Cardinality(pool) = PoolSize
  <2>1. walk.tight \cup (good \cap Tight) \in SUBSET Places
    BY <1>3
  <2> QED BY <2>1, <1>2, FirstOf
<1> HIDE DEF fit, pool
<1>6. /\ tight \subseteq pool /\ tight \in SUBSET Places
      /\ Cardinality(tight) \in Nat /\ Cardinality(tight) <= PoolSize - Cardinality(fit)
      /\ \A p \in pool \ tight : Cardinality(tight) = PoolSize - Cardinality(fit)
  <2>1. PoolSize - Cardinality(fit) \in Nat
    BY <1>2, <1>4
  <2> QED BY <2>1, <1>5, FirstOf
<1> HIDE DEF tight
<1>7. fit \cap Tight = {} /\ pool \subseteq Tight /\ fit \cup pool \subseteq walk.page \cup Found
  BY <1>4, <1>5 DEF WalkInv, WalkPinned, Found
<1>8. /\ walk'.page = {} /\ walk'.fit = fit /\ walk'.gen = g /\ walk'.point = walk.point
      /\ walk'.scanned = walk.scanned /\ walk'.tight \subseteq pool
      /\ more => walk'.at = "asking" /\ walk'.after = Last(walk.page) /\ walk'.tight = pool
      /\ ~more => walk'.at = "done" /\ walk'.tight = tight /\ walk'.after = walk.after
  <2>1. CASE more
    BY <2>1, <1>1, <1>3 DEF WalkType
  <2>2. CASE ~more
    BY <2>2, <1>1, <1>3, <1>6 DEF WalkType
  <2> QED BY <2>1, <2>2
<1>9. more => walk.page # {} /\ Last(walk.page) \in walk.page /\ Last(walk.page) \in Nat
               /\ \A p \in walk.page : p <= Last(walk.page)
  BY <1>2, <1>3, LastOf, FS_EmptySet
<1>10. WalkType'
  BY <1>1, <1>2, <1>3, <1>4, <1>5, <1>6, <1>9 DEF WalkType
<1>11. Eligible(walk.gen, walk.point)' = E /\ imports'[walk'.gen] = imports[g]
  BY <1>1, <1>8 DEF Eligible, SqlAdmitted, Contracted, Exceptions
<1>12. CASE g = NoGeneration
  <2>1. walk.page = {} /\ Found = {} /\ walk.scanned = 0 /\ walk.after = 0
    BY <1>12 DEF WalkInv, WalkPinned
  <2>2. Cardinality(walk.page) # PageSize
    BY <2>1, <1>2, FS_EmptySet
  <2>3. ~more /\ Found' = {}
    BY <2>1, <2>2, <1>7, <1>8 DEF Found
  <2> QED BY <2>1, <2>3, <1>7, <1>8, <1>10, <1>12
         DEF WalkInv, WalkPinned, WalkCovers, PageCovers, WalkComplete, Overrun, Found
<1>13. CASE g # NoGeneration
  <2>1. g \in Generations /\ Staged(g)
    BY <1>3, <1>13 DEF WalkInv, WalkPinned, WalkType
  <2>2. /\ R \in SUBSET Places /\ U \in SUBSET R /\ U \in SUBSET Places /\ E \subseteq R
        /\ \A p \in U : p <= walk.after
    BY <2>1, StagedContent DEF Upto, Eligible
  <2>3. /\ walk.page \cup Found \subseteq R \ imports[g].shut /\ walk.scanned \in Nat /\ walk.after \in Nat
        /\ walk.scanned <= Cardinality(R) /\ Cardinality(walk.fit) < PoolSize
        /\ \A p \in walk.page : walk.after < p
        /\ walk.scanned <= Cardinality(U) + Cardinality(walk.page)
    BY <1>1, <1>3, <1>13 DEF WalkInv, WalkPinned, WalkCovers, WalkType
  <2>4. /\ \A p \in E : Admitted(g, p) /\ (p <= walk.after => Covered(p))
        /\ \A p \in E : walk.after < p =>
             p \in walk.page \/ (Cardinality(walk.page) = PageSize /\ \A q \in walk.page : q < p)
    <3>1. \A p \in E : Admitted(g, p)
      BY <2>1, AdmittedAlike DEF Eligible
    <3>2. \A p \in E : p <= walk.after => Covered(p)
      BY <1>1, <1>13 DEF WalkInv, WalkCovers
    <3>3. \A p \in E : walk.after < p =>
            p \in walk.page \/ (Cardinality(walk.page) = PageSize /\ \A q \in walk.page : q < p)
      BY <1>1, <1>13 DEF WalkInv, PageCovers
    <3> QED BY <3>1, <3>2, <3>3
  <2> HIDE DEF E, R, U, good
  <2>5. U \cap walk.page = {} /\ U \cup walk.page \in SUBSET R /\ U \cup walk.page \in SUBSET Places
    <3>1. \A p \in U : p \notin walk.page
      BY <2>2, <2>3, <1>2
    <3> QED BY <3>1, <2>2, <2>3
  <2>6. /\ Cardinality(U \cup walk.page) = Cardinality(U) + Cardinality(walk.page)
        /\ Cardinality(U) \in Nat /\ Cardinality(walk.page) \in Nat /\ Cardinality(R) \in Nat
    BY <2>2, <2>5, <1>3, PlacesDisjoint, PlacesFinite
  <2>7. WalkPinned'
    <3>1. walk'.fit \cap Tight = {} /\ walk'.tight \subseteq Tight
      BY <1>7, <1>8
    <3>2. walk'.page \cup Found' \subseteq imports'[walk'.gen].rows \ imports'[walk'.gen].shut
      BY <2>3, <1>7, <1>8, <1>11 DEF Found, R
    <3>3. walk'.scanned <= Cardinality(imports'[walk'.gen].rows)
      BY <2>3, <1>8, <1>11 DEF R
    <3>4. Staged(walk.gen)'
      BY <2>1, <1>8, <1>11 DEF Staged
    <3> QED BY <3>1, <3>2, <3>3, <3>4, <1>8, <1>13 DEF WalkPinned
  <2>8. ASSUME NEW p \in E, p <= walk.after \/ p \in walk.page
        PROVE  \/ p \in fit \cup pool
               \/ p \in Tight /\ Cardinality(pool) = PoolSize
               \/ p \notin Tight /\ Cardinality(fit) = PoolSize
    <3>1. CASE p \in walk.fit \cup (good \ Tight)
      BY <3>1, <1>4 DEF WalkInv, WalkPinned
    <3>2. CASE p \in walk.tight \cup (good \cap Tight)
      BY <3>2, <1>5 DEF WalkInv, WalkPinned
    <3>3. CASE p \in Tight /\ Cardinality(walk.tight) = PoolSize
      <4>1. CASE walk.tight \subseteq pool
        BY <4>1, <3>3, <1>2, <1>5, PlacesSubset
      <4>2. CASE ~(walk.tight \subseteq pool)
        BY <4>2, <3>3, <1>5
      <4> QED BY <4>1, <4>2
    <3>4. p \in walk.page => p \in good
      BY <2>4 DEF good
    <3> QED BY <3>1, <3>2, <3>3, <3>4, <2>4, <2>8 DEF Covered, Found
  <2>9. CASE more
    <3> DEFINE last == Last(walk.page)
               U2 == Upto(g, last)
    <3>1. walk'.at = "asking" /\ walk'.after = last /\ walk'.tight = pool /\ last \in walk.page /\ last \in Nat
          /\ \A p \in walk.page : p <= last
      BY <2>9, <1>8, <1>9
    <3> HIDE DEF last
    <3>2. walk.after < last
      BY <3>1, <2>3
    <3>3. walk.scanned <= Cardinality(U2)
      <4>1. U \cup walk.page \in SUBSET U2
        <5>1. ASSUME NEW p \in U PROVE p <= last
          <6>1. p <= walk.after /\ p \in Nat
            BY <2>2, <1>2
          <6> QED BY <6>1, <3>1, <3>2, <2>3
        <5> QED BY <5>1, <3>1, <2>5 DEF Upto, R
      <4>2. U2 \in SUBSET Places
        BY <2>2 DEF Upto, R
      <4>3. Cardinality(U \cup walk.page) <= Cardinality(U2) /\ Cardinality(U2) \in Nat
        BY <4>1, <4>2, PlacesSubset, PlacesFinite
      <4> QED BY <4>3, <2>3, <2>6
    <3>4. ASSUME NEW p \in E, p <= last PROVE Covered(p)'
      <4>1. p \in Nat /\ (p <= walk.after \/ walk.after < p)
        BY <2>2, <2>3, <1>2
      <4>2. p \in walk.page \/ p <= walk.after
        BY <4>1, <3>1, <3>4, <2>4
      <4> QED BY <4>2, <2>8, <2>9, <3>1, <1>2, <1>4, <1>8 DEF Covered, Found
    <3>5. WalkCovers'
      <4>1. Upto(walk.gen, walk.after)' = U2
        BY <3>1, <1>8, <1>11 DEF Upto
      <4>2. Cardinality(walk'.page) = 0 /\ Cardinality(U2) \in Nat
        BY <1>8, FS_EmptySet, PlacesFinite, <2>2 DEF Upto, R
      <4>3. walk'.scanned <= Cardinality(U2) + Cardinality(walk'.page)
        BY <4>2, <3>3, <1>8, <2>3
      <4> QED BY <4>1, <4>3, <3>1, <3>4, <2>9, <1>8, <1>11 DEF WalkCovers
    <3>6. PageCovers' /\ WalkComplete'
      BY <3>1, <2>3, <2>7, <1>2, <1>8, <1>11, <2>6, <1>13 DEF PageCovers, WalkComplete, Overrun, WalkPinned, R
    <3> QED BY <3>5, <3>6, <2>7, <1>10 DEF WalkInv
  <2>10. CASE ~more
    <3>1. walk'.at = "done" /\ walk'.tight = tight
      BY <2>10, <1>8
    <3>2. /\ Cardinality(fit \cup tight) = Cardinality(fit) + Cardinality(tight)
          /\ Cardinality(tight) = 0 => tight = {}
      <4>1. fit \cap tight = {}
        BY <1>6, <1>7
      <4> QED BY <4>1, <1>4, <1>6, PlacesDisjoint, PlacesFinite, FS_EmptySet
    <3> DEFINE whole == /\ Cardinality(Found') = PoolSize \/ E \subseteq Found'
                        /\ walk'.tight # {} => E \ Tight \subseteq walk'.fit
    <3>3. ASSUME Cardinality(fit) = PoolSize PROVE whole
      <4>1. tight = {} /\ Cardinality(fit \cup tight) = PoolSize
        BY <3>2, <3>3, <1>2, <1>6
      <4> QED BY <4>1, <3>1, <1>8 DEF Found
    <3>4. ASSUME Cardinality(fit) < PoolSize PROVE whole
      <4>1. ASSUME NEW p \in E PROVE p <= walk.after \/ p \in walk.page
        <5>1. p \in Nat /\ (p <= walk.after \/ walk.after < p)
          BY <2>2, <2>3, <1>2
        <5>2. CASE Cardinality(walk.page) = PageSize
          <6>1. ~(walk.scanned < Cardinality(R))
            BY <2>10, <3>4, <5>2 DEF R
          <6>2. Cardinality(U \cup walk.page) = Cardinality(R)
            <7>1. Cardinality(U \cup walk.page) <= Cardinality(R)
              BY <2>2, <2>5, PlacesSubset
            <7> QED BY <7>1, <6>1, <2>3, <2>6
          <6>3. U \cup walk.page = R
            BY <6>2, <2>2, <2>5, PlacesSubset
          <6> QED BY <6>3, <2>2
        <5>3. CASE Cardinality(walk.page) # PageSize
          BY <5>1, <5>3, <2>4
        <5> QED BY <5>2, <5>3
      <4>2. \A p \in E : p \in fit \cup pool \/ (p \in Tight /\ Cardinality(pool) = PoolSize)
        BY <4>1, <2>8, <3>4, <1>2
      <4>3. E \ Tight \subseteq fit
        BY <4>2, <1>7
      <4>4. CASE pool \subseteq tight
        <5>1. pool = tight
          BY <4>4, <1>6
        <5>2. CASE Cardinality(pool) = PoolSize
          BY <5>1, <5>2, <4>3, <3>1, <3>2, <1>2, <1>4, <1>6, <1>8 DEF Found
        <5>3. CASE Cardinality(pool) # PoolSize
          BY <5>1, <5>3, <4>2, <4>3, <3>1, <1>8 DEF Found
        <5> QED BY <5>2, <5>3
      <4>5. CASE ~(pool \subseteq tight)
        <5>1. Cardinality(fit \cup tight) = PoolSize
          BY <4>5, <3>2, <1>2, <1>4, <1>6
        <5> QED BY <5>1, <4>3, <3>1, <1>8 DEF Found
      <4> QED BY <4>4, <4>5
    <3>5. whole
      BY <3>3, <3>4, <1>2, <1>4
    <3>6. WalkComplete'
      <4>1. ~(walk'.scanned > Cardinality(imports'[walk'.gen].rows))
        BY <2>3, <2>6, <1>8, <1>11 DEF R
      <4>2. Found' \subseteq imports'[walk'.gen].rows \ imports'[walk'.gen].shut
        BY <2>7, <1>8, <1>13 DEF WalkPinned
      <4> QED BY <4>1, <4>2, <3>5, <1>11 DEF WalkComplete, Overrun
    <3>7. WalkCovers' /\ PageCovers'
      BY <3>1 DEF WalkCovers, PageCovers
    <3> QED BY <3>6, <3>7, <2>7, <1>10 DEF WalkInv
  <2> QED BY <2>9, <2>10
<1> QED BY <1>12, <1>13

-----------------------------------------------------------------------------
(* A selection *)

LEMMA TotalGrows ==
  ASSUME NEW S \in SUBSET Places, NEW T \in SUBSET S
  PROVE  Total(S) \in Nat /\ Total(T) \in Nat /\ Total(T) <= Total(S)
<1> DEFINE counted(X) == {{p} \X (1..Match[p]) : p \in X}
<1>1. ASSUME NEW p \in Places PROVE IsFiniteSet({p} \X (1..Match[p]))
  <2>1. IsFiniteSet({p}) /\ IsFiniteSet(1..Match[p])
    <3>1. 1 \in Int /\ Match[p] \in Int
      BY PlanningAssumption
    <3> QED BY <3>1, FS_Singleton, FS_Interval
  <2> QED BY <2>1, FS_Product
<1>2. IsFiniteSet(counted(S))
  <2> DEFINE h == [p \in S |-> {p} \X (1..Match[p])]
  <2>1. h \in Surjection(S, counted(S))
    BY DEF Surjection
  <2> QED BY <2>1, PlacesFinite, FS_Surjection
<1>3. \A X \in counted(S) : IsFiniteSet(X)
  BY <1>1
<1>4. IsFiniteSet(UNION counted(S))
  BY <1>2, <1>3, FS_UNION
<1>5. UNION counted(T) \in SUBSET UNION counted(S)
  OBVIOUS
<1>6. /\ Cardinality(UNION counted(S)) \in Nat /\ Cardinality(UNION counted(T)) \in Nat
      /\ Cardinality(UNION counted(T)) <= Cardinality(UNION counted(S))
  BY <1>4, <1>5, FS_Subset, FS_CardinalityType
<1> QED BY <1>6 DEF Total

\* A selection is always found: the best one is within the loss.
LEMMA SelectionExists ==
  ASSUME NEW eligible \in SUBSET Places
  PROVE  Selections(eligible) # {} /\ \A S \in Selections(eligible) : S \subseteq eligible
<1> DEFINE choices == SomeOf(eligible, Wanted)
           N == {Total(S) : S \in choices}
<1>1. Wanted \in Nat /\ Loss \in Nat
  BY PlanningAssumption
<1>2. choices # {} /\ choices \subseteq SUBSET eligible
  BY <1>1, SomeOfThem
<1>3. \A S \in choices : Total(S) \in Nat /\ Total(S) <= Total(eligible) /\ Cardinality(S) \in Nat
  BY <1>2, TotalGrows, PlacesFinite
<1> HIDE DEF choices
<1>4. PICK best \in choices : \A S \in choices : Total(S) <= Total(best)
  <2>1. N \in SUBSET Nat /\ N # {} /\ Total(eligible) \in Nat /\ \A n \in N : n <= Total(eligible)
    BY <1>2, <1>3, TotalGrows
  <2>2. PICK m \in N : \A n \in N : n <= m
    BY <2>1, GreatestExists
  <2> QED BY <2>2
<1>5. Max(N) = Total(best)
  <2>1. Total(best) \in N /\ \A n \in N : Total(best) >= n
    BY <1>4, <1>3
  <2>2. \A m \in N : (\A n \in N : m >= n) => m = Total(best)
    BY <2>1, <1>3
  <2> HIDE DEF N
  <2> QED BY <2>1, <2>2 DEF Max
<1>6. Loss * Cardinality(best) \in Nat
  BY <1>1, <1>3
<1>7. Total(best) + Loss * Cardinality(best) >= Max(N)
  BY <1>3, <1>5, <1>6
<1>8. Selections(eligible) = {S \in choices : Total(S) + Loss * Cardinality(S) >= Max(N)}
  BY DEF Selections, choices
<1> HIDE DEF N
<1> QED BY <1>2, <1>7, <1>8

-----------------------------------------------------------------------------
(* The trip *)

Discovering == {"search", "walking", "rating", "repair", "roads"}
Choosing == {"select", "schedule", "reroute", "refresh", "timing", "accepted"}
Ended == {"refused", "lost", "unbound", "infeasible", "raised", "limit"}

TripType ==
  trip \in [at : Discovering \cup {"plan"} \cup Choosing \cup Ended,
            searched : SUBSET Points, raw : SUBSET Places, attempted : SUBSET Places,
            frozen : SUBSET Places, rated : SUBSET Places, asked : SUBSET Places,
            sent : [Places -> Nat], repaired : SUBSET Places,
            facts : [Places -> Generations \cup {NoGeneration}], cands : SUBSET Places, left : SUBSET Places,
            budget : Nat, excluded : SUBSET Places, stops : SUBSET Places, tries : Nat,
            current : Generations \cup {NoGeneration}]

\* What is still to be asked for, or asked for again, was not sent before: a round freezes only what no round did.
RatingInv ==
  /\ Cardinality(trip.attempted) <= RatingCap
  /\ trip.rated \cup trip.frozen \cup trip.asked \cup trip.repaired \subseteq trip.attempted
  /\ trip.asked \cap trip.repaired = {} /\ trip.frozen \cap (trip.asked \cup trip.repaired) = {}
  /\ \A p \in Places : /\ trip.sent[p] <= IF p \in trip.repaired THEN 2 ELSE 1
                       /\ p \in trip.frozen \/ p \notin trip.attempted => trip.sent[p] = 0

\* What was read of a place is in a generation that is still there.
FactsInv == \A p \in trip.raw \cup trip.attempted : trip.facts[p] # NoGeneration /\ Staged(trip.facts[p])

\* The candidates, what is left of them, the exclusions and the two budgets shrink together.
PoolInv ==
  /\ trip.cands \subseteq trip.attempted /\ Cardinality(trip.cands) <= CandidateCap
  /\ trip.excluded \subseteq trip.cands /\ trip.tries <= Cardinality(trip.excluded)
  /\ trip.at \in Discovering => trip.cands = {} /\ trip.stops = {} /\ trip.tries = 0
  /\ trip.at = "plan" => trip.stops = {}
  /\ trip.at \in Choosing => trip.left \subseteq trip.cands \ trip.excluded /\ trip.stops \subseteq trip.left
  /\ trip.at = "select" => trip.budget = Cardinality(trip.left) + 1
  /\ trip.at = "schedule" => trip.budget = Cardinality(trip.left)

\* What the last check established of the stops, in the generation that it read.
CurrentInv ==
  trip.at \in {"timing", "accepted"} => \A p \in trip.stops :
    /\ trip.current # NoGeneration /\ Staged(trip.current)
    /\ p \in imports[trip.current].rows \ imports[trip.current].shut /\ p \in Routable[trip.current]
    /\ ~SqlBlocked(Row(trip.current, p), Imported(trip.current, p), held, Exceptions(registry))
    /\ (p \in imports[trip.current].moved) = (p \in imports[trip.facts[p]].moved)

TripInv == TripType /\ RatingInv /\ FactsInv /\ PoolInv /\ CurrentInv /\ ReselectionSuffices

PlanInv == CatalogInv /\ WalkInv /\ TripInv

LEMMA Caps ==
  /\ CandidateCap \in Nat \ {0} /\ RatingCap \in Nat /\ Attempts = CandidateCap + 1 /\ Wanted \in Nat
  /\ Cardinality({}) = 0 /\ NoGeneration \notin Generations
BY PlanningAssumption, CatalogAssumption, FS_EmptySet DEF RatingCap, Attempts, Generations

\* A trip that an error or a restart has ended.
LEMMA LostTrip ==
  ASSUME NEW at \in {"refused", "lost"}, trip' = [NewTrip EXCEPT !.at = at]
  PROVE  TripInv'
<1>0. Unsent \in [Places -> Nat] /\ \A p \in Places : Unsent[p] = 0
  BY DEF Unsent
<1>1. TripType'
  <2>1. [p \in Places |-> NoGeneration] \in [Places -> Generations \cup {NoGeneration}]
    OBVIOUS
  <2> QED BY <1>0, <2>1 DEF NewTrip, TripType, Ended
<1>2. /\ trip'.at = at /\ trip'.raw = {} /\ trip'.attempted = {} /\ trip'.rated = {} /\ trip'.frozen = {}
      /\ trip'.asked = {} /\ trip'.sent = Unsent /\ trip'.repaired = {}
      /\ trip'.cands = {} /\ trip'.stops = {} /\ trip'.excluded = {} /\ trip'.tries = 0
  BY DEF NewTrip
<1>3. Cardinality(trip'.attempted) = 0 /\ Cardinality(trip'.cands) = 0 /\ Cardinality(trip'.excluded) = 0
  BY <1>2, Caps, Zenon
<1>4. RatingInv' /\ FactsInv'
  BY <1>0, <1>2, <1>3, Caps DEF RatingInv, FactsInv
<1>5. PoolInv' /\ CurrentInv' /\ ReselectionSuffices'
  BY <1>2, <1>3, Caps DEF PoolInv, CurrentInv, ReselectionSuffices, Discovering, Choosing
<1> QED BY <1>1, <1>4, <1>5 DEF TripInv

\* The generations a trip has read never change.
LEMMA TripStays ==
  ASSUME TripInv, CatalogInv, CatalogKept, UNCHANGED trip
  PROVE  TripInv'
<1>1. TripType' /\ RatingInv' /\ PoolInv' /\ ReselectionSuffices'
  BY DEF TripInv, TripType, RatingInv, PoolInv, ReselectionSuffices
<1>2. /\ trip.facts \in [Places -> Generations \cup {NoGeneration}] /\ trip.current \in Generations \cup {NoGeneration}
      /\ trip.raw \cup trip.attempted \subseteq Places
  BY DEF TripInv, TripType
<1>3. \A p \in trip.raw \cup trip.attempted : Staged(trip.facts[p])' /\ imports'[trip.facts[p]] = imports[trip.facts[p]]
  BY <1>2 DEF TripInv, FactsInv, CatalogKept, Staged
<1>4. FactsInv'
  BY <1>3 DEF TripInv, FactsInv
<1>5. CurrentInv'
  <2> SUFFICES ASSUME trip.at \in {"timing", "accepted"}, NEW p \in trip.stops
               PROVE  /\ trip.current # NoGeneration /\ Staged(trip.current)'
                      /\ p \in imports'[trip.current].rows \ imports'[trip.current].shut /\ p \in Routable[trip.current]
                      /\ ~SqlBlocked(Row(trip.current, p), Imported(trip.current, p), held, Exceptions(registry))
                      /\ (p \in imports'[trip.current].moved) = (p \in imports'[trip.facts[p]].moved)
    BY DEF CurrentInv, CatalogKept, Exceptions
  <2>1. p \in trip.attempted
    BY DEF TripInv, PoolInv, Choosing
  <2>2. /\ trip.current # NoGeneration /\ Staged(trip.current)
        /\ p \in imports[trip.current].rows \ imports[trip.current].shut /\ p \in Routable[trip.current]
        /\ ~SqlBlocked(Row(trip.current, p), Imported(trip.current, p), held, Exceptions(registry))
        /\ (p \in imports[trip.current].moved) = (p \in imports[trip.facts[p]].moved)
    BY DEF TripInv, CurrentInv
  <2>3. imports'[trip.current] = imports[trip.current]
    BY <2>2, <1>2 DEF CatalogKept
  <2> QED BY <2>1, <2>2, <2>3, <1>3 DEF Staged
<1> QED BY <1>1, <1>4, <1>5 DEF TripInv

\* A step that only moves the trip on, between two states of which nothing more is required.
LEMMA MovesOn ==
  ASSUME TripInv, NEW at \in {"walking", "search", "reroute", "refresh"}, NEW searched \in SUBSET Points,
         trip' = [trip EXCEPT !.at = at, !.searched = searched], UNCHANGED catalog,
         at \in {"walking", "search"} => trip.at \in Discovering, at \in {"reroute", "refresh"} => trip.at \in Choosing
  PROVE  TripInv'
<1>1. TripType
  BY DEF TripInv
<1>2. TripType'
  BY <1>1 DEF TripType, Discovering, Choosing, Ended
<1>3. /\ trip'.at = at /\ trip'.raw = trip.raw /\ trip'.attempted = trip.attempted /\ trip'.rated = trip.rated
      /\ trip'.frozen = trip.frozen /\ trip'.cands = trip.cands
      /\ trip'.asked = trip.asked /\ trip'.sent = trip.sent /\ trip'.repaired = trip.repaired
      /\ trip'.stops = trip.stops /\ trip'.excluded = trip.excluded /\ trip'.tries = trip.tries
      /\ trip'.facts = trip.facts /\ trip'.left = trip.left
  BY <1>1 DEF TripType
<1>4. RatingInv' /\ FactsInv'
  BY <1>3 DEF TripInv, RatingInv, FactsInv, Staged, catalog
<1>5. PoolInv'
  BY <1>3 DEF TripInv, PoolInv, Discovering, Choosing
<1>6. CurrentInv' /\ ReselectionSuffices'
  BY <1>3 DEF CurrentInv, ReselectionSuffices
<1> QED BY <1>2, <1>4, <1>5, <1>6 DEF TripInv

LEMMA Gathering ==
  ASSUME PlanInv, Gather
  PROVE  TripInv'
<1>1. PICK raw \in SomeOf(trip.raw \cup Found, RawCap) :
      \E frozen \in SomeOf(Unrated(raw), Min({RatingCap - Cardinality(trip.attempted), CandidateCap})) :
        trip' = [trip EXCEPT !.at = "rating", !.raw = raw, !.frozen = frozen, !.attempted = @ \cup frozen,
                             !.facts = [p \in Places |-> IF p \in Found \ trip.raw THEN walk.gen ELSE @[p]]]
  BY Zenon DEF Gather
<1>2. PICK frozen \in SomeOf(Unrated(raw), Min({RatingCap - Cardinality(trip.attempted), CandidateCap})) :
        trip' = [trip EXCEPT !.at = "rating", !.raw = raw, !.frozen = frozen, !.attempted = @ \cup frozen,
                             !.facts = [p \in Places |-> IF p \in Found \ trip.raw THEN walk.gen ELSE @[p]]]
  BY <1>1, Zenon
<1>3. TripType /\ RatingInv /\ FactsInv /\ PoolInv /\ trip.at = "walking" /\ imports' = imports
  BY DEF PlanInv, TripInv, Gather, catalog
<1>4. /\ trip.raw \in SUBSET Places /\ trip.attempted \in SUBSET Places
      /\ trip.facts \in [Places -> Generations \cup {NoGeneration}]
  BY <1>3 DEF TripType
<1>5. /\ Found \in SUBSET Places /\ walk.gen \in Generations \cup {NoGeneration}
      /\ Found # {} => walk.gen # NoGeneration /\ Staged(walk.gen)
  BY DEF PlanInv, WalkInv, WalkType, WalkPinned, Found
<1>6. raw \in SUBSET (trip.raw \cup Found) /\ raw \in SUBSET Places
  <2>1. trip.raw \cup Found \in SUBSET Places /\ RawCap \in Nat
    BY <1>4, <1>5, PlanningAssumption DEF RawCap
  <2> QED BY <2>1, SomeOfThem
<1>7. /\ Cardinality(trip.attempted) \in Nat /\ Cardinality(trip.attempted) <= RatingCap
      /\ trip.rated \cup trip.asked \cup trip.repaired \subseteq trip.attempted
  BY <1>3, <1>4, PlacesFinite DEF RatingInv
<1>8. /\ frozen \in SUBSET (raw \ trip.attempted) /\ frozen \in SUBSET Places /\ Cardinality(frozen) \in Nat
      /\ Cardinality(frozen) <= RatingCap - Cardinality(trip.attempted)
  <2> DEFINE room == RatingCap - Cardinality(trip.attempted)
  <2>1. room \in Nat /\ CandidateCap \in Nat
    BY <1>7, Caps
  <2>2. Min({room, CandidateCap}) \in Nat /\ Min({room, CandidateCap}) <= room
    BY <2>1, MinOfTwo
  <2>3. Unrated(raw) = raw \ trip.attempted /\ Unrated(raw) \in SUBSET Places
    BY <1>6 DEF Unrated
  <2>4. frozen \subseteq Unrated(raw) /\ Cardinality(frozen) <= Min({room, CandidateCap})
    BY <2>2, <2>3, SomeOfThem
  <2>5. frozen \in SUBSET Places /\ Cardinality(frozen) \in Nat
    BY <2>3, <2>4, PlacesFinite
  <2> QED BY <2>1, <2>2, <2>3, <2>4, <2>5
<1> DEFINE facts == [p \in Places |-> IF p \in Found \ trip.raw THEN walk.gen ELSE trip.facts[p]]
<1>9. facts \in [Places -> Generations \cup {NoGeneration}]
  BY <1>4, <1>5, <1>8
<1>10. TripType'
  BY <1>2, <1>3, <1>4, <1>6, <1>8, <1>9 DEF TripType, Discovering
<1>11. /\ trip'.at = "rating" /\ trip'.raw = raw /\ trip'.attempted = trip.attempted \cup frozen /\ trip'.rated = trip.rated
       /\ trip'.frozen = frozen /\ trip'.cands = trip.cands
       /\ trip'.asked = trip.asked /\ trip'.sent = trip.sent /\ trip'.repaired = trip.repaired
       /\ trip'.stops = trip.stops /\ trip'.excluded = trip.excluded /\ trip'.tries = trip.tries
       /\ trip'.facts = facts
  BY <1>2, <1>3 DEF TripType
<1>12. RatingInv'
  <2>1. Cardinality(trip.attempted \cup frozen) = Cardinality(trip.attempted) + Cardinality(frozen)
    BY <1>4, <1>8, PlacesDisjoint
  <2>2. Cardinality(trip.attempted \cup frozen) <= RatingCap
    BY <2>1, <1>7, <1>8, Caps
  <2>3. frozen \cap (trip.asked \cup trip.repaired) = {}
    BY <1>7, <1>8
  <2>4. \A p \in Places : p \in frozen \/ p \notin trip.attempted \cup frozen => trip.sent[p] = 0
    BY <1>3, <1>8 DEF RatingInv
  <2> QED BY <2>2, <2>3, <2>4, <1>3, <1>7, <1>11 DEF RatingInv
<1>13. FactsInv'
  <2> SUFFICES ASSUME NEW p \in raw \cup (trip.attempted \cup frozen)
               PROVE  facts[p] # NoGeneration /\ Staged(facts[p])
    BY <1>3, <1>11 DEF FactsInv, Staged
  <2>1. p \in Places
    BY <1>4, <1>6, <1>8
  <2>2. CASE p \in Found \ trip.raw
    BY <2>1, <2>2, <1>5
  <2>3. CASE p \notin Found \ trip.raw
    <3>1. p \in trip.raw \cup trip.attempted
      BY <2>3, <1>6, <1>8
    <3> QED BY <2>1, <2>3, <3>1, <1>3 DEF FactsInv
  <2> QED BY <2>2, <2>3
<1>14. PoolInv'
  BY <1>3, <1>11 DEF PoolInv, Discovering, Choosing
<1> QED BY <1>10, <1>11, <1>12, <1>13, <1>14 DEF TripInv, CurrentInv, ReselectionSuffices

\* After discovery nothing changes what was rated or read.
LEMMA AfterDiscovery ==
  ASSUME TripInv, UNCHANGED catalog, TripType', PoolInv', CurrentInv', ReselectionSuffices',
         trip'.raw = trip.raw, trip'.attempted = trip.attempted, trip'.rated = trip.rated,
         trip'.frozen = trip.frozen, trip'.facts = trip.facts,
         trip'.asked = trip.asked, trip'.sent = trip.sent, trip'.repaired = trip.repaired
  PROVE  TripInv'
<1>1. RatingInv' /\ FactsInv'
  BY DEF TripInv, RatingInv, FactsInv, Staged, catalog
<1> QED BY <1>1 DEF TripInv

\* A step of a round's ratings, which leaves the pool and the facts alone.
LEMMA RoundGoesOn ==
  ASSUME TripInv, trip.at \in {"rating", "repair"}, UNCHANGED catalog, RatingInv',
         NEW at \in {"rating", "repair", "roads"}, NEW frozen \in SUBSET Places, NEW rated \in SUBSET Places,
         NEW asked \in SUBSET Places, NEW sent \in [Places -> Nat], NEW repaired \in SUBSET Places,
         trip' = [trip EXCEPT !.at = at, !.frozen = frozen, !.rated = rated, !.asked = asked,
                              !.sent = sent, !.repaired = repaired]
  PROVE  TripInv'
<1>1. TripType /\ FactsInv /\ PoolInv
  BY DEF TripInv
<1>2. TripType'
  BY <1>1 DEF TripType, Discovering
<1>3. /\ trip'.at = at /\ trip'.raw = trip.raw /\ trip'.attempted = trip.attempted /\ trip'.facts = trip.facts
      /\ trip'.cands = trip.cands /\ trip'.stops = trip.stops /\ trip'.excluded = trip.excluded
      /\ trip'.tries = trip.tries
  BY <1>1 DEF TripType
<1>4. FactsInv'
  BY <1>1, <1>3 DEF FactsInv, Staged, catalog
<1>5. PoolInv' /\ CurrentInv' /\ ReselectionSuffices'
  BY <1>1, <1>3 DEF PoolInv, CurrentInv, ReselectionSuffices, Discovering, Choosing
<1> QED BY <1>2, <1>4, <1>5 DEF TripInv

LEMMA AskKeeps ==
  ASSUME TripInv, Ask
  PROVE  TripInv'
<1>1. PICK group \in SUBSET trip.frozen :
        \/ trip' = [trip EXCEPT !.frozen = @ \ group, !.rated = @ \cup group]
        \/ \E answered \in SUBSET group :
             trip' = [trip EXCEPT !.frozen = @ \ group, !.sent = Send(group), !.rated = @ \cup answered,
                                  !.asked = IF answered = {} THEN group ELSE {},
                                  !.at = IF answered = {} THEN "repair" ELSE "rating"]
  BY Zenon DEF Ask
<1>2. TripType /\ RatingInv /\ trip.at = "rating" /\ UNCHANGED catalog
  BY DEF TripInv, Ask, catalog
<1>3. /\ trip.frozen \in SUBSET Places /\ trip.rated \in SUBSET Places /\ trip.asked \in SUBSET Places
      /\ trip.repaired \in SUBSET Places /\ trip.sent \in [Places -> Nat]
  BY <1>2 DEF TripType
<1>4. CASE trip' = [trip EXCEPT !.frozen = @ \ group, !.rated = @ \cup group]
  <2>1. trip' = [trip EXCEPT !.at = "rating", !.frozen = trip.frozen \ group, !.rated = trip.rated \cup group,
                             !.asked = trip.asked, !.sent = trip.sent, !.repaired = trip.repaired]
    BY <1>2, <1>4 DEF TripType
  <2>2. /\ trip'.attempted = trip.attempted /\ trip'.frozen = trip.frozen \ group
        /\ trip'.rated = trip.rated \cup group /\ trip'.asked = trip.asked /\ trip'.sent = trip.sent
        /\ trip'.repaired = trip.repaired
    BY <1>2, <2>1 DEF TripType
  <2>3. RatingInv'
    BY <1>2, <2>2 DEF RatingInv
  <2>4. trip.frozen \ group \in SUBSET Places /\ trip.rated \cup group \in SUBSET Places
    BY <1>3
  <2> QED BY <1>2, <1>3, <2>1, <2>3, <2>4, RoundGoesOn
<1>5. ASSUME NEW answered \in SUBSET group,
             trip' = [trip EXCEPT !.frozen = @ \ group, !.sent = Send(group), !.rated = @ \cup answered,
                                  !.asked = IF answered = {} THEN group ELSE {},
                                  !.at = IF answered = {} THEN "repair" ELSE "rating"]
      PROVE  TripInv'
  <2> DEFINE asked == IF answered = {} THEN group ELSE {}
             at == IF answered = {} THEN "repair" ELSE "rating"
  <2>1. at \in {"rating", "repair", "roads"} /\ asked \in SUBSET group
    OBVIOUS
  <2> HIDE DEF asked, at
  <2>2. trip' = [trip EXCEPT !.at = at, !.frozen = trip.frozen \ group, !.rated = trip.rated \cup answered,
                             !.asked = asked, !.sent = Send(group), !.repaired = trip.repaired]
    BY <1>2, <1>5 DEF TripType, asked, at
  <2>3. /\ trip'.attempted = trip.attempted /\ trip'.frozen = trip.frozen \ group
        /\ trip'.rated = trip.rated \cup answered /\ trip'.asked = asked /\ trip'.sent = Send(group)
        /\ trip'.repaired = trip.repaired
    BY <1>2, <2>2 DEF TripType
  <2>4. /\ Send(group) \in [Places -> Nat]
        /\ \A p \in Places : Send(group)[p] = IF p \in group THEN trip.sent[p] + 1 ELSE trip.sent[p]
    BY <1>3 DEF Send
  <2>5. \A p \in group : trip.sent[p] = 0 /\ p \notin trip.repaired
    BY <1>2, <1>3 DEF RatingInv
  <2>6. \A p \in Places : Send(group)[p] <= IF p \in trip.repaired THEN 2 ELSE 1
    BY <1>2, <2>4, <2>5 DEF RatingInv
  <2>7. \A p \in Places : p \in trip.frozen \ group \/ p \notin trip.attempted => Send(group)[p] = 0
    BY <1>2, <2>4 DEF RatingInv
  <2>8. RatingInv'
    BY <1>2, <2>1, <2>3, <2>6, <2>7 DEF RatingInv
  <2>9. trip.frozen \ group \in SUBSET Places /\ trip.rated \cup answered \in SUBSET Places /\ asked \in SUBSET Places
    BY <1>3, <2>1
  <2> QED BY <1>2, <1>3, <2>1, <2>2, <2>4, <2>8, <2>9, RoundGoesOn
<1> QED BY <1>1, <1>4, <1>5

LEMMA RepairKeeps ==
  ASSUME TripInv, Repair
  PROVE  TripInv'
<1>1. PICK answered \in SUBSET trip.asked :
        trip' = [trip EXCEPT !.at = "rating", !.sent = Send(trip.asked), !.rated = @ \cup answered,
                             !.repaired = @ \cup trip.asked, !.asked = {}]
  BY Zenon DEF Repair
<1>2. TripType /\ RatingInv /\ trip.at = "repair" /\ UNCHANGED catalog
  BY DEF TripInv, Repair, catalog
<1>3. /\ trip.frozen \in SUBSET Places /\ trip.rated \in SUBSET Places /\ trip.asked \in SUBSET Places
      /\ trip.repaired \in SUBSET Places /\ trip.sent \in [Places -> Nat]
  BY <1>2 DEF TripType
<1>4. trip' = [trip EXCEPT !.at = "rating", !.frozen = trip.frozen, !.rated = trip.rated \cup answered,
                           !.asked = {}, !.sent = Send(trip.asked), !.repaired = trip.repaired \cup trip.asked]
  BY <1>1, <1>2 DEF TripType
<1>5. /\ trip'.attempted = trip.attempted /\ trip'.frozen = trip.frozen /\ trip'.rated = trip.rated \cup answered
      /\ trip'.asked = {} /\ trip'.sent = Send(trip.asked) /\ trip'.repaired = trip.repaired \cup trip.asked
  BY <1>2, <1>4 DEF TripType
<1>6. /\ Send(trip.asked) \in [Places -> Nat]
      /\ \A p \in Places : Send(trip.asked)[p] = IF p \in trip.asked THEN trip.sent[p] + 1 ELSE trip.sent[p]
  BY <1>3 DEF Send
<1>7. \A p \in trip.asked : trip.sent[p] <= 1 /\ p \notin trip.frozen /\ p \in trip.attempted
  BY <1>2, <1>3 DEF RatingInv
<1>8. \A p \in Places : Send(trip.asked)[p] <= IF p \in trip.repaired \cup trip.asked THEN 2 ELSE 1
  BY <1>2, <1>3, <1>6, <1>7 DEF RatingInv
<1>9. \A p \in Places : p \in trip.frozen \/ p \notin trip.attempted => Send(trip.asked)[p] = 0
  BY <1>2, <1>6, <1>7 DEF RatingInv
<1>10. RatingInv'
  BY <1>2, <1>5, <1>8, <1>9 DEF RatingInv
<1>11. /\ trip.rated \cup answered \in SUBSET Places /\ trip.repaired \cup trip.asked \in SUBSET Places
       /\ {} \in SUBSET Places
  BY <1>3
<1> QED BY <1>2, <1>3, <1>4, <1>6, <1>10, <1>11, RoundGoesOn

LEMMA RateKeeps ==
  ASSUME TripInv, Rate
  PROVE  TripInv'
<1>1. TripType /\ RatingInv /\ trip.at = "rating" /\ UNCHANGED catalog
  BY DEF TripInv, Rate, Raise, Turn, catalog
<1>2. CASE Raise
  BY <1>2, LostTrip DEF Raise
<1>3. CASE Turn("search", trip)
  <2>1. trip' = [trip EXCEPT !.at = "search", !.searched = trip.searched] /\ trip.searched \in SUBSET Points
    BY <1>1, <1>3 DEF Turn, TripType
  <2> QED BY <1>1, <2>1, MovesOn DEF Discovering
<1>4. CASE Turn("roads", [trip EXCEPT !.sent = Unsent, !.repaired = {}])
  <2>1. Unsent \in [Places -> Nat] /\ \A p \in Places : Unsent[p] = 0
    BY DEF Unsent
  <2>2. trip' = [trip EXCEPT !.at = "roads", !.frozen = trip.frozen, !.rated = trip.rated, !.asked = trip.asked,
                             !.sent = Unsent, !.repaired = {}]
    BY <1>1, <1>4 DEF Turn, TripType
  <2>3. /\ trip'.attempted = trip.attempted /\ trip'.frozen = trip.frozen /\ trip'.rated = trip.rated
        /\ trip'.asked = trip.asked /\ trip'.sent = Unsent /\ trip'.repaired = {}
    BY <1>1, <2>2 DEF TripType
  <2>4. RatingInv'
    BY <1>1, <2>1, <2>3 DEF RatingInv
  <2>5. /\ trip.frozen \in SUBSET Places /\ trip.rated \in SUBSET Places /\ trip.asked \in SUBSET Places
        /\ {} \in SUBSET Places
    BY <1>1 DEF TripType
  <2> QED BY <1>1, <2>1, <2>2, <2>4, <2>5, RoundGoesOn
<1> QED BY <1>2, <1>3, <1>4 DEF Rate

LEMMA RoadsKeep ==
  ASSUME TripInv, CheckRoads
  PROVE  TripInv'
<1>1. PICK shortlist \in SomeOf(Likeable(trip.rated), CandidateCap) :
        \E cands \in SUBSET shortlist : Turn("plan", [trip EXCEPT !.cands = cands])
  BY Zenon DEF CheckRoads
<1>2. PICK cands \in SUBSET shortlist : Turn("plan", [trip EXCEPT !.cands = cands])
  BY <1>1, Zenon
<1>3. TripType /\ RatingInv /\ PoolInv /\ trip.at = "roads"
  BY DEF TripInv, CheckRoads
<1>4. Likeable(trip.rated) \in SUBSET trip.rated /\ trip.rated \in SUBSET Places /\ trip.rated \subseteq trip.attempted
  BY <1>3 DEF TripType, RatingInv, Likeable
<1>5. shortlist \in SUBSET Places /\ shortlist \subseteq trip.attempted /\ Cardinality(shortlist) <= CandidateCap
  <2>1. Likeable(trip.rated) \in SUBSET Places
    BY <1>4
  <2>2. shortlist \subseteq Likeable(trip.rated) /\ Cardinality(shortlist) <= CandidateCap
    BY <2>1, Caps, SomeOfThem
  <2> QED BY <1>4, <2>2
<1>6. cands \in SUBSET Places /\ cands \subseteq trip.attempted /\ Cardinality(cands) <= CandidateCap
  <2>1. Cardinality(cands) <= Cardinality(shortlist) /\ Cardinality(cands) \in Nat /\ Cardinality(shortlist) \in Nat
    BY <1>5, PlacesSubset, PlacesFinite
  <2> QED BY <1>5, <2>1, Caps
<1>7. TripType'
  BY <1>2, <1>3, <1>6 DEF Turn, TripType
<1>8. /\ trip'.at = "plan" /\ trip'.raw = trip.raw /\ trip'.attempted = trip.attempted /\ trip'.rated = trip.rated
      /\ trip'.frozen = trip.frozen /\ trip'.facts = trip.facts
      /\ trip'.asked = trip.asked /\ trip'.sent = trip.sent /\ trip'.repaired = trip.repaired
      /\ trip'.cands = cands /\ trip'.stops = trip.stops /\ trip'.excluded = trip.excluded /\ trip'.tries = trip.tries
      /\ UNCHANGED catalog
  BY <1>2, <1>3 DEF Turn, TripType
<1>9. trip.excluded = {} /\ trip.stops = {} /\ trip.tries <= Cardinality(trip.excluded)
  BY <1>3 DEF PoolInv, Discovering
<1>10. PoolInv'
  BY <1>6, <1>8, <1>9 DEF PoolInv, Discovering, Choosing
<1>11. CurrentInv' /\ ReselectionSuffices'
  BY <1>8 DEF CurrentInv, ReselectionSuffices
<1> QED BY <1>7, <1>8, <1>10, <1>11, AfterDiscovery

LEMMA PlanKeeps ==
  ASSUME TripInv, Plan
  PROVE  TripInv'
<1>1. Turn("select", [trip EXCEPT !.left = Remaining, !.budget = Cardinality(Remaining) + 1])
  BY DEF Plan
<1>2. TripType /\ PoolInv /\ trip.at = "plan"
  BY DEF TripInv, Plan
<1>3. Remaining \subseteq trip.cands \ trip.excluded /\ Remaining \in SUBSET Places /\ trip.stops = {}
  BY <1>2 DEF Remaining, TripType, PoolInv
<1>4. Cardinality(Remaining) + 1 \in Nat
  BY <1>3, PlacesFinite
<1> HIDE DEF Remaining
<1>5. TripType'
  BY <1>1, <1>2, <1>3, <1>4 DEF Turn, TripType, Choosing
<1>6. /\ trip'.at = "select" /\ trip'.raw = trip.raw /\ trip'.attempted = trip.attempted /\ trip'.rated = trip.rated
      /\ trip'.frozen = trip.frozen /\ trip'.facts = trip.facts
      /\ trip'.asked = trip.asked /\ trip'.sent = trip.sent /\ trip'.repaired = trip.repaired
      /\ trip'.cands = trip.cands /\ trip'.stops = trip.stops /\ trip'.excluded = trip.excluded
      /\ trip'.tries = trip.tries /\ trip'.left = Remaining /\ trip'.budget = Cardinality(Remaining) + 1
      /\ UNCHANGED catalog
  BY <1>1, <1>2 DEF Turn, TripType
<1>7. PoolInv' /\ CurrentInv' /\ ReselectionSuffices'
  BY <1>2, <1>3, <1>6 DEF PoolInv, CurrentInv, ReselectionSuffices, Discovering, Choosing
<1> QED BY <1>5, <1>6, <1>7, AfterDiscovery

\* One selection more than places left: the budget lasts, and some selection is feasible.
LEMMA SelectKeeps ==
  ASSUME TripInv, Select
  PROVE  TripInv'
<1> DEFINE eligible == Likeable(trip.left)
           next == [trip EXCEPT !.budget = @ - 1]
<1>1. TripType /\ PoolInv /\ trip.at = "select"
  BY DEF TripInv, Select
<1>2. /\ trip.left \subseteq trip.cands \ trip.excluded /\ trip.left \in SUBSET Places
      /\ trip.budget = Cardinality(trip.left) + 1 /\ Cardinality(trip.left) \in Nat
  BY <1>1, PlacesFinite DEF PoolInv, TripType, Choosing
<1>3. eligible \subseteq trip.left /\ eligible \in SUBSET Places
  BY <1>2 DEF Likeable
<1>4. Selections(eligible) # {} /\ trip.budget # 0 /\ trip.budget - 1 = Cardinality(trip.left)
  BY <1>2, <1>3, SelectionExists
<1>5. PICK S \in Selections(eligible) : Turn("schedule", [next EXCEPT !.stops = S])
  BY <1>4 DEF Select
<1>6. S \subseteq trip.left /\ S \in SUBSET Places
  BY <1>3, SelectionExists
<1>7. trip' = [trip EXCEPT !.at = "schedule", !.stops = S, !.budget = Cardinality(trip.left)] /\ UNCHANGED catalog
  BY <1>1, <1>4, <1>5 DEF Turn, TripType
<1>8. TripType'
  BY <1>1, <1>2, <1>6, <1>7 DEF TripType, Choosing
<1>9. /\ trip'.at = "schedule" /\ trip'.raw = trip.raw /\ trip'.attempted = trip.attempted /\ trip'.rated = trip.rated
      /\ trip'.frozen = trip.frozen /\ trip'.facts = trip.facts
      /\ trip'.asked = trip.asked /\ trip'.sent = trip.sent /\ trip'.repaired = trip.repaired
      /\ trip'.cands = trip.cands /\ trip'.stops = S /\ trip'.excluded = trip.excluded
      /\ trip'.tries = trip.tries /\ trip'.left = trip.left /\ trip'.budget = Cardinality(trip.left)
  BY <1>1, <1>7 DEF TripType
<1>10. PoolInv' /\ CurrentInv' /\ ReselectionSuffices'
  BY <1>1, <1>2, <1>6, <1>9 DEF PoolInv, CurrentInv, ReselectionSuffices, Discovering, Choosing
<1> QED BY <1>7, <1>8, <1>9, <1>10, AfterDiscovery

\* A conflict takes one place from the pool into the exclusions, as the budget has gone down by one.
LEMMA ScheduleKeeps ==
  ASSUME TripInv, Schedule
  PROVE  TripInv'
<1>1. TripType /\ PoolInv /\ trip.at = "schedule"
  BY DEF TripInv, Schedule
<1>2. /\ trip.left \subseteq trip.cands \ trip.excluded /\ trip.left \in SUBSET Places
      /\ trip.stops \subseteq trip.left /\ trip.excluded \subseteq trip.cands /\ trip.cands \in SUBSET Places
      /\ trip.tries \in Nat /\ trip.tries <= Cardinality(trip.excluded) /\ trip.budget = Cardinality(trip.left)
      /\ Cardinality(trip.left) \in Nat
  BY <1>1, PlacesFinite DEF PoolInv, TripType, Choosing
<1>3. CASE Turn("reroute", trip)
  <2>1. trip' = [trip EXCEPT !.at = "reroute", !.searched = trip.searched] /\ UNCHANGED catalog
    BY <1>1, <1>3 DEF Turn, TripType
  <2> QED BY <2>1, <1>1, MovesOn DEF TripType, Choosing
<1>4. ASSUME NEW p \in trip.stops,
             Turn("select", [trip EXCEPT !.left = @ \ {p}, !.excluded = @ \cup {p}, !.stops = {}])
      PROVE  TripInv'
  <2>1. p \in trip.left /\ p \in trip.cands /\ p \notin trip.excluded /\ p \in Places
    BY <1>2
  <2>2. /\ Cardinality(trip.left \ {p}) = Cardinality(trip.left) - 1
        /\ Cardinality(trip.excluded \cup {p}) = Cardinality(trip.excluded) + 1
        /\ Cardinality(trip.excluded) \in Nat
    BY <1>2, <2>1, PlacesAdd, PlacesFinite
  <2>3. TripType'
    BY <1>1, <1>4, <2>1 DEF Turn, TripType, Choosing
  <2>4. /\ trip'.at = "select" /\ trip'.raw = trip.raw /\ trip'.attempted = trip.attempted /\ trip'.rated = trip.rated
        /\ trip'.frozen = trip.frozen /\ trip'.facts = trip.facts
      /\ trip'.asked = trip.asked /\ trip'.sent = trip.sent /\ trip'.repaired = trip.repaired
        /\ trip'.cands = trip.cands /\ trip'.stops = {} /\ trip'.excluded = trip.excluded \cup {p}
        /\ trip'.tries = trip.tries /\ trip'.left = trip.left \ {p} /\ trip'.budget = trip.budget
        /\ UNCHANGED catalog
    BY <1>1, <1>4 DEF Turn, TripType
  <2>5. trip'.tries <= Cardinality(trip'.excluded) /\ trip'.budget = Cardinality(trip'.left) + 1
    BY <1>2, <2>2, <2>4
  <2>6. PoolInv' /\ CurrentInv' /\ ReselectionSuffices'
    BY <1>1, <1>2, <2>1, <2>4, <2>5 DEF PoolInv, CurrentInv, ReselectionSuffices, Discovering, Choosing
  <2> QED BY <2>3, <2>4, <2>6, AfterDiscovery
<1> QED BY <1>3, <1>4 DEF Schedule

\* The final route's conflicts: the stop is not excluded yet, and the tries are no more than the exclusions.
LEMMA ConflictKeeps ==
  ASSUME TripInv, trip.at \in {"refresh", "timing"}, NEW p \in trip.stops, Conflict(p)
  PROVE  TripInv'
<1>1. TripType /\ PoolInv
  BY DEF TripInv
<1>2. /\ p \in trip.cands /\ p \notin trip.excluded /\ p \in Places
      /\ trip.excluded \in SUBSET trip.cands /\ trip.cands \in SUBSET Places /\ trip.tries \in Nat
      /\ trip.tries <= Cardinality(trip.excluded) /\ Cardinality(trip.cands) <= CandidateCap
  BY <1>1 DEF PoolInv, TripType, Choosing
<1>3. /\ Cardinality(trip.excluded \cup {p}) = Cardinality(trip.excluded) + 1
      /\ Cardinality(trip.excluded) \in Nat /\ Cardinality(trip.cands) \in Nat
  BY <1>2, PlacesAdd, PlacesFinite
<1>4. trip.tries + 1 <= Cardinality(trip.excluded \cup {p}) /\ trip.tries + 1 # Attempts
  <2>1. Cardinality(trip.excluded \cup {p}) <= Cardinality(trip.cands)
    BY <1>2, PlacesSubset
  <2> QED BY <2>1, <1>2, <1>3, Caps
<1>5. Turn("plan", [trip EXCEPT !.excluded = @ \cup {p}, !.stops = {}, !.tries = @ + 1])
  BY <1>2, <1>4 DEF Conflict
<1>6. TripType'
  <2>1. trip.excluded \cup {p} \in SUBSET Places /\ trip.tries + 1 \in Nat
    BY <1>2
  <2>2. trip' = [trip EXCEPT !.at = "plan", !.excluded = trip.excluded \cup {p}, !.stops = {}, !.tries = trip.tries + 1]
    BY <1>1, <1>5 DEF Turn, TripType
  <2> QED BY <1>1, <2>1, <2>2 DEF TripType
<1>7. /\ trip'.at = "plan" /\ trip'.raw = trip.raw /\ trip'.attempted = trip.attempted /\ trip'.rated = trip.rated
      /\ trip'.frozen = trip.frozen /\ trip'.facts = trip.facts
      /\ trip'.asked = trip.asked /\ trip'.sent = trip.sent /\ trip'.repaired = trip.repaired
      /\ trip'.cands = trip.cands /\ trip'.stops = {} /\ trip'.excluded = trip.excluded \cup {p}
      /\ trip'.tries = trip.tries + 1
      /\ UNCHANGED catalog
  BY <1>1, <1>5 DEF Turn, TripType
<1>8. PoolInv' /\ CurrentInv' /\ ReselectionSuffices'
  BY <1>1, <1>2, <1>4, <1>7 DEF PoolInv, CurrentInv, ReselectionSuffices, Discovering, Choosing
<1> QED BY <1>6, <1>7, <1>8, AfterDiscovery

\* A final check that finds no stop outdated has read what CurrentInv says.
LEMMA RefreshKeeps ==
  ASSUME TripInv, CatalogInv, Refresh
  PROVE  TripInv'
<1>1. TripType /\ PoolInv /\ trip.at = "refresh"
  BY DEF TripInv, Refresh
<1>2. CASE \E p \in trip.stops : Conflict(p)
  BY <1>1, <1>2, ConflictKeeps
<1>3. CASE (\A p \in trip.stops : ~Outdated(p)) /\ Turn("timing", [trip EXCEPT !.current = active])
  <2>1. active \in Generations \cup {NoGeneration} /\ (active # NoGeneration => Staged(active))
    BY DEF CatalogInv
  <2>2. TripType'
    BY <1>1, <1>3, <2>1 DEF Turn, TripType, Choosing
  <2>3. /\ trip'.at = "timing" /\ trip'.raw = trip.raw /\ trip'.attempted = trip.attempted /\ trip'.rated = trip.rated
        /\ trip'.frozen = trip.frozen /\ trip'.facts = trip.facts
      /\ trip'.asked = trip.asked /\ trip'.sent = trip.sent /\ trip'.repaired = trip.repaired
        /\ trip'.cands = trip.cands /\ trip'.stops = trip.stops /\ trip'.excluded = trip.excluded
        /\ trip'.tries = trip.tries /\ trip'.left = trip.left /\ trip'.current = active
        /\ UNCHANGED catalog
    BY <1>1, <1>3 DEF Turn, TripType
  <2>4. CurrentInv'
    BY <1>3, <2>1, <2>3 DEF CurrentInv, Outdated, StillThere, InForce, SqlAdmitted, Contracted, Exceptions, Staged, catalog
  <2>5. PoolInv' /\ ReselectionSuffices'
    BY <1>1, <2>3 DEF PoolInv, ReselectionSuffices, Discovering, Choosing
  <2> QED BY <2>2, <2>3, <2>4, <2>5, AfterDiscovery
<1> QED BY <1>2, <1>3 DEF Refresh

LEMMA TimeKeeps ==
  ASSUME TripInv, Time
  PROVE  TripInv'
<1>1. TripType /\ PoolInv /\ CurrentInv /\ trip.at = "timing"
  BY DEF TripInv, Time
<1>2. CASE \E p \in trip.stops : Conflict(p)
  BY <1>1, <1>2, ConflictKeeps
<1>3. CASE Turn("accepted", trip)
  <2>1. TripType'
    BY <1>1, <1>3 DEF Turn, TripType, Choosing
  <2>2. /\ trip'.at = "accepted" /\ trip'.raw = trip.raw /\ trip'.attempted = trip.attempted /\ trip'.rated = trip.rated
        /\ trip'.frozen = trip.frozen /\ trip'.facts = trip.facts
      /\ trip'.asked = trip.asked /\ trip'.sent = trip.sent /\ trip'.repaired = trip.repaired
        /\ trip'.cands = trip.cands /\ trip'.stops = trip.stops /\ trip'.excluded = trip.excluded
        /\ trip'.tries = trip.tries /\ trip'.left = trip.left /\ trip'.current = trip.current
        /\ UNCHANGED catalog
    BY <1>1, <1>3 DEF Turn, TripType
  <2>3. PoolInv' /\ CurrentInv' /\ ReselectionSuffices'
    BY <1>1, <2>2 DEF PoolInv, CurrentInv, ReselectionSuffices, Discovering, Choosing, Staged, Exceptions, catalog
  <2> QED BY <2>1, <2>2, <2>3, AfterDiscovery
<1> QED BY <1>2, <1>3 DEF Time

-----------------------------------------------------------------------------
(* The specification *)

LEMMA PlanStarts == PlanInit => PlanInv
<1> SUFFICES ASSUME PlanInit PROVE PlanInv
  OBVIOUS
<1>1. PICK first \in Bases \cup {NoGeneration} :
        /\ imports = [g \in Generations |-> IF g = first THEN BaseContent(g) ELSE NoGeneration]
        /\ active = first
  BY DEF PlanInit, CatalogInit
<1>2. /\ receipts = {} /\ expired = {} /\ changes = 0 /\ walk = Idle /\ trip = NewTrip
      /\ held \subseteq Pilot /\ registry \subseteq DOMAIN Entries /\ RegistryStands(Exceptions(registry), held)
  BY DEF PlanInit, CatalogInit
<1>3. Bases \subseteq Generations /\ Bases \cap Children = {} /\ Children \subseteq Generations /\ Changes \in Nat
  BY CatalogAssumption DEF Generations
<1>4. \A g \in Bases : /\ BaseContent(g) \in Content /\ BaseContent(g) # NoGeneration
                       /\ BaseContent(g).rows = RowsOf(g)
  BY BaseIsContent
<1>5. imports \in [Generations -> Content \cup {NoGeneration}]
  <2>1. \A g \in Generations : g = first => g \in Bases
    BY Caps
  <2> QED BY <1>1, <1>4, <2>1
<1>6. active # NoGeneration => Staged(active)
  BY <1>1, <1>3, <1>4 DEF Staged
<1>7. \A c \in Children : ~Staged(c)
  BY <1>1, <1>3, Caps DEF Staged
<1>8. CatalogInv
  <2>1. \A g \in Generations : Staged(g) => imports[g].rows = RowsOf(g)
    BY <1>1, <1>4, Caps DEF Staged
  <2> QED BY <1>1, <1>2, <1>3, <1>5, <1>6, <1>7, <2>1 DEF CatalogInv
<1>9. WalkInv
  <2>1. walk = Idle
    BY <1>2
  <2>2. WalkType
    BY <2>1 DEF WalkType, Idle
  <2>3. /\ walk.at = "idle" /\ walk.gen = NoGeneration /\ walk.after = 0 /\ walk.scanned = 0
        /\ walk.page = {} /\ walk.fit = {} /\ walk.tight = {}
    BY <2>1 DEF Idle
  <2> QED BY <2>2, <2>3 DEF WalkInv, WalkPinned, WalkCovers, PageCovers, WalkComplete, Overrun, Found
<1>10. TripInv
  <2>0. Unsent \in [Places -> Nat] /\ \A p \in Places : Unsent[p] = 0
    BY DEF Unsent
  <2>1. trip = NewTrip
    BY <1>2
  <2>2. TripType
    <3>1. [p \in Places |-> NoGeneration] \in [Places -> Generations \cup {NoGeneration}]
      OBVIOUS
    <3> QED BY <2>1, <2>0, <3>1 DEF TripType, NewTrip, Discovering
  <2>3. /\ trip.at = "search" /\ trip.raw = {} /\ trip.attempted = {} /\ trip.rated = {} /\ trip.frozen = {}
        /\ trip.asked = {} /\ trip.sent = Unsent /\ trip.repaired = {}
        /\ trip.cands = {} /\ trip.stops = {} /\ trip.excluded = {} /\ trip.tries = 0
    BY <2>1 DEF NewTrip
  <2>4. RatingInv /\ FactsInv
    BY <2>0, <2>3, Caps DEF RatingInv, FactsInv
  <2>5. PoolInv /\ CurrentInv /\ ReselectionSuffices
    BY <2>3, Caps DEF PoolInv, CurrentInv, ReselectionSuffices, Discovering, Choosing
  <2> QED BY <2>2, <2>4, <2>5 DEF TripInv
<1> QED BY <1>8, <1>9, <1>10 DEF PlanInv

LEMMA PlanSteps == PlanInv /\ [PlanNext]_planVars => PlanInv'
<1> SUFFICES ASSUME PlanInv, [PlanNext]_planVars PROVE PlanInv'
  OBVIOUS
<1> USE DEF PlanInv
<1>1. ASSUME UNCHANGED catalog PROVE CatalogInv' /\ CatalogKept
  BY <1>1 DEF catalog, CatalogInv, CatalogKept, Staged, Exceptions
<1>2. ASSUME UNCHANGED <<catalog, walk>> PROVE CatalogInv' /\ WalkInv'
  BY <1>1, <1>2, WalkStays
<1>3. ASSUME NEW q \in Points, Search(q) PROVE PlanInv'
  <2>1. CatalogInv'
    BY <1>1, <1>3 DEF Search
  <2>2. WalkInv'
    BY <1>3, IdleWalk DEF Search, StartWalk
  <2>3. TripType /\ trip.searched \cup {q} \in SUBSET Points
    BY DEF TripInv, TripType
  <2>4. trip' = [trip EXCEPT !.at = "walking", !.searched = trip.searched \cup {q}]
    BY <1>3, <2>3 DEF Search, TripType
  <2>5. TripInv'
    BY <1>3, <2>3, <2>4, MovesOn DEF Search, Discovering
  <2> QED BY <2>1, <2>2, <2>5
<1>4. CASE Walk
  <2>1. UNCHANGED catalog /\ UNCHANGED trip
    BY <1>4 DEF Walk, ReadPage, TakePage
  <2>2. WalkInv'
    BY <1>4, Reading, Taking DEF Walk
  <2> QED BY <2>1, <2>2, <1>1, TripStays
<1>5. CASE Gather
  <2>1. CatalogInv' /\ TripInv'
    BY <1>1, <1>5, Gathering DEF Gather
  <2>2. WalkInv'
    BY <1>5, IdleWalk DEF Gather
  <2> QED BY <2>1, <2>2
<1>6. CASE Ask \/ Repair
  BY <1>2, <1>6, AskKeeps, RepairKeeps DEF Ask, Repair
<1>7. CASE CheckRoads
  BY <1>2, <1>7, RoadsKeep DEF CheckRoads, Turn
<1>8. CASE Plan
  BY <1>2, <1>8, PlanKeeps DEF Plan, Turn
<1>9. CASE Select
  BY <1>2, <1>9, SelectKeeps DEF Select, Turn
<1>10. CASE Schedule
  BY <1>2, <1>10, ScheduleKeeps DEF Schedule, Turn
<1>11. CASE Refresh
  BY <1>2, <1>11, RefreshKeeps DEF Refresh, Conflict, Turn
<1>12. CASE Time
  BY <1>2, <1>12, TimeKeeps DEF Time, Conflict, Turn
<1>13. CASE Reroute
  <2>1. TripType
    BY DEF TripInv
  <2>2. trip' = [trip EXCEPT !.at = "refresh", !.searched = trip.searched] /\ UNCHANGED <<catalog, walk>>
    BY <1>13, <2>1 DEF Reroute, Turn, TripType
  <2>3. TripInv'
    BY <1>13, <2>1, <2>2, MovesOn DEF TripType, Reroute, Choosing, catalog
  <2> QED BY <1>2, <2>2, <2>3
<1>14. ASSUME Raise PROVE PlanInv'
  <2>1. CatalogInv'
    BY <1>1, <1>14 DEF Raise
  <2>2. WalkInv'
    BY <1>14, IdleWalk DEF Raise
  <2>3. TripInv'
    BY <1>14, LostTrip DEF Raise
  <2> QED BY <2>1, <2>2, <2>3
<1>15. CASE Rate \/ Refuse
  <2>1. CASE Rate /\ ~Raise
    BY <1>2, <2>1, RateKeeps DEF Rate, Turn
  <2>2. CASE Refuse
    BY <2>2, <1>14 DEF Refuse
  <2> QED BY <1>14, <1>15, <2>1, <2>2
<1>16. CASE Restart
  <2>1. PICK holds \in SUBSET Pilot, names \in SUBSET DOMAIN Entries : Deploy(holds, names)
    BY <1>16 DEF Restart, Release, CatalogInv
  <2>2. CatalogInv'
    <3>1. RegistryStands(Exceptions(registry), held)'
      BY <2>1 DEF Deploy, Exceptions
    <3> QED BY <2>1, <3>1, SwitchingKeeps DEF Deploy, CatalogInv
  <2>3. WalkInv'
    BY <2>1, IdleWalk DEF Deploy
  <2>4. TripInv'
    BY <1>16, LostTrip DEF Restart
  <2> QED BY <2>2, <2>3, <2>4
<1>17. CASE CatalogStep /\ UNCHANGED trip
  BY <1>17, CatalogSteps, WalkStays, TripStays
<1>18. CASE UNCHANGED planVars
  <2>1. UNCHANGED <<catalog, walk>> /\ UNCHANGED trip
    BY <1>18 DEF planVars
  <2> QED BY <2>1, <1>1, <1>2, TripStays
<1> QED BY <1>3, <1>4, <1>5, <1>6, <1>7, <1>8, <1>9, <1>10, <1>11, <1>12, <1>13, <1>15, <1>16, <1>17, <1>18
        DEF PlanNext, PlanStep

\* PlanInv holds of every state: the catalog's generations stay as they were staged, the paged lookup covers
\* what its generation has (PersistentCatalog.nearby_page), and the trip's pool, exclusions and budgets agree.
THEOREM Invariant == PlanSpec => []PlanInv
<1>1. PlanInit => PlanInv
  BY PlanStarts
<1>2. PlanInv /\ [PlanNext]_planVars => PlanInv'
  BY PlanSteps
<1> QED BY <1>1, <1>2, PTL DEF PlanSpec

\* Every state has the types of PlanTypeOK.
THEOREM PlanTypes == PlanSpec => []PlanTypeOK
<1>1. PlanInv => PlanTypeOK
  BY DEF PlanInv, CatalogInv, WalkInv, WalkType, TripInv, TripType, PlanTypeOK, CatalogTypeOK, Found
<1> QED BY <1>1, Invariant, PTL

\* A search finds, up to its limit, every place of its first page's generation that stays eligible, and none
\* of another generation (nearby_page's cursor, _trip_attractions).
THEOREM SearchIsComplete == PlanSpec => []WalkComplete
<1>1. PlanInv => WalkComplete
  BY DEF PlanInv, WalkInv
<1> QED BY <1>1, Invariant, PTL

\* No later round of discovery sends a place again to the paid rating: only the round that froze it does, once,
\* or twice where the first answer rated nothing of its group; and all rounds together send no more places than
\* the rating budget allows (attraction_candidates, rate).
THEOREM OneRatingRound == PlanSpec => []RatedInOneRound
<1>1. PlanInv => RatedInOneRound
  <2> SUFFICES ASSUME PlanInv PROVE RatedInOneRound
    OBVIOUS
  <2> DEFINE sent == {p \in Places : trip.sent[p] > 0}
  <2>1. RatingInv /\ trip.attempted \in SUBSET Places
    BY DEF PlanInv, TripInv, TripType
  <2>2. sent \in SUBSET trip.attempted /\ sent \in SUBSET Places
    BY <2>1 DEF RatingInv
  <2>3. Cardinality(sent) <= Cardinality(trip.attempted) /\ Cardinality(sent) \in Nat /\ Cardinality(trip.attempted) \in Nat
    BY <2>1, <2>2, PlacesSubset, PlacesFinite
  <2>4. Cardinality(sent) <= RatingCap
    BY <2>1, <2>3, Caps DEF RatingInv
  <2> QED BY <2>1, <2>4 DEF RatingInv, RatedInOneRound
<1> QED BY <1>1, Invariant, PTL

\* The loops of CPSatPlanner.plan and plan_final_route never run out of selections or of tries, and never
\* meet an excluded place again.
THEOREM LoopsSuffice == PlanSpec => []ReselectionSuffices
<1>1. PlanInv => ReselectionSuffices
  BY DEF PlanInv, TripInv
<1> QED BY <1>1, Invariant, PTL

\* The stops of an accepted trip are visitable, routable and where they were found, in the generation that was
\* active at the last check (refresh_for_timing); a held one has an exception for this very row, which does not
\* renew its admission (release_holds.blocked, hold_resolution).
THEOREM AcceptedIsCurrent == PlanSpec => []StopsCurrent
<1>1. PlanInv => StopsCurrent
  <2> SUFFICES ASSUME PlanInv, trip.at = "accepted", NEW p \in trip.stops
               PROVE  /\ p \in imports[trip.current].rows \ imports[trip.current].shut /\ p \in Routable[trip.current]
                      /\ LET f == Row(trip.current, p).facts
                         IN Identities(f) \cap held # {} =>
                              /\ \E e \in Exceptions(registry) : e.facts = f /\ e.ids = Identities(f) \cap held
                              /\ \E old \in f.history :
                                   \A c \in f.contracts, was \in old.contracts : was.expires >= c.expires
                      /\ (p \in imports[trip.current].moved) = (p \in imports[trip.facts[p]].moved)
                      /\ p \notin trip.excluded
    BY DEF StopsCurrent
  <2>1. CurrentInv /\ PoolInv /\ CatalogInv
    BY DEF PlanInv, TripInv
  <2> DEFINE row == Row(trip.current, p)
             imported == Imported(trip.current, p)
  <2>2. ~SqlBlocked(row, imported, held, Exceptions(registry)) /\ RegistryStands(Exceptions(registry), held)
    BY <2>1 DEF CurrentInv, CatalogInv
  <2>3. p \in Routable[trip.current] /\ trip.current \in Generations
    BY <2>1 DEF CurrentInv, PlanInv, TripInv, TripType
  <2>4. ASSUME Identities(row.facts) \cap held # {}
        PROVE  /\ \E e \in Exceptions(registry) : e.facts = row.facts /\ e.ids = Identities(row.facts) \cap held
               /\ \E old \in row.facts.history :
                    \A c \in row.facts.contracts, was \in old.contracts : was.expires >= c.expires
    <3>1. row.facts.contracts # {}
      BY <2>2, <2>4 DEF SqlBlocked, SqlResolved
    <3>2. \E c \in row.facts.contracts : row.facts.contracts = {c} /\ c.tier = "T3"
      BY <2>3, <3>1 DEF Routable
    <3> QED BY <2>2, <2>4, <3>2, ExceptionsRenewNothing
  <2> QED BY <2>1, <2>3, <2>4 DEF CurrentInv, PoolInv, Choosing
<1> QED BY <1>1, Invariant, PTL
=============================================================================
