---------------------------- MODULE MCCatalogRefresh ----------------------------
(***************************************************************************)
(* Worlds of a few records for SourceAdmission and CatalogRefresh, beside  *)
(* the pages of MCPublishedHours: for every source one record that is      *)
(* admitted and those that differ from it in one thing, then duplicates,   *)
(* neighbours, merges, chains of enrichments, bindings and refreshes.      *)
(***************************************************************************)
EXTENDS MCPublishedHours, CatalogRefresh

\* A record that is admitted, and those in which one field has another value.
Variants(r, changes) == {r} \cup {[r EXCEPT ![c[1]] = c[2]] : c \in changes}

Rec(source, id, at) ==
  [source |-> source, id |-> id, at |-> at, native |-> id, names |-> {source}, region |-> "NY",
   donors |-> {}, page |-> NoPage, held |-> FALSE, read |-> 0]
Drive(at) == [snap |-> at + 1, claimed |-> 1, road |-> "Main"]
Far(at) == [Drive(at) EXCEPT !.snap = at + 4, !.claimed = 4]
OtherDrives(at) == {<<"drive", d>> : d \in {NoProof, Far(at), [Far(at) EXCEPT !.claimed = 1]}}
Road(at) == [from |-> at - 4, to |-> at + 4, class |-> "residential", name |-> "Main",
             below |-> FALSE, barred |-> FALSE, customers |-> FALSE]
OtherRoads(at) == {<<"way", w>> : w \in {NoProof, [Road(at) EXCEPT !.class = "motorway"], [Road(at) EXCEPT !.barred = TRUE],
                                      [Road(at) EXCEPT !.below = TRUE], [Road(at) EXCEPT !.name = "Other"],
                                      [Road(at) EXCEPT !.from = at + 4, !.to = at + 5]}}
Area(at) == [from |-> at - 1, to |-> at + 2, barred |-> FALSE, pays |-> TRUE]
Old == {<<"read", -5>>, <<"read", 1>>}
Not == {<<"genuine", FALSE>>}
Stating(r, publisher, what) == <<"says", [r.says EXCEPT ![publisher] = what]>>

Batch(source, records) ==
  [source |-> source, records |-> records, baseline |-> {}, selection |-> Ids(records), reviewed |-> FALSE]

-----------------------------------------------------------------------------
(* One record of each source *)

Place(id, at) ==
  Rec("overture", id, at) @@ [kind |-> "place", genuine |-> TRUE, says |-> [overture |-> "open"]]
Places == Variants(Place(1, 0), Not \cup {<<"kind", "office">>, <<"region", NoProof>>, Stating(Place(1, 0), "overture", "closed")})
Reviewed == Rec("overture", 1, 0) @@
  [kind |-> "place", genuine |-> TRUE, says |-> [overture |-> "open", operator |-> "open"], reviewed |-> TRUE,
   limit |-> 2, drive |-> Drive(0), street |-> "Main"]
Reviews == Variants(Reviewed, Old \cup OtherDrives(0) \cup
  {<<"reviewed", FALSE>>, <<"street", "Other">>, Stating(Reviewed, "operator", "silent")})

Trail == Rec("boulder", 2, 100) @@
  [kind |-> "trailhead", says |-> [operator |-> "open"], parking |-> TRUE, markers |-> {102}]
Trails == Variants(Trail, Old \cup {<<"held", TRUE>>, <<"parking", FALSE>>, <<"markers", {110}>>, <<"markers", {102, 103}>>,
                                  Stating(Trail, "operator", "closed")})

\* A route is asked only for the sites of the two listings and the facilities.
Center(source, id, at) == Rec(source, id, at) @@ (IF source = "nps" THEN <<>> ELSE [drive |-> Drive(at)]) @@
  [kind |-> "center", says |-> [agency |-> "open"], opens |-> TRUE, parking |-> TRUE, byCar |-> FALSE, states |-> {"NY"},
   strict |-> TRUE, closures |-> {}, warns |-> FALSE, ownState |-> TRUE]
Closing(kind, named, a, b) == {[kind |-> kind, named |-> named, range |-> <<a, b>>]}
CenterChanges(r) == Old \cup (IF r.source = "nps" THEN {} ELSE OtherDrives(r.at)) \cup
  {<<"parking", FALSE>>, <<"opens", FALSE>>, <<"states", {}>>, <<"warns", TRUE>>, <<"ownState", FALSE>>,
   Stating(r, "agency", "closed"), <<"closures", Closing("undated", TRUE, 0, 0)>>,
   <<"closures", Closing("undated", FALSE, 0, 0)>>, <<"closures", Closing("annual", TRUE, 2, 2)>>,
   <<"closures", Closing("dated", TRUE, -2, -1)>>, <<"closures", Closing("dated", TRUE, 1, 2)>>}
Centers(source) == Variants(Center(source, 3, 200), CenterChanges(Center(source, 3, 200)))

Lot(native, spaces) == Rec("beaches", 4, 300 + native) @@ [kind |-> "beach", says |-> [agency |-> "open"], spaces |-> spaces]
LotOf(native, spaces) == [Lot(native, spaces) EXCEPT !.native = native]
Beaches == {{LotOf(1, 10), LotOf(2, s), LotOf(3, t)} : s \in {0, 10, 12}, t \in {5, 12}}

Roadside == Rec("roadside", 5, 400) @@
  [genuine |-> TRUE, says |-> [overture |-> "open", operator |-> "open"], parking |-> TRUE, drive |-> Drive(400), street |-> "Main"]
Roadsides == Variants(Roadside, Not \cup Old \cup OtherDrives(400) \cup
  {<<"parking", FALSE>>, <<"street", "Other">>, Stating(Roadside, "operator", "closed"), Stating(Roadside, "overture", "closed")})

Site(source, id, at) == Rec(source, id, at) @@
  [kind |-> "site", says |-> [construction |-> "open", public |-> "open"], parking |-> TRUE, spaces |-> 0, warns |-> FALSE,
   reviewed |-> TRUE, season |-> NoProof, points |-> [public |-> at], states |-> {"NY"}, drive |-> Drive(at)]
SiteChanges(r) == Old \cup OtherDrives(r.at) \cup
  {<<"held", TRUE>>, <<"parking", FALSE>>, <<"warns", TRUE>>, <<"reviewed", FALSE>>, <<"season", <<1, 1>>>>, <<"season", <<2, 0>>>>,
   <<"points", [public |-> r.at + 21]>>, <<"points", [public |-> NoProof]>>, <<"states", {"NY", "VT"}>>,
   Stating(r, "construction", "closed"), Stating(r, "public", "closed"), Stating(r, "public", "silent")}
Sites == Variants(Site("usfs", 6, 500), SiteChanges(Site("usfs", 6, 500)))
CurrentSite(id, at) == [Site("usfs_current", id, at) EXCEPT !.page = Forest("usfs_current")]
Unlisted == [CurrentSite(6, 500) EXCEPT !.says = [construction |-> "open"], !.points = [public |-> NoProof]]
CurrentSites == {Unlisted} \cup Variants(CurrentSite(6, 500), SiteChanges(CurrentSite(6, 500)) \cup
  {<<"page", [Forest("usfs_current") EXCEPT !.seasonal = TRUE]>>})

TablePage == [source |-> "table", found |-> TRUE, ambiguous |-> FALSE, closures |-> {}, rows |-> {[days |-> {0}, hours |-> <<20, 40>>]}]
Park0 == [Rec("parks", 7, 600) EXCEPT !.page = TablePage] @@
  [genuine |-> TRUE, says |-> [operator |-> "open", wikidata |-> "silent", list |-> "open"],
   rule |-> [kind |-> "weekdays", days |-> {0}], points |-> [wikidata |-> 600], drive |-> Drive(600), way |-> Road(600),
   lot |-> NoProof, method |-> "street", building |-> NoProof, entrance |-> NoProof, map |-> TRUE, markers |-> {}]
AmusementParks == Variants(Park0, Not \cup Old \cup OtherDrives(600) \cup OtherRoads(600) \cup
  {<<"method", "parking frontage">>, <<"method", "parking">>, <<"method", "entry">>, <<"lot", [Area(600) EXCEPT !.barred = TRUE]>>,
   <<"points", [wikidata |-> 601]>>, <<"rule", [kind |-> "dates", days |-> {1, 2}]>>, <<"rule", [kind |-> "daily", days |-> {}]>>,
   Stating(Park0, "operator", "closed"), Stating(Park0, "wikidata", "closed"), Stating(Park0, "list", "closed")})
  \cup {[Park0 EXCEPT !.method = "parking", !.lot = Area(600)], [Park0 EXCEPT !.method = "parking frontage", !.lot = Area(600)],
        [Park0 EXCEPT !.method = "building", !.building = Area(600)], [Park0 EXCEPT !.method = "building", !.building = Area(600), !.entrance = 604],
        [Park0 EXCEPT !.method = "entry", !.markers = {602}]}

FacilityAt(id, at) == [Center("facilities", id, at) EXCEPT !.says = <<>>, !.page = Facility] @@ [sections |-> <<>>]
ByCar == [FacilityAt(8, 700) EXCEPT !.byCar = TRUE]
Paged == {[FacilityAt(8, 700) EXCEPT !.sections = s] :
            s \in {<<"facility", "car">>, <<"car", "facility">>, <<"facility", "travel", "car">>, <<"facility", "other", "car">>,
                   <<"facility", "car", "facility">>, <<"facility">>}}
FacilityRecords == Paged \cup Variants(ByCar, Old \cup OtherDrives(700) \cup
  {<<"parking", FALSE>>, <<"byCar", FALSE>>, <<"ownState", FALSE>>, <<"page", [Facility EXCEPT !.genuine = FALSE]>>})

GalleryPage == [source |-> "gallery", found |-> TRUE, shut |-> {1}, feeds |-> <<[days |-> {0, 1}, hours |-> <<20, 40>>], [days |-> {0}, hours |-> <<22, 44>>]>>]
Museum(id, at) == [Rec("cultural", id, at) EXCEPT !.page = GalleryPage] @@
  [genuine |-> TRUE, says |-> [operator |-> "open"], drive |-> Drive(at), way |-> Road(at), parking |-> TRUE, method |-> "street",
   markers |-> {at + 2}]
Museums == Variants(Museum(9, 800), Not \cup Old \cup OtherDrives(800) \cup OtherRoads(800) \cup
  {<<"method", "entry">>, <<"parking", FALSE>>, Stating(Museum(9, 800), "operator", "closed"), <<"held", TRUE>>,
   <<"page", [source |-> "event", found |-> TRUE, date |-> 1, hours |-> <<24, 32>>]>>})
  \cup {[Museum(9, 800) EXCEPT !.held = TRUE, !.drive = Far(800)]}

Shore(id, at) == [Rec("coastal", id, at) EXCEPT !.page = [source |-> "shore", found |-> TRUE, closed |-> FALSE, hours |-> <<16, 40>>]] @@
  [genuine |-> TRUE, says |-> [beach |-> "open", park |-> "open"], drive |-> Drive(at), way |-> Road(at), parking |-> TRUE,
   method |-> "street", park |-> Area(at), lot |-> Area(at), street |-> "Main", meets |-> 1]
Private == [Road(900) EXCEPT !.customers = TRUE, !.class = "service"]
Shores == Variants(Shore(10, 900), Not \cup Old \cup OtherDrives(900) \cup OtherRoads(900) \cup
  {<<"method", "drive">>, <<"method", "paid">>, <<"street", "Other">>, <<"parking", FALSE>>,
   Stating(Shore(10, 900), "beach", "closed"), Stating(Shore(10, 900), "park", "closed")})
  \cup {[Shore(10, 900) EXCEPT !.method = "drive", !.way = Private], [Shore(10, 900) EXCEPT !.method = "drive", !.lot = NoProof, !.meets = 2],
        [Shore(10, 900) EXCEPT !.method = "drive", !.lot = NoProof], [Shore(10, 900) EXCEPT !.method = "paid", !.way = Private],
        [Shore(10, 900) EXCEPT !.method = "paid", !.lot = [Area(900) EXCEPT !.pays = FALSE]]}
HeldShore(method) == [Shore(11, 1000) EXCEPT !.held = TRUE, !.method = method]
Holds == {[HeldShore("closed") EXCEPT !.says = [beach |-> "closed", park |-> "open"]], HeldShore("closed"),
          [HeldShore("motorway") EXCEPT !.way = [Road(1000) EXCEPT !.class = "motorway"]], HeldShore("motorway")}

Prospect(id, at) == Rec("pilot", id, at) @@
  [genuine |-> TRUE, kind |-> "prospect", says |-> [operator |-> "open"], states |-> {"NY"}, rows |-> 1]
ProspectRecords == Variants(Prospect(12, 1100), Not \cup Old \cup
  {<<"held", TRUE>>, <<"kind", "other">>, <<"states", {"NY", "VT"}>>, <<"rows", 2>>, Stating(Prospect(12, 1100), "operator", "closed")})

Fact(official, seasons) == Feed(official, {{0}}, {<<20, 40>>}, seasons)
Official(at, fact) ==
  [fits |-> TRUE, place |-> "hall", fact |-> fact, zip |-> 10, numbered |-> TRUE, visited |-> TRUE, at |-> at]
Form(at) == [published |-> TRUE, status |-> "match", inTown |-> TRUE, literal |-> TRUE, at |-> at]
Market(source, id, at, region, seasons) == [Rec(source, id, at) EXCEPT !.region = region] @@
  [current |-> "same", officials |-> {Official(at + 1, Fact(TRUE, seasons))},
   feeds |-> [canonical |-> Fact(FALSE, {}), latest |-> Fact(FALSE, {})], zip |-> 10, canonicalZip |-> 10, street |-> FALSE,
   forms |-> {Form(at + 2)}, block |-> "fits", everyForm |-> TRUE, drive |-> Drive(at), says |-> <<>>]
Summer == {Season(FALSE, 0, 2)}
MonthsOpen == {Season(TRUE, 2, 0)}
OfficialChanges(o) ==
  {[o EXCEPT !.fits = FALSE], [o EXCEPT !.zip = NoProof], [o EXCEPT !.zip = 11], [o EXCEPT !.numbered = FALSE],
   [o EXCEPT !.visited = FALSE], [o EXCEPT !.at = NoProof], [o EXCEPT !.at = @ + 4], [o EXCEPT !.fact.seasons = {}],
   [o EXCEPT !.fact.days = {{1}}], [o EXCEPT !.fact.seasons = {Season(FALSE, 1, 2)}], [o EXCEPT !.fact.ambiguous = TRUE],
   [o EXCEPT !.fact.clocks = {<<20, 22>>}]}
MarketChanges(r) ==
  LET official == CHOOSE o \in r.officials : TRUE
      form == CHOOSE f \in r.forms : TRUE
      feeds(fact) == <<"feeds", [r.feeds EXCEPT !.latest = fact]>>
  IN Old \cup OtherDrives(r.at) \cup {<<"officials", {o}>> : o \in OfficialChanges(official)} \cup
     {<<"officials", {official, o}>> : o \in {[official EXCEPT !.place = "other"], [official EXCEPT !.zip = NoProof]}} \cup
     {<<"current", "changed">>, <<"current", "missing">>, <<"held", TRUE>>, <<"zip", NoProof>>, <<"canonicalZip", 11>>, <<"street", TRUE>>,
      <<"block", "other">>, <<"everyForm", FALSE>>, feeds(Fact(FALSE, {Season(TRUE, 1, 1)})), feeds(Fact(FALSE, Summer)),
      feeds(Fact(FALSE, MonthsOpen)), <<"region", "TX">>} \cup
     {<<"forms", {f}>> : f \in {[form EXCEPT !.status = "none"], [form EXCEPT !.inTown = FALSE], [form EXCEPT !.literal = FALSE],
                                [form EXCEPT !.published = FALSE], [form EXCEPT !.at = r.at + 5]}} \cup
     {<<"forms", {form, [form EXCEPT !.literal = FALSE, !.at = r.at]}>>}
MarketsOf(source, region, seasons) ==
  LET r == Market(source, 13, 1200, region, seasons) IN Variants(r, MarketChanges(r))

-----------------------------------------------------------------------------
(* Worlds *)

World(inputs) == [inputs |-> inputs, merges |-> <<>>, enrichments |-> <<>>, refresh |-> NoProof]
Input(batch) == [batch |-> batch, bindings |-> <<>>]
Child(parent, inputs) == [parent |-> parent, entries |-> <<>>, inputs |-> inputs]
Grown(base, children) == [World(base) EXCEPT !.enrichments = children]
Home == Batch("overture", {Place(1, 0)})

Based(source, records) == {World(<<Batch(source, {r})>>) : r \in records}
Added(source, records) == {Grown(<<Home>>, <<Child(0, <<Input(Batch(source, {r}))>>)>>) : r \in records}

Single == UNION {
  Based("overture", Places), {World(<<[Batch("overture", {r}) EXCEPT !.reviewed = TRUE]>>) : r \in Reviews},
  Based("boulder", Trails), Based("nps", Centers("nps")), Based("heritage", Centers("heritage")), Based("nature", Centers("nature")),
  {World(<<Batch("beaches", b)>>) : b \in Beaches}, Based("roadside", Roadsides), Based("usfs", Sites),
  Based("parks", AmusementParks), Based("markets", MarketsOf("markets", "CT", Summer) \cup MarketsOf("markets", "CA", MonthsOpen)),
  Added("facilities", FacilityRecords), Added("usfs_current", CurrentSites), Added("cultural", Museums), Added("coastal", Shores),
  Added("pilot", ProspectRecords), Added("ny_markets", MarketsOf("ny_markets", "NY", Summer)),
  Added("ca_markets", MarketsOf("ca_markets", "CA", MonthsOpen)), Added("more_ny_markets", MarketsOf("more_ny_markets", "NY", Summer)),
  {Grown(<<Home>>, <<Child(0, <<Input(Batch("coastal", {Shore(10, 900), r}))>>)>>) : r \in Holds}}

\* Rows of one place: duplicates, neighbours, and what a reviewed mapping makes of them.
Twin(r) == [r EXCEPT !.names = {"twin"}]
HomeAt(at) == Batch("overture", {Twin(Place(1, at))})
CenterBatch == Batch("nps", {Twin(Center("nps", 3, 200))})
Merged(at, rules) == [World(<<HomeAt(at), CenterBatch>>) EXCEPT !.merges = rules]
Farmers == Twin(Market("markets", 13, 206, "CT", Summer))
Merges == UNION {
  {Merged(at, rules) : at \in {200, 205, 211}, rules \in {<<>>, <<[keep |-> 1, merge |-> 3]>>, <<[keep |-> 3, merge |-> 1]>>, <<[keep |-> 3, merge |-> 3]>>}},
  {Merged(200, <<[keep |-> 1, merge |-> 3], [keep |-> 1, merge |-> 3]>>), World(<<HomeAt(0), HomeAt(0)>>),
   World(<<HomeAt(0), Batch("overture", {Place(1, 9)})>>),
   [World(<<HomeAt(200), Batch("markets", {Farmers})>>) EXCEPT !.merges = <<[keep |-> 1, merge |-> 13]>>],
   [World(<<Batch("overture", {[Twin(Place(1, 200)) EXCEPT !.region = "CT"]}), Batch("markets", {Farmers})>>)
      EXCEPT !.merges = <<[keep |-> 1, merge |-> 13]>>]},
  {World(<<Batch("nps", {Center("nps", 3, 200), [Center("nps", 30, 300) EXCEPT !.native = k]})>>) : k \in {3, 30}},
  {World(<<Batch("heritage", {Center("heritage", 3, 200), [Center("heritage", 30, 300) EXCEPT !.native = 3, !.warns = w]})>>) : w \in BOOLEAN},
  {World(<<Batch("usfs", {Site("usfs", 6, 500), Site("usfs", i, 600)})>>) : i \in {6, 60}},
  {World(<<Batch("markets", {Market("markets", 13, 1200, "CT", Summer), Market("markets", 14, at, "CT", Summer)})>>) : at \in {1209, 1210}}}

\* Enrichments of a base with one place and one center.
Base == <<Home, Batch("nps", {Center("nps", 3, 200)})>>
Plant(id, native, at) == [FacilityAt(id, at) EXCEPT !.byCar = TRUE, !.native = native]
Hour == [Facility EXCEPT !.clocks = <<<<20, 30>>>>]
Bound(records, selected, bindings) == [batch |-> Batch("facilities", records), selected |-> selected, bindings |-> bindings]
Museum0 == Batch("cultural", {Museum(9, 800)})
Roster(at) == Batch("ny_markets", {Market("ny_markets", 13, at, "NY", Summer)})
Fills(r) == Bound({r}, {}, r.id :> 3)
Stated(hours) == [page |-> GalleryPage, hours |-> hours]
OpenGallery == FromGallery(GalleryPage)
Enrichments == UNION {
  {Grown(Base, <<Child(0, <<Input(Museum0), Input(Roster(at))>>)>>) : at \in {800, 805, 810, 1200}},
  {Grown(Base, <<Child(0, <<Input([Museum0 EXCEPT !.records = {Museum(9, at)}])>>)>>) : at \in {5, 10}},
  {Grown(Base, <<Child(0, <<Input([Museum0 EXCEPT !.records = {Museum(9, 800)}, !.baseline = {Place(90, at)}])>>)>>) : at \in {805, 900}},
  {Grown(Base, <<Child(0, <<Input(Museum0), Input([Museum0 EXCEPT !.records = {Museum(9, 900)}])>>)>>),
   Grown(Base, <<Child(0, <<Input([Museum0 EXCEPT !.records = {Museum(1, 800)}])>>)>>),
   Grown(Base, <<Child(0, <<Input(Batch("roadside", {Roadside}))>>)>>), Grown(Base, <<Child(0, <<>>)>>)},
  {Grown(Base, <<Child(0, <<Bound({Plant(30, k, at)}, s, 30 :> t)>>)>>) : k \in {3, 4}, at \in {200, 201}, s \in {{}, {30}}, t \in {1, 3, 99}},
  {Grown(Base, <<Child(0, <<[Input(Batch("facilities", {Plant(30, k, at)})) EXCEPT !.bindings = 30 :> t]>>)>>) :
     k \in {3, 4}, at \in {200, 201}, t \in {1, 3, 99}},
  {Grown(Base, <<Child(0, <<Bound({Plant(30, 3, 200), Plant(31, 4, 300)}, s, b)>>)>>) : s \in {{31}, {32}}, b \in {30 :> 3, (30 :> 3) @@ (31 :> 3), 32 :> 3}},
  {[Merged(200, <<rule>>) EXCEPT !.enrichments = <<Child(0, <<Fills([Plant(30, 3, 200) EXCEPT !.id = 30])>>)>>] :
     rule \in {[keep |-> 1, merge |-> 3], [keep |-> 3, merge |-> 1]}},
  {Grown(<<Home, Batch("usfs", {Site("usfs", 6, 500)})>>,
         <<Child(0, <<[Bound({[CurrentSite(60, 500) EXCEPT !.native = 6]}, {}, 60 :> 6) EXCEPT !.batch.source = "usfs_current"]>>)>>)},
  {Grown(Base, <<Child(0, <<>>), Child(0, <<Fills(Plant(30, 3, 200))>>)>>)},
  {Grown(Base, <<[Child(0, <<>>) EXCEPT !.entries = id :> Stated(h)]>>) : id \in {1, 99}, h \in {OpenGallery, Held, Unresolved}},
  {Grown(Base, <<[Child(0, <<Input(Museum0)>>) EXCEPT !.entries = 9 :> Stated(OpenGallery)]>>)}}

\* Chains: a second enrichment of the first, and of the base beside it.
Chains ==
  {Grown(Base, <<Child(0, <<Fills(Plant(30, 3, 200))>>), Child(p, <<Fills([Plant(31, 3, 200) EXCEPT !.page = Hour])>>)>>) : p \in {0, 1}} \cup
  {Grown(Base, <<Child(0, <<Fills(Plant(30, 3, 200))>>), [Child(1, <<>>) EXCEPT !.entries = 3 :> Stated(OpenGallery)]>>),
   Grown(Base, <<Child(0, <<Input(Museum0)>>), Child(1, <<Input(Roster(805))>>)>>),
   Grown(Base, <<Child(0, <<Input(Museum0)>>), Child(1, <<Input(Roster(1200))>>)>>),
   Grown(<<HomeAt(200), Batch("markets", {Market("markets", 13, 300, "CT", Summer)})>>,
         <<[Child(0, <<>>) EXCEPT !.entries = 13 :> Stated(OpenGallery)]>>)}

\* Prospects: in order, against the local baseline and those before.
Prospecting(records, baseline) ==
  Grown(Base, <<Child(0, <<Input([Batch("pilot", records) EXCEPT !.baseline = baseline])>>)>>)
Second == {[Prospect(121, 1105) EXCEPT !.names = {"b"}], Prospect(121, 1300), [Prospect(121, 1300) EXCEPT !.region = "VT"],
           [Prospect(121, 1300) EXCEPT !.names = {"b"}, !.native = 12], [Prospect(121, 1300) EXCEPT !.names = {"b"}]}
Pilots == {Prospecting({Prospect(12, 1100), r}, b) : r \in Second, b \in {{}, {Place(90, 1108)}, {Place(90, 1292)}}}

\* Rosters whose frozen selection, baseline or lone rows differ.
Reviewing(source, region, seasons, second, selection, baseline) ==
  Grown(<<Home>>, <<Child(0, <<Input([Batch(source, {Market(source, 13, 1200, region, seasons), second})
                                        EXCEPT !.selection = selection, !.baseline = baseline])>>)>>)
RosterWorlds == UNION {
  {Reviewing("ny_markets", "NY", Summer, Market("ny_markets", 14, at, "NY", Summer), s, b) :
     at \in {1205, 1300}, s \in {{13}, {13, 14}, {}}, b \in {{}, {Place(90, 1306)}, {Place(14, 0)}}},
  {Reviewing("ca_markets", "CA", MonthsOpen, Market("ca_markets", 14, 1300, "CA", seasons), s, {}) :
     seasons \in {MonthsOpen, {Season(TRUE, 0, 1)}}, s \in {{13}, {13, 14}}}}

\* A refresh of what the base, or an enrichment of it, serves.
Refreshed(base, children, parent, sources, corridor) ==
  [Grown(base, Append(children, NoProof)) EXCEPT
     !.refresh = [parent |-> parent, writes |-> Len(children) + 1, sources |-> sources, corridor |-> corridor]]
Units == Batch("facilities", {Plant(30, 3, 200), [Plant(31, 31, 700) EXCEPT !.names = {"shared"}]})
Forestry(at, names) == Batch("usfs_current", {[CurrentSite(60, at) EXCEPT !.names = names], [CurrentSite(61, 900) EXCEPT !.native = 61]})
Refreshes == UNION {
  {Refreshed(Base, <<>>, 0, <<Units, Forestry(at, names)>>, c) :
     at \in {705, 800}, names \in {{"shared"}, {"lake"}}, c \in {NoProof, [from |-> 690, to |-> 702], [from |-> 705, to |-> 950]}},
  {Refreshed(Base, <<>>, 0, <<Forestry(705, {"lake"}), Units>>, NoProof)},
  {Refreshed(Base, <<Child(0, <<Fills(Plant(30, 3, 200))>>)>>, 1, <<Units, Forestry(800, {"lake"})>>, NoProof)},
  {Refreshed(<<Home, Batch("usfs", {[Site("usfs", 6, 500) EXCEPT !.native = 60]})>>, <<>>, 0, <<Forestry(at, {"lake"})>>, NoProof) : at \in {500, 505, 800}},
  {Refreshed(Base, <<>>, 0, <<Batch("facilities", {Plant(30, 3, 200), Plant(31, k, 700)})>>, NoProof) : k \in {3, 31}}}

MCWorlds == UNION {Single, Merges, Enrichments, Chains, Pilots, RosterWorlds, Refreshes}
=============================================================================
