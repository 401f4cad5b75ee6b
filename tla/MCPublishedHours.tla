---------------------------- MODULE MCPublishedHours ----------------------------
(***************************************************************************)
(* A small instance of PublishedHours: weeks of two days, years of three,  *)
(* a horizon of four that passes the year's end.  For every source, pages  *)
(* that vary one group of statements while the others are few.             *)
(***************************************************************************)
EXTENDS MCTripSchedule, PublishedHours, TLC

Placeholder == [position |-> 2, detour |-> 2, dwell |-> 4, calendar |-> Anytime]
MCWaiting == {[policy |-> Policy(36, 40, TRUE), departure |-> t, route |-> [drive |-> 4, border |-> 8, shift |-> 2],
               visit |-> Placeholder] : t \in {18, 38}}

Shut == [is |-> "shut", from |-> 0, to |-> 0]
Unknown == [is |-> "blank", from |-> 0, to |-> 0]
Clock(a, b) == [is |-> "clocks", from |-> a, to |-> b]
Table(a, b) == (0 :> a) @@ (1 :> b)
Daily(c) == Table(c, c)
Tables == {Daily(c) : c \in {Clock(18, 34), Clock(34, 18), Unknown}} \cup {Table(Clock(24, 46), Shut)}
OpenTables == {Daily(Clock(18, 40)), Table(Clock(24, 46), Shut)}
Ranges == {{}, {<<1, 1>>}, {<<2, 0>>}, {<<0, 0>>, <<2, 2>>}}

Exceptions == {[dates |-> r, prose |-> w, table |-> t, always |-> a] :
                 r \in Ranges, w \in {"closed", "closed_on_weekday", "hours"}, t \in Tables, a \in BOOLEAN}
Schedule(t, exceptions) == [table |-> t, exceptions |-> exceptions]
Plain == {Schedule(t, <<>>) : t \in Tables \cup OpenTables}
Usual == Schedule(Daily(Clock(18, 40)), <<>>)
Excepted == {Schedule(t, <<e>>) : t \in OpenTables, e \in Exceptions}
                 \cup {Schedule(Daily(Clock(18, 40)), <<e, f>>) :
                         e, f \in {x \in Exceptions : x.prose = "hours" /\ ~x.always /\ x.dates # {<<1, 1>>}}}

ParentsOf(roles) == {<<>>} \cup {<<[role |-> r, schedule |-> s]>> : r \in roles, s \in Plain \cup Excepted}
Parents == ParentsOf({"full", "exceptions", "other"})
Access == ParentsOf({"full", "other"})
Rules == {<<>>} \cup {<<[days |-> d, hours |-> h, found |-> f]>> :
                        d \in {Dates, {1}}, h \in {{<<0, 24>>, <<26, 48>>}, {}}, f \in BOOLEAN}
Park(source) == [source |-> source, genuine |-> TRUE, selected |-> Usual, parents |-> <<>>, prose |-> <<>>,
                 unclear |-> {}, closures |-> {}, until |-> 2]
Parks == UNION {
  {[Park("nps") EXCEPT !.selected = s, !.genuine = g] : s \in Plain \cup Excepted, g \in BOOLEAN},
  {[Park("nps") EXCEPT !.parents = p, !.until = u] : p \in Parents, u \in {1, 2}},
  {[Park("nps") EXCEPT !.prose = r, !.unclear = u] : r \in Rules, u \in {{}, {0, 2}}},
  {[Park("nps_more") EXCEPT !.selected = s] : s \in Plain \cup Excepted},
  {[Park("nps_more") EXCEPT !.parents = p] : p \in Access},
  {[Park("nps_more") EXCEPT !.prose = r, !.closures = c] : r \in Rules, c \in {{}, {0}}}}

Facility == [source |-> "facility", genuine |-> TRUE, ambiguous |-> FALSE, selected |-> Usual, parents |-> <<>>,
             lots |-> <<>>, clocks |-> <<>>, closures |-> {}]
Facilities == UNION {
  {[Facility EXCEPT !.selected = s] : s \in Plain \cup Excepted},
  {[Facility EXCEPT !.parents = p] : p \in Access},
  {[Facility EXCEPT !.lots = <<[near |-> n1, named |-> n2, spaces |-> k, schedule |-> s]>>] :
     n1, n2 \in BOOLEAN, k \in {0, 1}, s \in Plain \cup {Schedule(Daily(Clock(20, 30)), <<CHOOSE e \in Exceptions : TRUE>>)}},
  {[Facility EXCEPT !.clocks = c, !.closures = d, !.ambiguous = a] :
     c \in {<<>>, <<<<20, 30>>>>, <<<<30, 20>>>>, <<<<20, 30>>, <<24, 46>>>>}, d \in {{}, {0}}, a \in BOOLEAN}}

Literal == {{<<0, 48>>}, {<<16, 36>>}, {<<30, 44>>}, Held}
Forest(source) == [source |-> source, genuine |-> TRUE, publication |-> TRUE,
                   status |-> [construction |-> "open", public |-> "open"], changed |-> FALSE, ambiguous |-> FALSE, seasonal |-> FALSE, unclear |-> {2},
                   literals |-> [construction |-> {<<16, 36>>}, public |-> {<<16, 32>>}],
                   profile |-> [days |-> {0}, hours |-> <<16, 32>>,
                                literals |-> [construction |-> {<<16, 36>>}, public |-> {<<16, 32>>}]]]
Forests == UNION {
  {[Forest(s) EXCEPT !.status = [construction |-> x, public |-> y], !.publication = o, !.changed = c, !.ambiguous = a, !.seasonal = z] :
     s \in {"usfs", "usfs_current"}, x \in {"open", "closed"}, y \in {"open", "closed", "silent"}, o, c, a, z \in BOOLEAN},
  {[Forest(s) EXCEPT !.literals = [construction |-> x, public |-> y]] :
     s \in {"usfs", "usfs_current"}, x \in Literal, y \in Literal}}

Entry(d, kind, hours, featured) == [date |-> d, title |-> d, kind |-> kind, hours |-> hours, featured |-> featured]
EntrySets == {x \cup y \cup z :
  x \in {{}, {Entry(0, "open", <<20, 44>>, TRUE)}, {Entry(0, "open", <<20, 44>>, FALSE)}},
  y \in {{}} \cup {{Entry(0, "closed", h, TRUE)} : h \in {<<0, 48>>, <<24, 30>>, <<16, 24>>, <<40, 48>>, <<20, 44>>}},
  z \in {{}, {Entry(1, "open", <<20, 44>>, TRUE)}, {Entry(0, "open", <<24, 30>>, TRUE)}, {Entry(1, "closed", <<24, 30>>, TRUE)},
         {Entry(1, "open", <<44, 20>>, TRUE)}, {Entry(0, "closed", <<28, 46>>, TRUE)}, {Entry(2, "other", <<18, 40>>, TRUE)}}}
Operators == UNION {
  {[source |-> "entries", entries |-> SetToSeq(e)] : e \in EntrySets},
  {[source |-> "table", found |-> f, ambiguous |-> a, closures |-> c,
    rows |-> {[days |-> {0}, hours |-> <<20, 30>>], [days |-> d, hours |-> <<32, 44>>]}] :
     f, a \in BOOLEAN, c \in {{}, {0}, {2}}, d \in {{0}, {0, 1}}},
  {[source |-> "daily", found |-> f, hours |-> <<18, 34>>] : f \in BOOLEAN},
  {[source |-> "gallery", found |-> f, shut |-> s, feeds |-> <<[days |-> {0, 1}, hours |-> <<20, 32>>], [days |-> d, hours |-> h]>>] :
     f \in BOOLEAN, s \in {{}, {0}, {-1, 1}}, d \in {{0}, {0, 1}, {}}, h \in {<<20, 32>>, <<22, 40>>, <<34, 40>>}},
  {[source |-> "event", found |-> f, date |-> d, hours |-> <<24, 32>>] : f \in BOOLEAN, d \in 0..2},
  {[source |-> "shore", found |-> f, closed |-> c, hours |-> <<12, 46>>] : f, c \in BOOLEAN},
  {[source |-> "grid", found |-> TRUE, grid |-> g, footer |-> (0 :> x) @@ (1 :> 42)] :
     g \in [0..2 -> {Shut, Clock(22, 40), Clock(22, 44)}], x \in {38, 46}},
  {[source |-> "sessions", found |-> TRUE, months |-> m, general |-> (0 :> {<<30, 34>>, <<38, 43>>}) @@ (1 :> {}), special |-> s] :
     m \in {0..1, 0..3}, s \in {<<>>, 0 :> {<<38, 43>>}, 1 :> {<<26, 34>>}}},
  {[source |-> "events", found |-> TRUE, entries |-> {[Entry(0, k, <<20, 48>>, TRUE) EXCEPT !.title = t], Entry(d, "open", <<24, 48>>, TRUE)}] :
     k \in {"open", "closed"}, t \in {0, 3}, d \in {0, 1}},
  {[source |-> "month", found |-> TRUE, shown |-> x, schema |-> y, month |-> <<-1, 1>>] :
     x, y \in [0..1 -> {<<20, 40>>, <<24, 44>>}]}}

Feed(official, days, clocks, seasons) ==
  [official |-> official, genuine |-> TRUE, ambiguous |-> FALSE, days |-> days, clocks |-> clocks, seasons |-> seasons]
Seasons == {Season(TRUE, 0, 2), Season(TRUE, 2, 0), Season(TRUE, 0, 1), Season(FALSE, 0, 3), Season(FALSE, 1, 2)}
Feeds == {Feed(o, d, c, s) : o \in BOOLEAN, d \in {{}, {{0}}, {{0, 1}}}, c \in {{}, {<<20, 30>>}, {<<38, 52>>}, {<<24, 50>>}},
                             s \in {{}} \cup {{x} : x \in Seasons}}
Markets == UNION {
  {[source |-> "market", facts |-> {f, g}] : f \in {x \in Feeds : x.official /\ x.days # {}}, g \in {x \in Feeds : ~x.official}},
  {[source |-> "market", facts |-> {[Feed(TRUE, {{0}}, {<<20, 30>>}, {Season(TRUE, 2, 0)}) EXCEPT !.genuine = x, !.ambiguous = y]}] : x, y \in BOOLEAN}}

Layer(from, to, windows) == [from |-> from, to |-> to, windows |-> windows]
Shows(on, hours, last) == [on |-> on, hours |-> hours, lastEntry |-> last]
Layers == {Layer(f, 3, w) : f \in {0, 1},
             w \in {{Shows(Dates, <<20, 40>>, 96)}, {Shows(Dates, <<20, 40>>, 34)}, {Shows({0, 1}, <<38, 54>>, 96)},
                    {Shows({0}, <<20, 26>>, 96), Shows({0, 2}, <<32, 54>>, 44)}, {Shows(Dates, <<40, 60>>, 4)}}}
Venues == {[source |-> "venue", genuine |-> TRUE, ambiguous |-> a, layers |-> SetToSeq(l), shut |-> s, closures |-> c, unclear |-> u] :
             a \in BOOLEAN, l \in {x \in SUBSET Layers : Cardinality(x) <= 2}, s \in {{}, {1}}, c \in {{}, {0}}, u \in {{}, {1}, {2}}}

MCPages == Parks \cup Facilities \cup Forests \cup Operators \cup Markets \cup Venues
=============================================================================
