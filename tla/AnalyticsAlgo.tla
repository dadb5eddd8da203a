------------------------------- MODULE AnalyticsAlgo -------------------------------
(***************************************************************************)
(* What the tables of the analytics tabs compute (public/analytics.js):    *)
(* bars, reach rings, grouped channels, filter buttons and their counts,   *)
(* starred repeaters, route patterns.  One step computes one of them.      *)
(***************************************************************************)
EXTENDS OneStep, Integers, Sequences, SequencesExt, FiniteSetsExt, Functions

CONSTANT MaxRows        \* bound on the rows of an input

ASSUME AnalyticsTablesAssumption == MaxRows \in Nat

Rows(S) == UNION {[1..n -> S] : n \in 0..MaxRows}
Percent(n, of) == (100 * n) \div of
Upto(s, n) == SubSeq(s, 1, Min({n, Len(s)}))
SumOf(s) == FoldSeq(+, 0, s)
CountBy(s, Test(_)) == Len(SelectSeq(s, Test))

-----------------------------------------------------------------------------
\* Bars, in percent of the track.  Server lists come with the largest first.
renderPayloadPie(counts) == [i \in DOMAIN counts |-> Max({Percent(counts[i], SumOf(counts)), 1})]
renderRepeaterTable(counts) == [i \in 1..Min({15, Len(counts)}) |-> Percent(counts[i], counts[1])]
renderTopSenders(counts) == [i \in 1..Min({10, Len(counts)}) |-> Percent(counts[i], counts[1])]
sizesOfTotal(dist) == [i \in DOMAIN dist |-> Max({Percent(dist[i], Max({SumOf(dist), 1})), IF dist[i] > 0 THEN 2 ELSE 0})]
\* The tallest fills the track, none that is not zero vanishes.
renderHashSizes(dist) ==
    LET max == Max(Range(dist) \union {1})
    IN  [i \in DOMAIN dist |-> Max({Percent(dist[i], max), IF dist[i] > 0 THEN 2 ELSE 0})]
_renderRolesTabBody(counts) == [i \in DOMAIN counts |-> Percent(counts[i], Max(Range(counts) \union {1}))]
\* One row: where the connector of the two dots starts and how long it is.
renderRelayAirtimeDumbbell(count, airtime) == [left |-> Min({count, airtime}), width |-> Max({count, airtime}) - Min({count, airtime})]

computeBars ==
    \/ \E c \in Rows(0..3) :
          /\ \A i \in 2..Len(c) : c[i] <= c[i - 1]
          /\ \/ c # <<>> /\ c[1] > 0 /\ (\/ Computes("bars", c, renderPayloadPie(c)) \/ Computes("bars", c, renderRepeaterTable(c))
                                         \/ Computes("bars", c, renderTopSenders(c)))
             \/ Computes("bars", c, _renderRolesTabBody(c))
    \/ \E c \in [1..3 -> 0..3] : Computes("sizes", c, renderHashSizes(c))
    \/ \E a, b \in {0, 1, 40, 100} : Computes("dumbbell", {a, b}, renderRelayAirtimeDumbbell(a, b))
\* No bar leaves its track, nothing that was counted is without a bar, and
\* the largest hash size fills the track even if all are small.
BarsFit ==
    /\ alg = "bars" => \A i \in DOMAIN res : res[i] \in 0..100
    /\ alg = "sizes" => /\ \A i \in 1..3 : res[i] \in 0..100 /\ (arg[i] > 0 => res[i] > 0)
                        /\ SumOf(arg) > 0 => 100 \in Range(res)
    /\ alg = "dumbbell" => {res.left, res.left + res.width} = arg

-----------------------------------------------------------------------------
\* Reach: nodes are [id, dist]; a ring shows some and counts the rest.
Ring(nodes, cap) == [shown |-> Upto(nodes, cap), more |-> Max({Len(nodes) - cap, 0}), total |-> Len(nodes)]
bestPathFirst(nodes) == [d \in {n.dist : n \in Range(nodes)} |-> Ring(SelectSeq(nodes, LAMBDA n : n.dist <= d), 10)]
renderBestPath(nodes) == [d \in {n.dist : n \in Range(nodes)} |-> Ring(SelectSeq(nodes, LAMBDA n : n.dist = d), 10)]
renderPerObserverReach(rings) == [i \in DOMAIN rings |-> Ring(rings[i], 8)]
\* perObserverReach is one such list per observer, or none.
renderAllObserversReach(reach) == [o \in DOMAIN reach |-> renderPerObserverReach(reach[o])]
computeReach ==
    \/ \E ds \in [1..3 -> 1..3] : LET nodes == [i \in 1..3 |-> [id |-> i, dist |-> ds[i]]] IN Computes("bestPath", nodes, renderBestPath(nodes))
    \/ \E n \in 6..12 : LET all == [o \in {"o1", "o2"} |-> <<[i \in 1..n |-> i], [i \in 1..2 |-> i]>>] IN Computes("reach", all, renderAllObserversReach(all))
\* Every node is in the ring of its distance and in no other; what is shown
\* and what is said to be more is all there is.
RingsComplete ==
    LET whole(r) == Len(r.shown) + r.more = r.total
    IN  /\ alg = "bestPath" => /\ \A d \in DOMAIN res : whole(res[d]) /\ res[d].shown # <<>>
                               /\ \A i \in DOMAIN arg : {d \in DOMAIN res : arg[i] \in Range(res[d].shown)} = {arg[i].dist}
        /\ alg = "reach" => \A o \in DOMAIN arg : \A i \in DOMAIN arg[o] : whole(res[o][i]) /\ res[o][i].total = Len(arg[o][i])

-----------------------------------------------------------------------------
\* Channels: [hash, enc, name, n], name "" or a placeholder (chNNN) when the
\* server does not know it; keys are the hash bytes we have a key for.
ChanRow == [hash : {1, 2}, enc : BOOLEAN, name : {"", "ch", "real"}, n : {1, 5}]
groupOf(c, keys) ==
    IF ~c.enc THEN "network"
    ELSE IF c.hash \in keys THEN "mine"
    ELSE IF c.name \in {"", "ch"} THEN "encrypted" ELSE "network"
decorateAnalyticsChannels(channels, keys) == [i \in DOMAIN channels |-> [id |-> i, c |-> channels[i], group |-> groupOf(channels[i], keys)]]
sortUp(rows, dir) == SortSeq(rows, LAMBDA a, b : a.c.n < b.c.n)
\* By messages; the sort is stable.
sortChannels(rows, dir) ==
    SortSeq(rows, LAMBDA a, b : IF a.c.n # b.c.n THEN (IF dir = "asc" THEN a.c.n < b.c.n ELSE a.c.n > b.c.n) ELSE a.id < b.id)
channelTbodyHtml(rows, dir) == [g \in {"mine", "network", "encrypted"} |-> SelectSeq(sortChannels(rows, dir), LAMBDA r : r.group = g)]
computeChannels ==
    \E cs \in [1..2 -> ChanRow], keys \in SUBSET {1, 2}, dir \in {"asc", "desc"} :
       Computes("channels", [cs |-> cs, keys |-> keys, dir |-> dir], channelTbodyHtml(decorateAnalyticsChannels(cs, keys), dir))
\* Each channel has one row; within a section rows follow the chosen order;
\* a channel we hold the key of is ours, and never shown as closed.
EachChannelOnce ==
    alg = "channels" =>
       /\ \A i \in DOMAIN arg.cs : Cardinality({<<g, k>> \in {"mine", "network", "encrypted"} \X (1..2) : k \in DOMAIN res[g] /\ res[g][k].id = i}) = 1
       /\ \A g \in DOMAIN res : \A k \in 1..(Len(res[g]) - 1) :
             IF arg.dir = "asc" THEN res[g][k].c.n <= res[g][k + 1].c.n ELSE res[g][k].c.n >= res[g][k + 1].c.n
       /\ \A k \in DOMAIN res["encrypted"] : res["encrypted"][k].c.hash \notin arg.keys

-----------------------------------------------------------------------------
\* Filter buttons: adopters by capability, clocks by severity.  A clock of
\* severity no_clock is counted by no button but All.
buttonOfTotal(rows, f) == [shown |-> IF f = "all" THEN rows ELSE SelectSeq(rows, LAMBDA r : r = f), button |-> Len(rows)]
renderMultiByteAdopters(rows, f) ==
    [shown |-> IF f = "all" THEN rows ELSE SelectSeq(rows, LAMBDA r : r = f),
     button |-> IF f = "all" THEN Len(rows) ELSE CountBy(rows, LAMBDA r : r = f)]
\* A node the capability list does not name is of unknown capability.
statusOfAdopter(caps, n) == IF n \in DOMAIN caps THEN caps[n] ELSE "unknown"
renderClockHealthTab(rows, f) ==
    [shown |-> IF f = "all" THEN rows ELSE SelectSeq(rows, LAMBDA r : r = f),
     button |-> IF f = "all" THEN Len(rows) ELSE IF f = "no_clock" THEN 0 ELSE CountBy(rows, LAMBDA r : r = f)]
computeFilters ==
    \/ \E caps \in [{1, 2} -> {"confirmed", "suspected", "unknown"}], f \in {"all", "confirmed", "suspected", "unknown"} :
          LET rows == [n \in 1..3 |-> statusOfAdopter(caps, n)] IN Computes("filter", f, renderMultiByteAdopters(rows, f))
    \/ \E rows \in Rows({"ok", "warning", "critical", "no_clock"}), f \in {"all", "ok", "warning", "critical"} : Computes("filter", f, renderClockHealthTab(rows, f))
\* The number on the button that is pressed is the number of rows.
ButtonCounts == alg = "filter" => Len(res.shown) = res.button

\* Starred repeaters: nodes are those the scoped fetch returned.
paint(favs, nodes, scoped) ==
    LET mine == {n \in nodes : n.id \in favs /\ n.role # "companion"}
        with(s) == Cardinality({n \in mine : n.status = s})
    IN  [rows |-> mine, active |-> with("active"), degraded |-> with("degraded"), silent |-> Cardinality(mine) - with("active") - with("degraded"),
         hidden |-> IF scoped THEN Cardinality(favs \ {n.id : n \in nodes}) ELSE 0]
paintShown(favs, nodes, scoped) == [paint(favs, nodes, scoped) EXCEPT !.hidden = IF scoped THEN Cardinality(favs) - Cardinality(paint(favs, nodes, scoped).rows) ELSE 0]
renderMyRepeatersTab(favs, nodes, scoped) == paint(favs, nodes, scoped)
computeRepeaters ==
    \E roles \in [1..3 -> {"repeater", "companion"}], st \in [1..3 -> {"active", "silent"}], inScope, favs \in SUBSET (1..3) :
       Computes("favourites", [favs |-> favs, roles |-> roles, scope |-> inScope],
                renderMyRepeatersTab(favs, {[id |-> i, role |-> roles[i], status |-> st[i]] : i \in inScope}, inScope # 1..3))
\* Nothing starred disappears in silence: a starred node is in the table, or
\* is a companion, or is among those said to be hidden; the cards add up.
FavouritesAccounted ==
    alg = "favourites" =>
       /\ Cardinality(arg.favs) = Cardinality(res.rows) + res.hidden + Cardinality({i \in arg.favs \intersect arg.scope : arg.roles[i] = "companion"})
       /\ res.active + res.degraded + res.silent = Cardinality(res.rows)

\* Route patterns by the bytes of their hops.
pathTrustMet(b, trust) == trust <= 1 \/ b >= trust
subpathsFirst(paths, hide1, trust) == SelectSeq(paths, LAMBDA p : ~(hide1 /\ p[1] = 1) /\ pathTrustMet(p[1], trust))

renderSubpaths(paths, hide1, trust) == SelectSeq(paths, LAMBDA p : \A i \in DOMAIN p : ~(hide1 /\ p[i] = 1) /\ (trust >= 2 => pathTrustMet(p[i], trust)))
computeSubpaths == \E ps \in [1..2 -> [1..2 -> 1..3]], h \in BOOLEAN, t \in 1..3 : Computes("subpaths", [ps |-> ps, h |-> h, t |-> t], renderSubpaths(ps, h, t))
\* Every hop of a shown pattern is trusted, and a trusted pattern is shown.
PatternsTrusted ==
    alg = "subpaths" => Range(res) = {p \in Range(arg.ps) : Min(Range(p)) >= arg.t /\ (arg.h => Min(Range(p)) > 1)}

AnalyticsTablesNext == computeBars \/ computeReach \/ computeChannels \/ computeFilters \/ computeRepeaters \/ computeSubpaths

------------------------------------------------------------------------------
(***************************************************************************)
(* What the analytics tabs show of the server's answers                    *)
(* (public/analytics.js): the labels of the hours, the sample of the       *)
(* signal scatter, the observer selector, the matrix's tooltip, a route's  *)
(* distances and its way to the map, the rankings of nodes, the overview   *)
(* of the prefixes and the zoom of the neighbour graph.                    *)
(***************************************************************************)

CONSTANTS ScatterCap,   \* most dots of the signal scatter (500)
          TopRows       \* rows of a ranking (15)

ASSUME AnalyticsViewsAssumption == ScatterCap \in Nat \ {0} /\ TopRows \in Nat \ {0}

upDiv(a, b) == (a + b - 1) \div b

-----------------------------------------------------------------------------
\* Overview: the label under the bar of each hour of the day that starts at
\* hour "from" and lasts n hours.
labelEverySix(hour, n) == IF hour % 6 # 0 THEN "" ELSE IF n > 48 /\ hour = 0 THEN "date" ELSE "hour"
HourLabel(hour, n) ==
    LET interval == IF n <= 24 THEN 6 ELSE IF n <= 72 THEN 12 ELSE 24
    IN  IF hour % interval # 0 THEN "" ELSE IF n > 48 /\ hour = 0 THEN "date" ELSE "hour"
renderOverview(from, n) == [i \in 1..n |-> HourLabel((from + i - 1) % 24, n)]

computeHours == \E from \in {0, 5, 6, 23}, n \in {1, 7, 24, 25, 48, 49, 72, 73, 100} : Computes("hours", [from |-> from, n |-> n], renderOverview(from, n))
\* An axis of many hours is not crowded, a range of more than two days tells
\* its days apart, and a day's range has a label at all.
LabelsReadable ==
    alg = "hours" =>
        LET shown == {i \in DOMAIN res : res[i] # ""}
        IN  /\ Cardinality(shown) <= 7
            /\ arg.n >= 24 => shown # {}
            /\ arg.n > 48 => \A i \in DOMAIN res : (arg.from + i - 1) % 24 = 0 <=> res[i] = "date"

-----------------------------------------------------------------------------
\* The signal scatter takes every ceil(n / cap)-th packet.
scatterRoundedDown(n) ==
    IF n > ScatterCap THEN SetToSortSeq({i \in 0..(n - 1) : i % (n \div ScatterCap) = 0}, <) ELSE [i \in 1..n |-> i - 1]
renderScatter(n) ==
    IF n > ScatterCap THEN SetToSortSeq({i \in 0..(n - 1) : i % upDiv(n, ScatterCap) = 0}, <) ELSE [i \in 1..n |-> i - 1]
computeScatter == \E n \in 0..(4 * ScatterCap + 1) : Computes("scatter", n, renderScatter(n))
\* Never more dots than the cap, all of them when they fit, and otherwise a
\* sample that is spread over the whole list.
SampleSpread ==
    alg = "scatter" =>
        /\ Len(res) <= ScatterCap
        /\ arg <= ScatterCap => Len(res) = arg
        /\ \A p \in 0..(arg - 1) : \E i \in DOMAIN res : res[i] \in (p - upDiv(arg, ScatterCap) + 1)..p

\* The length of an average SNR's bar, in percent, and of a bubble's height
\* above the axis, of a plot 80 high; both in the colour of its quality.
snrColor(avg) == IF avg > 6 THEN "green" ELSE IF avg > 0 THEN "yellow" ELSE "red"
renderSNRByType(avgs) == [i \in DOMAIN avgs |-> [at |-> Max({(100 * (avgs[i] + 12)) \div 27, 2}), color |-> snrColor(avgs[i])]]
hopsFromSix(avgs) == [i \in DOMAIN avgs |-> [at |-> ((avgs[i] + 12) * 80) \div 27, color |-> IF avgs[i] >= 6 THEN "green" ELSE snrColor(avgs[i])]]
renderHopsSNR(avgs) == [i \in DOMAIN avgs |-> [at |-> ((avgs[i] + 12) * 80) \div 27, color |-> snrColor(avgs[i])]]
computeSnr == \E a, b \in -12..15 : Computes("snr", <<a, b>>, <<renderSNRByType(<<a, b>>), renderHopsSNR(<<a, b>>)>>)
\* A better signal never has the shorter bar, the lower bubble or the worse
\* colour, and both charts give it the same one.
SignalMonotone ==
    alg = "snr" =>
        LET rank == [red |-> 0, yellow |-> 1, green |-> 2]
        IN  /\ res[1][1].color = res[2][1].color
            /\ \A c \in {1, 2} : arg[1] <= arg[2] => res[c][1].at <= res[c][2].at /\ rank[res[c][1].color] <= rank[res[c][2].color]
            /\ \A i \in {1, 2} : res[1][i].at \in 2..100

-----------------------------------------------------------------------------
\* Topology: the selector of the observers' reach and the clicks on it.
selectorButtons(observers) == IF Len(observers) > 1 THEN Append(observers, "__all") ELSE <<>>
renderTopology(observers) ==
    [buttons |-> selectorButtons(observers),
     active  |-> IF Len(observers) > 1 THEN {observers[1]} ELSE {},
     shown   |-> IF observers = <<>> THEN {} ELSE {observers[1]}]
clickAddsMark(view, b, observers) ==
    [view EXCEPT !.active = @ \union {b}, !.shown = IF b = "__all" THEN Range(observers) ELSE {b}]
clickObserver(view, b, observers) ==
    [view EXCEPT !.active = {b}, !.shown = IF b = "__all" THEN Range(observers) ELSE {b}]
computeSelector ==
    \E n \in 0..3 :
        LET obs == SubSeq(<<"o1", "o2", "o3">>, 1, n)
            start == renderTopology(obs)
        IN  \/ Computes("selector", obs, start)
            \/ \E cs \in UNION {[1..k -> Range(start.buttons)] : k \in 1..2} :
                  Computes("selector", obs, FoldLeft(LAMBDA v, b : clickObserver(v, b, obs), start, cs))
\* The marked button is the one whose rings are below it.
SelectorShowsReach ==
    alg = "selector" =>
        /\ arg # <<>> => res.shown # {}
        /\ res.buttons # <<>> => \E b \in Range(res.buttons) : /\ res.active = {b}
                                                              /\ res.shown = IF b = "__all" THEN Range(arg) ELSE {b}

-----------------------------------------------------------------------------
\* The hash matrix's tooltip.  A cell is [hex, status, lines]; its lines ride
\* in one attribute, joined by a separator and split when the mouse enters.
Sep == "US"
hashTooltipSpec(hex, status, lines) == [hex |-> hex, status |-> status, lines |-> lines]
joined(lines) == FlattenSeq([i \in DOMAIN lines |-> IF i = 1 THEN <<lines[i]>> ELSE <<Sep, lines[i]>>])
hashCellTd(spec) == [tipHex |-> spec.hex, tipStatus |-> spec.status, tipLines |-> joined(spec.lines)]
tipChildrenAdded(tip, td) ==
    tip \o SelectSeq(<<td.tipHex, td.tipStatus>> \o td.tipLines, LAMBDA w : w \notin {"", Sep})
\* The children are made anew.
buildMatrixTipChildren(tip, td) ==
    SelectSeq(<<td.tipHex, td.tipStatus>> \o td.tipLines, LAMBDA w : w \notin {"", Sep})
\* Moves of the mouse: onto a cell, or out of the matrix.
initMatrixTooltip(tip, td) == [open |-> TRUE, rows |-> buildMatrixTipChildren(tip.rows, td)]
hideMatrixTip(tip) == [tip EXCEPT !.open = FALSE]
tipAfter(moves) ==
    FoldLeft(LAMBDA tip, m : IF m = "out" THEN hideMatrixTip(tip) ELSE initMatrixTooltip(tip, hashCellTd(m[1])), [open |-> FALSE, rows |-> <<>>], moves)

TipSpecs == {hashTooltipSpec("0A", "", <<>>), hashTooltipSpec("0B", "1 node", <<"n1">>), hashTooltipSpec("0C", "2 nodes", <<"n1", "n2">>)}
computeTips ==
    \E k \in 1..3 : \E cells \in [1..k -> TipSpecs], out \in SUBSET (1..k) :
        Computes("tip", <<cells[k], k \in out>>, tipAfter([i \in 1..k |-> IF i \in out THEN "out" ELSE <<cells[i]>>]))
\* The one tooltip of the matrix shows the cell the mouse is on, with one row
\* per line and nothing of the cells before.
TipShowsCell ==
    alg = "tip" => /\ res.open = ~arg[2]
                   /\ res.open => res.rows = SelectSeq(<<arg[1].hex, arg[1].status>>, LAMBDA s : s # "") \o arg[1].lines

-----------------------------------------------------------------------------
\* A route's panel: nodes are places on a line, 0 for a node without a place.
placed(n) == n # 0
apart(a, b) == IF a < b THEN b - a ELSE a - b
subpathOfLocated(nodes) ==
    LET located == SelectSeq(nodes, placed)
        legs == [i \in 1..(Len(located) - 1) |-> apart(located[i], located[i + 1])]
        hasMap == Len(located) >= 2
    IN  [map |-> hasMap, line |-> IF hasMap THEN located ELSE <<>>, rows |-> IF hasMap THEN legs ELSE <<>>,
         total |-> IF hasMap /\ Len(legs) > 1 THEN <<FoldSeq(+, 0, legs)>> ELSE <<>>]
renderSubpathDetail(nodes) ==
    LET located == SelectSeq(nodes, placed)
        leg(i) == IF placed(nodes[i]) /\ placed(nodes[i + 1]) THEN apart(nodes[i], nodes[i + 1]) ELSE 0
        legs == [i \in 1..(Len(nodes) - 1) |-> leg(i)]
        hasMap == Len(located) >= 2
    IN  [map |-> hasMap,
         line |-> IF hasMap THEN located ELSE <<>>,
         rows |-> IF hasMap THEN legs ELSE <<>>,
         total |-> IF hasMap /\ Len(legs) > 1 THEN <<FoldSeq(+, 0, legs)>> ELSE <<>>]
computeSubpath == \E n \in 2..4 : \E nodes \in [1..n -> {0, 1, 3, 4}] : Computes("subpath", nodes, renderSubpathDetail(nodes))
\* The total is what the rows say; it is the length of the line on the map if
\* every node has a place, and never more than that line otherwise.
LineLength(line) == FoldSeq(+, 0, [i \in 1..(Len(line) - 1) |-> apart(line[i], line[i + 1])])
RouteDistances ==
    alg = "subpath" /\ res.map =>
        LET total == FoldSeq(+, 0, res.rows)
        IN  /\ Len(res.rows) = Len(arg) - 1
            /\ res.total = IF Len(arg) > 2 THEN <<total>> ELSE <<>>
            /\ total <= LineLength(res.line)
            /\ (\A i \in DOMAIN arg : placed(arg[i])) => total = LineLength(res.line)

\* Distance tab: the nodes a long path hands to the map.  A hop is [from, to],
\* "" for an end the server could not name.
pathPksOfSenders(hops) == FoldLeft(LAMBDA acc, h : IF h.from = "" \/ h.from \in Range(acc) THEN acc ELSE Append(acc, h.from), <<>>, hops)
pathPks(hops) ==
    LET add(acc, pk) == IF pk = "" \/ pk \in Range(acc) THEN acc ELSE Append(acc, pk)
    IN  add(FoldLeft(LAMBDA acc, h : add(acc, h.from), <<>>, hops), hops[Len(hops)].to)
renderDistanceTab(hops) ==
    LET pks == pathPks(hops)
    IN  [route |-> Append([i \in DOMAIN hops |-> hops[i].from], hops[Len(hops)].to), button |-> IF Len(pks) >= 2 THEN pks ELSE <<>>]
computeDistance ==
    \E n \in 1..3 : \E p \in [1..(n + 1) -> {"", "a", "b", "c"}] :
        LET hops == [i \in 1..n |-> [from |-> p[i], to |-> p[i + 1]]] IN Computes("longPath", p, renderDistanceTab(hops))
\* The map gets every named node of the row, once, in the order of the visit;
\* a row with less than two of them offers no map.
RouteOnMap ==
    alg = "longPath" =>
        LET named == Range(arg) \ {""}
            first(pk) == Min({i \in DOMAIN arg : arg[i] = pk})
        IN  /\ res.route = arg
            /\ Range(res.button) = IF Cardinality(named) >= 2 THEN named ELSE {}
            /\ Len(res.button) = Cardinality(Range(res.button))
            /\ \A i, j \in DOMAIN res.button : i < j => first(res.button[i]) < first(res.button[j])

-----------------------------------------------------------------------------
\* Nodes tab.  A node is [age, health, snr, packets]: health FALSE when the
\* bulk answer does not have it, snr 99 when it has none.
Degraded == 1
Silent == 2
NoSnr == 99
statusOfNode(age) == IF age < Degraded THEN "active" ELSE IF age < Silent THEN "degraded" ELSE "silent"
enriched(nodes) == {i \in DOMAIN nodes : nodes[i].health}
firstOf(value) ==
    LET sorted == SetToSortSeq(DOMAIN value, LAMBDA i, j : value[i] > value[j] \/ (value[i] = value[j] /\ i < j))
    IN  SubSeq(sorted, 1, Min({TopRows, Len(sorted)}))
nodesTabLoudOnly(nodes) ==
    [counts    |-> [s \in {"active", "degraded", "silent"} |-> Cardinality({i \in DOMAIN nodes : statusOfNode(nodes[i].age) = s})],
     byPackets |-> firstOf([i \in enriched(nodes) |-> nodes[i].packets]),
     bySnr     |-> firstOf([i \in {j \in enriched(nodes) : nodes[j].snr \notin {0, NoSnr}} |-> nodes[i].snr])]
renderNodesTab(nodes) ==
    [counts    |-> [s \in {"active", "degraded", "silent"} |-> Cardinality({i \in DOMAIN nodes : statusOfNode(nodes[i].age) = s})],
     byPackets |-> firstOf([i \in enriched(nodes) |-> nodes[i].packets]),
     bySnr     |-> firstOf([i \in {j \in enriched(nodes) : nodes[j].snr # NoSnr} |-> nodes[i].snr])]
computeNodesTab ==
    \E n \in 0..3 : \E nodes \in [1..n -> [age : {0, 2}, health : BOOLEAN, snr : {0, 5, NoSnr}, packets : {0, 3}]] : Computes("nodesTab", nodes, renderNodesTab(nodes))
\* Every node has one status, and no node left out of a ranking is better than
\* one that is in it; a signal of 0 dB is a signal.
RankingsHonest ==
    alg = "nodesTab" =>
        LET best(list, ranked, Value(_)) ==
                /\ Range(list) \subseteq ranked /\ Len(list) = Min({TopRows, Cardinality(ranked)})
                /\ \A i \in DOMAIN list : \A r \in ranked \ {list[k] : k \in 1..i} : Value(r) <= Value(list[i])
        IN  /\ FoldSet(LAMBDA s, n : n + res.counts[s], 0, DOMAIN res.counts) = Len(arg)
            /\ best(res.byPackets, {i \in DOMAIN arg : arg[i].health}, LAMBDA i : arg[i].packets)
            /\ best(res.bySnr, {i \in DOMAIN arg : arg[i].health /\ arg[i].snr \in {0, 5}}, LAMBDA i : arg[i].snr)

-----------------------------------------------------------------------------
\* Metric scatter: the axis a stored key restores, and the option the browser
\* shows selected (the first, if no option carries the key).
Axes == <<"traffic", "bridge", "relay1h">>
_resolveAxis(key) == IF key \in Range(Axes) THEN key ELSE Axes[1]
selectShows(key) == IF key \in Range(Axes) THEN key ELSE Axes[1]
\* draw() takes the axis from the select; "" is no stored key.
metricsUnderOneKey(storedX, storedY, xPick, yPick) ==
    LET x == selectShows(IF storedX = "" THEN "traffic" ELSE storedX)
        y == selectShows(IF storedY = "" THEN "bridge" ELSE storedY)
        last == IF yPick # "" THEN yPick ELSE xPick
    IN  [shown |-> <<x, y>>, drawn |-> <<x, y>>, stored |-> <<IF last = "" THEN storedX ELSE last, storedY>>]
renderRepeaterMetricsTab(storedX, storedY, xPick, yPick) ==
    LET sel(stored, default, pick) == IF pick # "" THEN pick ELSE selectShows(IF stored = "" THEN default ELSE stored)
        x == sel(storedX, "traffic", xPick)
        y == sel(storedY, "bridge", yPick)
    IN  [shown |-> <<x, y>>, drawn |-> <<_resolveAxis(x), _resolveAxis(y)>>,
         stored |-> <<IF xPick = "" THEN storedX ELSE xPick, IF yPick = "" THEN storedY ELSE yPick>>]
computeAxes ==
    \E sx, sy \in {"", "bridge", "relay1h", "gone"}, px, py \in {"", "traffic", "relay1h"} :
        Computes("axes", <<px, py>>, renderRepeaterMetricsTab(sx, sy, px, py))
\* The plot has the axes its selects show, also for a key of an older release;
\* a choice comes back at the next visit, each axis under its own key.
AxesShown ==
    alg = "axes" =>
        /\ res.drawn = res.shown
        /\ \A i \in 1..2 : arg[i] # "" => LET again == renderRepeaterMetricsTab(res.stored[1], res.stored[2], "", "") IN again.shown[i] = arg[i]

-----------------------------------------------------------------------------
\* The prefix tool's overview.  A node is [pk, role, size]; pk is three bytes.
collidingOf(group) == {p \in {g.p : g \in group} : \E g, h \in group : g.p = p /\ h.p = p /\ g.pk # h.pk}
sliceOf(pk, b) == SubSeq(pk, 1, b)
idx(nodes, b) == {[p |-> sliceOf(n.pk, b), pk |-> n.pk] : n \in {m \in nodes : m.role = "repeater"}}
opIdxOfAll(nodes, b) == {[p |-> sliceOf(n.pk, b), pk |-> n.pk] : n \in {m \in nodes : m.size = b}}
opIdx(nodes, b) == {[p |-> sliceOf(n.pk, b), pk |-> n.pk] : n \in {m \in nodes : m.role = "repeater" /\ m.size = b}}
\* Per size: slices in use, what would collide, what does, and the panels
\* under the buttons that announce their numbers.
renderPrefixTool(nodes) ==
    [b \in 1..3 |-> [used |-> Cardinality({g.p : g \in idx(nodes, b)}),
                     theoretical |-> collidingOf(idx(nodes, b)),
                     operational |-> collidingOf(opIdx(nodes, b))]]
PrefixNodes == {[pk |-> <<x, y, z>>, role |-> r, size |-> s] : x, y \in {1, 2}, z \in {1}, r \in {"repeater", "room"}, s \in {0, 1, 2}}
computePrefixes ==
    \E n, m, o \in PrefixNodes :
        /\ \A p, q \in {n, m, o} : p.pk = q.pk => p = q
        /\ Computes("prefixes", {n, m, o}, renderPrefixTool({n, m, o}))
\* What collides in traffic collides in theory; a longer prefix separates at
\* least what a shorter one does; nodes that do not repeat collide with none.
PrefixesNest ==
    alg = "prefixes" =>
        \A b \in 1..3 :
            /\ res[b].operational \subseteq res[b].theoretical
            /\ \A p \in res[b].operational : Cardinality({n \in arg : n.role = "repeater" /\ n.size = b /\ sliceOf(n.pk, b) = p}) >= 2
            /\ b > 1 => /\ res[b].used >= res[b - 1].used
                        /\ {sliceOf(p, b - 1) : p \in res[b].theoretical} \subseteq res[b - 1].theoretical

-----------------------------------------------------------------------------
\* The neighbour graph's wheel.  Zoom in tenths; a step is a factor of up or
\* down, here 2 and 1/2, clamped to 1..ZoomMax tenths.  The point of the graph
\* under the mouse is (cx - pan) / zoom.
ZoomMax == 100
clampZoom(z) == Max({1, Min({ZoomMax, z})})
wheelZoom(z, up) == clampZoom(IF up THEN 2 * z ELSE z \div 2)
\* One turn of the wheel from a pan of "pan" pixels; the new pan times the old
\* zoom is kept exact.
wheelUnclamped(pan, zoom, cx, up) ==
    [zoom |-> wheelZoom(zoom, up), panTimesZoom |-> cx * zoom - (cx - pan) * (IF up THEN 2 * zoom ELSE zoom \div 2)]
bindNGCanvasInteraction(pan, zoom, cx, up) ==
    LET newZoom == wheelZoom(zoom, up) IN [zoom |-> newZoom, panTimesZoom |-> cx * zoom - (cx - pan) * newZoom]
computeWheel ==
    \E pan \in {-30, 0, 12}, zoom \in {1, 2, 10, 50, 80, 100}, cx \in {0, 7, 40}, up \in BOOLEAN :
        Computes("wheel", [pan |-> pan, zoom |-> zoom, cx |-> cx], bindNGCanvasInteraction(pan, zoom, cx, up))
\* The zoom stays in its range, and what was under the mouse stays under it,
\* at the ends of the range too.
WheelKeepsPoint ==
    alg = "wheel" =>
        /\ res.zoom \in 1..ZoomMax
        /\ (arg.cx * arg.zoom - res.panTimesZoom) = (arg.cx - arg.pan) * res.zoom

AnalyticsViewsNext ==
    \/ computeHours \/ computeScatter \/ computeSnr \/ computeSelector \/ computeTips \/ computeSubpath \/ computeDistance
    \/ computeNodesTab \/ computeAxes \/ computePrefixes \/ computeWheel

------------------------------------------------------------------------------
(***************************************************************************)
(* The charts of the analytics tabs (public/analytics.js): from measured   *)
(* values to points of a drawing of w by h pixels.  Pixels are whole, time *)
(* and values small integers; what is drawn between and beside the points  *)
(* (axes, titles, tooltips) is left out.                                   *)
(***************************************************************************)

CONSTANTS ChartValues,  \* values of a series
          ChartLen,     \* bound on its length
          PointCap,     \* POINT_CAP, the sample of a scatter plot
          MaxSeries     \* CHANNEL_TIMELINE_MAX_SERIES

ASSUME ChartsAssumption == ChartValues \subseteq Int /\ ChartLen \in Nat /\ PointCap \in Nat \ {0} /\ MaxSeries \in Nat

NaN == -99999           \* what a division by zero leaves in a coordinate
Ratio(a, b, size) == IF b = 0 THEN NaN ELSE (a * size) \div b
\* JavaScript's n || d.
OrElse(n, d) == IF n = 0 THEN d ELSE n
Most(S, least) == Max(S \union {least})
Series == UNION {[1..n -> ChartValues] : n \in 0..ChartLen}
\* The i-th of n points over a width, evenly.
evenly(i, n, width) == Ratio(i - 1, Most({n - 1}, 1), width)
Dot(x, y) == [x |-> x, y |-> y]
Drawing(w, h, dots) == [w |-> w, h |-> h, dots |-> dots]

sparkSvg(data) ==
    LET max == Most(Range(data), 1)
    IN  Drawing(120, 32, {Dot(evenly(i, Len(data), 120), 30 - Ratio(data[i], max, 28)) : i \in DOMAIN data})
\* Bars by their two upper corners.
barChart(data) ==
    LET max == Most(Range(data), 1)
        n == Len(data)
        barW == Most({Min({720 \div n - 2, 30})}, 1)
        left(i) == 40 + ((i - 1) * 720) \div n + barW \div 2
    IN  Drawing(800, 220, UNION {{Dot(x, 180 - Ratio(data[i], max, 140)) : x \in {left(i), left(i) + barW}} : i \in DOMAIN data})
histogramNoClamp(data, bins) ==
    LET min == Min(Range(data))
        max == Max(Range(data))
    IN  [b \in 0..(bins - 1) |-> Cardinality({i \in DOMAIN data : ((data[i] - min) * bins) \div (max - min) = b})]

\* Raw values into bins; several different values are needed.
histogram(data, bins) ==
    LET min == Min(Range(data))
        max == Max(Range(data))
        bin(v) == Min({((v - min) * bins) \div (max - min), bins - 1})
    IN  [b \in 0..(bins - 1) |-> Cardinality({i \in DOMAIN data : bin(data[i]) = b})]
renderSignalTimeline(data) ==
    LET max == Most({d.n : d \in Range(data)}, 1)
        x(i) == 35 + evenly(i, Len(data), 330)
    IN  Drawing(400, 160, {Dot(x(i), 125 - Ratio(data[i].snr + 12, 27, 90)) : i \in DOMAIN data}
                          \union {Dot(x(i), 125 - Ratio(data[i].n, max, 36)) : i \in DOMAIN data})
renderHashTimeline(hourly) ==
    LET max == Most(UNION {Range(h) : h \in Range(hourly)}, 1)
    IN  Drawing(800, 180, {Dot(35 + evenly(i, Len(hourly), 730), 145 - Ratio(hourly[i][s], max, 110)) : i \in DOMAIN hourly, s \in 1..3})

\* The charts of one observer share the time axis; d is [t, v].
rfX(t, minT, maxT, cw) == 55 + Ratio(t - minT, OrElse(maxT - minT, 1), cw)
rfNFSparkline(data) ==
    LET min == Min(Range(data))
        range == OrElse(Max(Range(data)) - min, 1)
    IN  Drawing(140, 24, {Dot(evenly(i, Len(data), 140), 22 - Ratio(data[i] - min, range, 20)) : i \in DOMAIN data})
\* A fifth of headroom, and a scale of 1% at least.
rfAirtimeChart(tx, rx, minT, maxT) ==
    LET top == Most({(12 * Most({d.v : d \in tx \union rx}, 0)) \div 10}, 1)
    IN  Drawing(700, 160, {Dot(rfX(d.t, minT, maxT, 595), 130 - Ratio(d.v, top, 110)) : d \in tx \union rx})
rfErrorRateChart(err, minT, maxT) ==
    LET range == Most({d.v : d \in err}, 1)
    IN  Drawing(700, 160, {Dot(rfX(d.t, minT, maxT, 595), 130 - Ratio(d.v, range, 110)) : d \in err})
rfBatteryNoGuard(batt, minT, maxT) ==
    LET min == Min({d.v : d \in batt})
        range == Max({d.v : d \in batt}) - min
    IN  Drawing(700, 160, {Dot(rfX(d.t, minT, maxT, 595), 130 - Ratio(d.v - min, range, 110)) : d \in batt})

rfBatteryChart(batt, minT, maxT) ==
    LET min == Min({d.v : d \in batt})
        range == OrElse(Max({d.v : d \in batt}) - min, 100)
    IN  Drawing(700, 160, {Dot(rfX(d.t, minT, maxT, 595), 130 - Ratio(d.v - min, range, 110)) : d \in batt})
\* Columns by the middle of their top.
rfNFColumnChart(nf, minT, maxT) ==
    LET min == Min({d.v : d \in nf})
        raw == Max({d.v : d \in nf}) - min
    IN  Drawing(700, 180, {Dot(rfX(d.t, minT, maxT, 605), 150 - Ratio(d.v - (IF raw = 0 THEN min - 5 ELSE min), OrElse(raw, 10), 130)) : d \in nf})
\* A reboot is marked where the axis has it, outside it is not.
rfRebootMarkers(reboots, minT, maxT) == {x \in {rfX(t, minT, maxT, 595) : t \in reboots} : x >= 55 /\ x <= 650}
labelsByStep(n) == {i \in 1..n : (i - 1) % Most({n \div 6}, 1) = 0}

\* At most six labels, first and last sample among them.
rfXAxisLabels(n) ==
    LET ticks == Min({6, n})
    IN  {((i * (n - 1)) \div Most({ticks - 1}, 1)) + 1 : i \in 0..(ticks - 1)}

\* Sampling: every k-th of a series (0-based as in the code).
EveryNth(s, k) == {i \in DOMAIN s : (i - 1) % k = 0}
CeilDiv(a, b) == (a + b - 1) \div b
floorStride(s, room) == {s[i] : i \in EveryNth(s, Most({Len(s) \div room}, 1))}
strideInto(s, room) == {s[i] : i \in EveryNth(s, CeilDiv(Len(s), room))}
\* renderMetricScatter: points are [id, fav, x, y], -1 for a missing value.
plottable(points) == SelectSeq(points, LAMBDA p : p.x # -1 /\ p.y # -1)
scatterSample(points) ==
    LET all == plottable(points)
        favs == SelectSeq(all, LAMBDA p : p.fav)
        others == SelectSeq(all, LAMBDA p : ~p.fav)
        kept == IF Len(favs) > PointCap THEN strideInto(favs, PointCap) ELSE Range(favs)
        budget == Most({PointCap - Cardinality(kept)}, 0)
    IN  IF Len(all) <= PointCap THEN Range(all)
        ELSE kept \union (IF budget > 0 /\ Len(others) > budget THEN strideInto(others, budget)
                          ELSE {others[i] : i \in 1..Min({budget, Len(others)})})
\* 1, 2 or 5 times a power of ten.
Power(v) == Max({p \in {1, 10, 100, 1000} : p <= v})
_niceCeil(v) ==
    IF v <= 0 THEN 1
    ELSE LET p == Power(v) IN IF v <= p THEN p ELSE IF v <= 2 * p THEN 2 * p ELSE IF v <= 5 * p THEN 5 * p ELSE 10 * p
_axisFromMax(values) == _niceCeil(Max(values \union {0}))
renderMetricScatter(points) ==
    LET xMax == _axisFromMax({p.x : p \in Range(points)})
        yMax == _axisFromMax({p.y : p \in Range(points)})
    IN  Drawing(620, 380, {Dot(60 + Ratio(p.x, xMax, 500), 320 - Ratio(p.y, yMax, 260)) : p \in scatterSample(points)})

\* The channels with most messages; the rest is only counted.
channelVolume(rows, c) == MapThenSumSet(LAMBDA i : rows[i].n, {i \in DOMAIN rows : rows[i].c = c})
firstSeen(rows, chans) == SetToSeq(chans)
byVolume(rows, chans) == SortSeq(SetToSeq(chans), LAMBDA a, b : channelVolume(rows, a) > channelVolume(rows, b))
renderChannelTimeline(rows) ==
    LET order == byVolume(rows, {r.c : r \in Range(rows)})
        visible == {order[i] : i \in 1..Min({MaxSeries, Len(order)})}
        hours == SetToSortSeq({r.h : r \in Range(rows)}, <)
        count(h, c) == LET at == {i \in DOMAIN rows : rows[i].h = h /\ rows[i].c = c} IN IF at = {} THEN 0 ELSE rows[Max(at)].n
        max == Most({count(h, c) : h \in Range(hours), c \in visible}, 1)
    IN  [visible |-> visible, hidden |-> Most({Len(order) - MaxSeries}, 0),
         svg |-> Drawing(600, 180, {Dot(35 + evenly(i, Len(hours), 530), 145 - Ratio(count(hours[i], c), max, 110)) : i \in DOMAIN hours, c \in visible})]

-----------------------------------------------------------------------------
Samples == [t : {0, 7}, v : ChartValues]
Counts == {v \in ChartValues : v >= 0}
drawSeries ==
    \E s \in Series \ {<<>>} :
       \/ Range(s) \subseteq Counts /\ Computes("chart", s, sparkSvg(s))
       \/ Range(s) \subseteq Counts /\ Computes("chart", s, barChart(s))
       \/ Computes("chart", s, rfNFSparkline(s))
       \/ \E n \in Counts : Computes("chart", s, renderSignalTimeline([i \in DOMAIN s |-> [snr |-> s[i], n |-> n]]))
       \/ Range(s) \subseteq Counts /\ Len(s) = 3 /\ Computes("chart", s, renderHashTimeline(<<s, Reverse(s)>>))
\* The time axis spans the samples of every chart of the observer.
drawRf ==
    \E ds \in SUBSET Samples \ {{}} :
       LET minT == Min({d.t : d \in ds})
           maxT == Max({d.t : d \in ds})
           pos == {d \in ds : d.v >= 0}
       IN  \/ \E cut \in {0, 7} : Computes("chart", ds, rfAirtimeChart({d \in pos : d.t = cut}, {d \in pos : d.t # cut}, minT, maxT))
           \/ Computes("chart", ds, rfErrorRateChart(pos, minT, maxT))
           \/ Computes("chart", ds, rfBatteryChart(ds, minT, maxT))
           \/ Computes("chart", ds, rfNFColumnChart(ds, minT, maxT))
           \/ \E r \in {-3, 0, 5, 9} : Computes("marks", ds, [x |-> rfRebootMarkers({r}, minT, maxT)])
drawScatter ==
    \E nf, no, blank \in 0..(PointCap + 2), v \in {0, 3, 70} :
       LET points == [i \in 1..(nf + no) |-> [id |-> i, fav |-> i > no, x |-> IF i = blank THEN -1 ELSE v, y |-> 2 * i]]
       IN  \/ Computes("chart", points, renderMetricScatter(points))
           \/ Computes("sample", points, scatterSample(points))
drawTimeline == \E rows \in [1..3 -> [c : {"a", "b", "c"}, h : {1, 2}, n : {1, 4}]] : Computes("channelTimeline", rows, renderChannelTimeline(rows))
binValues == \E s \in Series, bins \in 1..3 : Cardinality(Range(s)) > 1 /\ Computes("histogram", s, histogram(s, bins))
labelAxis == \E n \in 1..20 : Computes("axis", <<n>>, rfXAxisLabels(n))
ChartsNext == drawSeries \/ drawRf \/ drawScatter \/ drawTimeline \/ binValues \/ labelAxis

\* No chart has a point outside its drawing or without a place: one value,
\* equal values, one instant and empty counts divide by no zero range.
ChartInFrame ==
    LET inFrame(d) == \A p \in d.dots : p.x \in 0..d.w /\ p.y \in 0..d.h
    IN  /\ alg = "chart" => inFrame(res)
        /\ alg = "channelTimeline" => inFrame(res.svg)
\* The scatter plot stays within its cap, and a favourite is only left out
\* if the favourites alone exceed it ("the legend's favorite count can never
\* be a lie").
SampleHonest ==
    alg = "sample" =>
       LET favs == {p \in Range(plottable(arg)) : p.fav}
       IN  /\ Cardinality(res) <= PointCap
           /\ Cardinality(favs) <= PointCap => favs \subseteq res
\* No channel that is left out of the timeline has more messages than one
\* that is drawn, and those left out are counted.
BusiestShown ==
    alg = "channelTimeline" =>
       LET chans == {r.c : r \in Range(arg)}
       IN  /\ res.hidden = Cardinality(chans \ res.visible)
           /\ \A c \in chans \ res.visible, d \in res.visible : channelVolume(arg, c) <= channelVolume(arg, d)
\* Every value is in one bin, the largest one too.
BinsHoldAll == alg = "histogram" => MapThenSumSet(LAMBDA b : res[b], DOMAIN res) = Len(arg)
\* The axis is labelled at both ends, at samples it has.
EndsLabelled == alg = "axis" => res \subseteq 1..arg[1] /\ {1, arg[1]} \subseteq res

------------------------------------------------------------------------------
(***************************************************************************)
(* Hash prefixes on the analytics page (public/analytics.js,               *)
(* public/prefix-reserved.js): the matrix of one and two byte prefixes,    *)
(* the check of a prefix or key, the generator of a free prefix.           *)
(*                                                                         *)
(* A public key is a sequence of three digits below Base, a prefix its     *)
(* first one, two or three; the digit stands for a byte.                   *)
(***************************************************************************)

CONSTANTS Bytes,        \* values of a byte: 256
          MaxKeys       \* bound on the nodes

ASSUME PrefixToolAssumption == Bytes \in Nat /\ Bytes > 2 /\ MaxKeys \in Nat

Keys == [1..3 -> 0..(Bytes - 1)]
Prefix(k, b) == SubSeq(k, 1, b)
Space(b) == [1..b -> 0..(Bytes - 1)]

isReservedPrefix(p) == p[1] \in {0, Bytes - 1}
reservedCount(b) == 2 * Bytes^(b - 1)
Used(keys, b) == {Prefix(k, b) : k \in keys}
With(keys, p) == {k \in keys : Prefix(k, Len(p)) = p}

doCheckAll(keys, in) == [b \in 1..Len(in) |-> With(keys, Prefix(in, b))]

\* Of a prefix, or of a whole key: the nodes that collide at each length.
doCheck(keys, in) ==
    IF Len(in) = 3 THEN [b \in 1..3 |-> With(keys, Prefix(in, b)) \ {in}] ELSE [b \in {Len(in)} |-> With(keys, in)]

reservedTwice(keys, b) == Bytes^b - Cardinality(Used(keys, b)) - reservedCount(b)
\* Reserved prefixes that are in use are not taken off twice.
available(keys, b) == Bytes^b - Cardinality(Used(keys, b)) - (reservedCount(b) - Cardinality({p \in Used(keys, b) : isReservedPrefix(p)}))
Free(keys, b) == {p \in Space(b) : p \notin Used(keys, b) /\ ~isReservedPrefix(p)}
\* Any free one (by enumeration or by trying at random), or a refusal.
doGenerate(keys, b) == IF available(keys, b) <= 0 THEN {<<>>} ELSE Free(keys, b)

\* The server's cells: nodes of a first byte, and of the two-byte prefixes in it.
Cell(nodes, d) == {n \in nodes : n.key[1] = d}
Repeaters(S) == Cardinality({n \in S : n.role = "repeater"})
classifyHashCell(count, collision, possible) ==
    IF count = 0 THEN "empty" ELSE IF ~collision /\ ~possible THEN "taken" ELSE IF possible THEN "possible" ELSE "collision"
oneByteAnyRole(S) == classifyHashCell(Cardinality(S), Cardinality(S) >= 2, FALSE)

oneByteCell(S) ==
    LET collision == Cardinality(S) >= 2 /\ Repeaters(S) >= 2
    IN  classifyHashCell(Cardinality(S), collision, Cardinality(S) >= 2 /\ ~collision)
Overlaps(S) == {T \in {{m \in S : Prefix(m.key, 2) = Prefix(n.key, 2)} : n \in S} : Cardinality(T) > 1}
twoByteCell(S) ==
    LET confirmed == \E T \in Overlaps(S) : Repeaters(T) >= 2
        worst == Max({Cardinality(T) : T \in Overlaps(S)} \union {0})
    IN  classifyHashCell(IF worst > 0 THEN worst ELSE IF S = {} THEN 0 ELSE 1, confirmed, ~confirmed /\ Overlaps(S) # {})
\* A reserved first byte is greyed and cannot be clicked.
markReservedCells(d) == isReservedPrefix(<<d>>)
renderHashMatrixPanel(nodes, d, cls) == [cls |-> cls, active |-> Cell(nodes, d) # {} /\ ~markReservedCells(d)]
renderHashMatrixFromServer(nodes, bytes) ==
    [cells |-> [d \in 0..(Bytes - 1) |-> renderHashMatrixPanel(nodes, d, IF bytes = 1 THEN oneByteCell(Cell(nodes, d)) ELSE twoByteCell(Cell(nodes, d)))],
     collisions |-> Cardinality({d \in 0..(Bytes - 1) : IF bytes = 1 THEN Cardinality(Cell(nodes, d)) > 1 ELSE Overlaps(Cell(nodes, d)) # {}})]

\* renderCollisionTab: the byte size of the link, or 1; refreshHashViews
\* writes it back, and the links to the sections carry it.
bytesOf(url) == IF url.bytes \in 1..3 THEN url.bytes ELSE 1
sectionOnly(url, bytes) == url
refreshHashViews(url, bytes) == [url EXCEPT !.bytes = bytes]
sectionLink(url, section) == [url EXCEPT !.section = section]

-----------------------------------------------------------------------------
SmallKeys == {k \in Keys : k[2] <= 1 /\ k[3] <= 1}
Few(S) == {K \in SUBSET S : Cardinality(K) <= MaxKeys}
computePrefix ==
    \E keys \in Few(SmallKeys) :
       \/ \E b \in 1..2 : \E p \in doGenerate(keys, b) : Computes("generate", [keys |-> keys, b |-> b], p)
       \/ \E in \in keys \union {<<1, 1, 1>>, <<1>>, <<1, 1>>} : Computes("check", [keys |-> keys, in |-> in], doCheck(keys, in))
computeMatrix ==
    \E keys \in Few({k \in SmallKeys : k[1] < 2}), companions \in {{}, {<<1, 0, 0>>}}, b \in 1..2 :
       LET nodes == {[key |-> k, role |-> IF k \in companions THEN "companion" ELSE "repeater"] : k \in keys}
       IN  Computes("matrix", [nodes |-> nodes, b |-> b], renderHashMatrixFromServer(nodes, b))
computeLink ==
    \E b0 \in 0..3, b \in 1..3, s \in {"", "risk"} :
       LET url == refreshHashViews([bytes |-> b0, section |-> ""], b) IN Computes("bytes", b, bytesOf(sectionLink(url, s)))
PrefixToolNext == computePrefix \/ computeMatrix \/ computeLink

\* What the generator offers nobody uses and the firmware would keep; it
\* refuses only when there is none such.
GeneratedIsFree ==
    alg = "generate" => IF res = <<>> THEN Free(arg.keys, arg.b) = {} ELSE res \in Free(arg.keys, arg.b)
\* The check of a whole key names exactly the other nodes that share a
\* prefix, never the node itself; of longer prefixes fewer.
CheckNamesOthers ==
    alg = "check" => /\ arg.in \notin UNION {res[b] : b \in DOMAIN res}
                     /\ \A b \in DOMAIN res : \A k \in arg.keys \ {arg.in} : k \in res[b] <=> Prefix(k, b) = Prefix(arg.in, b)
\* A cell is red exactly where two repeaters cannot be told apart, and the
\* card counts the red and the yellow cells.
CellsAgree ==
    alg = "matrix" =>
       /\ res.collisions = Cardinality({d \in DOMAIN res.cells : res.cells[d].cls \in {"possible", "collision"}})
       /\ \A d \in DOMAIN res.cells :
             res.cells[d].cls = "collision" <=>
                \E m, n \in arg.nodes : m # n /\ m.role = "repeater" /\ n.role = "repeater" /\ m.key[1] = d /\ Prefix(m.key, arg.b) = Prefix(n.key, arg.b)
\* The byte size that was chosen survives a jump to a section and a reload.
ByteSizeSticks == alg = "bytes" => res = arg

(* What the analytics tabs compute of the server's answers. *)
AnalyticsComputes ==
    /\ WheelKeepsPoint
    /\ PrefixesNest
    /\ AxesShown
    /\ RankingsHonest
    /\ RouteOnMap
    /\ RouteDistances
    /\ TipShowsCell
    /\ SelectorShowsReach
    /\ SignalMonotone
    /\ SampleSpread
    /\ LabelsReadable
    /\ ChartInFrame
    /\ SampleHonest
    /\ BusiestShown
    /\ BinsHoldAll
    /\ EndsLabelled
    /\ BarsFit
    /\ RingsComplete
    /\ EachChannelOnce
    /\ ButtonCounts
    /\ FavouritesAccounted
    /\ PatternsTrusted
    /\ GeneratedIsFree
    /\ CheckNamesOthers
    /\ CellsAgree
    /\ ByteSizeSticks
==============================================================================
