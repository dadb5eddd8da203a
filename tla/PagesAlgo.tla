--------------------------------- MODULE PagesAlgo ---------------------------------
(***************************************************************************)
(* What the smaller pages compute: the comparison of two observers         *)
(* (public/compare.js), the trace of a packet (public/traces.js), the      *)
(* links of a node's reach (public/node-reach.js, public/node-reach-map.js)*)
(* and the cells of coverage (public/rx-coverage.js,                       *)
(* public/node-reach-coverage.js).                                         *)
(***************************************************************************)
EXTENDS OneStep, Integers, Sequences, SequencesExt, FiniteSetsExt

CONSTANTS MaxTraces,    \* observations of the traced packet
          MaxLinks,     \* links of a node
          ListCap       \* rows of a capped list: 200 packets, 10 nodes of a cell

ASSUME PagesAlgoAssumption == MaxTraces \in Nat /\ MaxLinks \in Nat /\ ListCap \in Nat

\* Math.round(scale * n / d), and 0 for a total of 0.
rounded(n, d, scale) == IF d = 0 THEN 0 ELSE (2 * scale * n + d) \div (2 * d)

(***************************************************************************)
(* Comparison.  A packet is its hash with its route type.                  *)
(***************************************************************************)
RouteTypes == 0..3
filterPacketsByRoute(packets, mode) ==
    CASE mode = "flood" -> {p \in packets : p.route \in {0, 1}}
      [] mode = "direct" -> {p \in packets : p.route \in {2, 3}}
      [] OTHER -> packets
withBoth(a, b) == [onlyA |-> a, onlyB |-> b \ a, both |-> a \intersect b]
comparePacketSets(a, b) == [onlyA |-> a \ b, onlyB |-> b \ a, both |-> a \intersect b]
computeOverlapStats(onlyA, onlyB, both) ==
    [totalA |-> onlyA + both, totalB |-> onlyB + both,
     aSeesOfB |-> rounded(both, onlyB + both, 1000), bSeesOfA |-> rounded(both, onlyA + both, 1000)]
\* The strip's percentages, which are the widths of the bar's segments, and
\* the two sentences below it.
renderComparison(c) ==
    LET a == Cardinality(c.onlyA)
        b == Cardinality(c.onlyB)
        both == Cardinality(c.both)
        total == a + b + both
    IN  [onlyA |-> a, onlyB |-> b, both |-> both, stats |-> computeOverlapStats(a, b, both),
         pctA |-> rounded(a, total, 100), pctB |-> rounded(b, total, 100), pctBoth |-> rounded(both, total, 100)]
\* The table of a tab: rows, with the observers they name, and the note.
renderCompareDetail(c, view) ==
    LET n == Cardinality(c[view]) IN
    [rows |-> Min({n, ListCap}), first |-> IF n > ListCap THEN ListCap ELSE 0, of |-> IF n > ListCap THEN n ELSE 0,
     seenBy |-> IF view = "both" THEN {"A", "B"} ELSE IF view = "onlyA" THEN {"A"} ELSE {"B"}]

Hashes == 1..4
compareSets ==
    \E a, b \in SUBSET Hashes, route \in [Hashes -> {0, 1, 3}], mode \in {"all", "flood", "direct"}, view \in {"onlyA", "onlyB", "both"} :
       LET pk(S) == {h \in S : [h |-> h, route |-> route[h]] \in filterPacketsByRoute({[h |-> x, route |-> route[x]] : x \in S}, mode)}
           c == comparePacketSets(pk(a), pk(b))
       IN  (\A h \in Hashes \ (a \union b) : route[h] = 0)
           /\ Computes("compare", [a |-> a, b |-> b, route |-> route, mode |-> mode, view |-> view, c |-> c],
                       [strip |-> renderComparison(c), table |-> renderCompareDetail(c, view)])
\* The three parts hold every packet of the chosen route once; the bar's
\* segments fill it to a pixel; what the two sentences say of one observer
\* and the other adds up with the strip; a cut table says of how many.
OverlapAddsUp ==
    alg = "compare" =>
       LET s == res.strip
           kept(S) == {h \in S : arg.mode = "all" \/ (arg.mode = "flood") = (arg.route[h] < 2)}
       IN  /\ s.onlyA + s.onlyB + s.both = Cardinality(kept(arg.a \union arg.b))
           /\ (s.onlyA + s.onlyB + s.both > 0) => s.pctA + s.pctB + s.pctBoth \in 99..101
           /\ s.stats.totalA = Cardinality(kept(arg.a)) /\ s.stats.totalB = Cardinality(kept(arg.b))
           /\ (s.stats.aSeesOfB = 1000) => kept(arg.b) \subseteq kept(arg.a)
           /\ (s.stats.bSeesOfA = 1000) => kept(arg.a) \subseteq kept(arg.b)
           /\ \A h \in arg.c[arg.view] : res.table.seenBy = (IF h \in arg.a THEN {"A"} ELSE {}) \union (IF h \in arg.b THEN {"B"} ELSE {})
           /\ res.table.rows = Cardinality(arg.c[arg.view]) \/ res.table.of = Cardinality(arg.c[arg.view])

(***************************************************************************)
(* Trace of a packet.  An observation is its path of hops and its observer.*)
(***************************************************************************)
Origin == 0
Dest == 9
Hops == 1..3
Chain(hops) == <<Origin>> \o hops \o <<Dest>>
IsPrefixOf(s, t) == Len(s) <= Len(t) /\ SubSeq(t, 1, Len(s)) = s
\* A path that another, longer one begins with was seen under way.
dedupePrefixPaths(raw) ==
    SelectSeq(raw, LAMBDA p : ~\E i \in DOMAIN raw : Len(raw[i].hops) > Len(p.hops) /\ IsPrefixOf(p.hops, raw[i].hops))
EdgesOf(chain) == {<<chain[i], chain[i + 1]>> : i \in 1..(Len(chain) - 1)}
\* Observers of an edge: those of the kept paths, and those of the dropped
\* ones as far as they saw it.
creditEdges(kept, raw) ==
    LET edges == UNION {EdgesOf(Chain(kept[i].hops)) : i \in DOMAIN kept}
    IN  [e \in edges |-> {kept[i].observer : i \in {j \in DOMAIN kept : e \in EdgesOf(Chain(kept[j].hops))}}
                         \union {raw[i].observer : i \in {j \in DOMAIN raw : e \in EdgesOf(<<Origin>> \o raw[j].hops)}}]
Earliest(kept, n) ==
    LET first == Min({i \in DOMAIN kept : n \in Range(Chain(kept[i].hops))})
        chain == Chain(kept[first].hops)
    IN  Min({i \in DOMAIN chain : chain[i] = n}) - 1
earlyColumns(kept) ==
    LET nodes == {Origin, Dest} \union UNION {Range(kept[i].hops) : i \in DOMAIN kept} IN [n \in nodes |-> Earliest(kept, n)]

\* Columns by the first appearance in the first path that has the node; the
\* destination goes to the last one.
columns(kept) ==
    LET nodes == {Origin, Dest} \union UNION {Range(kept[i].hops) : i \in DOMAIN kept}
        maxCol == Max({Len(kept[i].hops) + 1 : i \in DOMAIN kept})
    IN  [n \in nodes |-> IF n = Dest THEN maxCol ELSE Earliest(kept, n)]
\* Numbers of the summary, the graph's nodes and edges, its legend.
renderPathGraph(kept, raw) ==
    [cols |-> columns(kept), edges |-> creditEdges(kept, raw), unique |-> Cardinality({kept[i].hops : i \in DOMAIN kept})]
\* Markers of the timeline in per mille of its width.
renderTimeline(times) ==
    LET t0 == Min(Range(times))
        spread == Max(Range(times)) - t0
    IN  [i \in DOMAIN times |-> IF spread > 0 THEN ((times[i] - t0) * 1000) \div spread ELSE 500]
\* doTrace: observations without hops have no path.
doTrace(obs) ==
    LET raw == SelectSeq(obs, LAMBDA o : o.hops # <<>>)
        kept == dedupePrefixPaths(raw)
    IN  [raw |-> raw, kept |-> kept, graph |-> IF kept = <<>> THEN <<>> ELSE renderPathGraph(kept, raw), line |-> renderTimeline([i \in DOMAIN obs |-> obs[i].time])]
tracePacket ==
    \E obs \in [1..MaxTraces -> [hops : UNION {[1..n -> Hops] : n \in 0..2}, time : 0..1]] :
       LET seen == [i \in DOMAIN obs |-> [hops |-> obs[i].hops, observer |-> i, time |-> obs[i].time]]
       IN  Computes("trace", seen, doTrace(seen))
\* Every observation with a path is on the graph: kept, or the beginning of
\* a kept one, and its observer credited with each hop it saw.  Two kept
\* paths are equal or neither begins the other.  The destination stands to
\* the right of every hop, and each marker within the bar.
TraceComplete ==
    alg = "trace" =>
       /\ \A i \in DOMAIN res.raw : \E j \in DOMAIN res.kept : IsPrefixOf(res.raw[i].hops, res.kept[j].hops)
       /\ \A i, j \in DOMAIN res.kept : IsPrefixOf(res.kept[i].hops, res.kept[j].hops) => res.kept[i].hops = res.kept[j].hops
       /\ res.kept # <<>> =>
          /\ \A i \in DOMAIN res.raw : \A e \in EdgesOf(<<Origin>> \o res.raw[i].hops) : res.raw[i].observer \in res.graph.edges[e]
          /\ \A n \in DOMAIN res.graph.cols \ {Dest} : res.graph.cols[n] < res.graph.cols[Dest]
       /\ \A i \in DOMAIN res.line : res.line[i] \in 0..1000

(***************************************************************************)
(* Links of a node.  A link is the observations of it by us and of us by  *)
(* it, and whether its position is known.                                  *)
(***************************************************************************)
RadioLinks == {l \in [we : {0, 1, 100, 300}, they : {0, 1, 100, 300}, placed : BOOLEAN] : l.we + l.they > 0}
bidir(l) == l.we > 0 /\ l.they > 0                      \* computed by the server
bottleneck(l) == Min({l.we, l.they})
TIERS == <<[min |-> 300, label |-> "strong"], [min |-> 100, label |-> "medium"], [min |-> 1, label |-> "weak"], [min |-> 0, label |-> "one-way"]>>
tierOf(b) == TIERS[Min({i \in DOMAIN TIERS : b >= TIERS[i].min})].label
tierAbove(b) == TIERS[Min({i \in DOMAIN TIERS : b > TIERS[i].min} \union {Len(TIERS)})].label
\* The map's copy of it.
tierFor(b) == TIERS[Min({i \in DOMAIN TIERS : b >= TIERS[i].min})].label
linkRow(l) == [link |-> l, dir |-> IF bidir(l) THEN "" ELSE IF l.we > 0 THEN "incoming" ELSE "outgoing", tier |-> tierOf(bottleneck(l))]
LinkBefore(a, b) ==
    \/ bidir(a) /\ ~bidir(b)
    \/ /\ bidir(a) = bidir(b)
       /\ \/ bottleneck(a) > bottleneck(b)
          \/ bottleneck(a) = bottleneck(b) /\ a.we + a.they > b.we + b.they
SortLinks(s) ==
    LET less(i, j) == LinkBefore(s[i], s[j]) \/ (~LinkBefore(s[j], s[i]) /\ i < j)
        order == SetToSortSeq(DOMAIN s, less)
    IN  [i \in DOMAIN s |-> s[order[i]]]
setLinks(list) == LET placed == SelectSeq(list, LAMBDA l : l.placed) IN [i \in DOMAIN placed |-> [link |-> placed[i], tier |-> tierFor(bottleneck(placed[i]))]]
\* paint: rows, the numbers of the text beside the boxes, lines on the map.
paintLinks(links, inc, out, coverage) ==
    LET weOnly(l) == l.we > 0 /\ l.they = 0
        list == SortLinks(SelectSeq(links, LAMBDA l : bidir(l) \/ (inc /\ weOnly(l)) \/ (out /\ ~weOnly(l))))
    IN  [rows |-> [i \in DOMAIN list |-> linkRow(list[i])], shown |-> Len(list), twoWay |-> Len(SelectSeq(links, bidir)),
         noGps |-> Len(SelectSeq(list, LAMBDA l : ~l.placed)), map |-> setLinks(IF coverage THEN <<>> ELSE list)]
listLinks ==
    \E links \in [1..MaxLinks -> RadioLinks], inc, out, coverage \in BOOLEAN :
       Computes("links", [links |-> links, inc |-> inc, out |-> out, coverage |-> coverage], paintLinks(links, inc, out, coverage))
\* A one-way link is in the table exactly when the box of the word beside
\* its name is ticked; the two-way ones come first and are all there; rows
\* that are not on the map are counted, and line and row of a link have the
\* same colour.
LinksAccounted ==
    alg = "links" =>
       /\ \A i \in DOMAIN res.rows : \/ res.rows[i].dir = "" \/ (res.rows[i].dir = "incoming" /\ arg.inc) \/ (res.rows[i].dir = "outgoing" /\ arg.out)
       /\ (arg.inc /\ arg.out) => Len(res.rows) = Len(arg.links)
       /\ \A i, j \in DOMAIN res.rows : i < j => (res.rows[j].dir = "" => res.rows[i].dir = "")
       /\ Cardinality({i \in DOMAIN res.rows : res.rows[i].dir = ""}) = res.twoWay
       /\ (~arg.coverage => Len(res.map) + res.noGps = Len(res.rows))
       /\ \A i \in DOMAIN res.map : \E j \in DOMAIN res.rows : res.rows[j].link = res.map[i].link /\ res.rows[j].tier = res.map[i].tier
       /\ \A i \in DOMAIN res.rows : (res.rows[i].tier = "one-way") = (res.rows[i].dir # "")

(***************************************************************************)
(* Cells of coverage.  Signals are in dB, None without one.                *)
(***************************************************************************)
None == -99
colorAbove(snr) == IF snr = None THEN "grey" ELSE IF snr > -5 THEN "strong" ELSE IF snr > -9 THEN "mid" ELSE "weak"

colorVar(snr) == IF snr = None THEN "grey" ELSE IF snr >= -5 THEN "strong" ELSE IF snr >= -9 THEN "mid" ELSE "weak"
\* The reach page's copy.
coverageColorVar(snr) == IF snr = None THEN "grey" ELSE IF snr >= -5 THEN "strong" ELSE IF snr >= -9 THEN "mid" ELSE "weak"
fillOpacityFor(snr) == CASE colorVar(snr) = "strong" -> 60 [] colorVar(snr) = "mid" -> 48 [] colorVar(snr) = "weak" -> 34 [] OTHER -> 22
coverageFillOpacity(snr) == CASE coverageColorVar(snr) = "strong" -> 60 [] coverageColorVar(snr) = "mid" -> 48 [] coverageColorVar(snr) = "weak" -> 34 [] OTHER -> 22
\* Rows of the tooltip and the number in "(N more)".
coverageNodesHtml(n) == [head |-> n, rows |-> Min({n, ListCap}), more |-> IF n > ListCap THEN n - ListCap ELSE 0]
drawCell ==
    \E snr \in {None} \union -11..-3, n \in 0..(ListCap + 2) :
       Computes("cell", [snr |-> snr, n |-> n], [color |-> colorVar(snr), opacity |-> fillOpacityFor(snr), reachColor |-> coverageColorVar(snr),
                                                reachOpacity |-> coverageFillOpacity(snr), tip |-> coverageNodesHtml(n)])
\* A cell looks the same on both pages that draw it, a stronger signal is
\* never fainter, and the tooltip tells of every node.
CellsSameOnBothPages ==
    alg = "cell" =>
       /\ res.color = res.reachColor /\ res.opacity = res.reachOpacity
       /\ (arg.snr # None) => fillOpacityFor(arg.snr) >= fillOpacityFor(arg.snr - 1) \/ arg.snr - 1 = None
       /\ res.tip.rows + res.tip.more = res.tip.head /\ res.tip.rows <= ListCap

PagesAlgoNext == compareSets \/ tracePacket \/ listLinks \/ drawCell

------------------------------------------------------------------------------
(***************************************************************************)
(* What the node list computes (public/nodes.js, public/nodes-export.js)   *)
(* with the helpers it shares with other pages (public/roles.js): order of *)
(* the rows, age and status of a node, trust in a neighbour, pages of the  *)
(* list, contacts, clock skew in words, markers, tiles.                    *)
(***************************************************************************)

CONSTANT MaxNodeRows    \* rows of a list

ASSUME NodesAlgoAssumption == MaxNodeRows \in Nat

\* Array.prototype.sort is stable.
StableSort(s, Before(_, _)) ==
    LET less(i, j) == Before(s[i], s[j]) \/ (~Before(s[j], s[i]) /\ i < j)
        order == SetToSortSeq(DOMAIN s, less)
    IN  [i \in DOMAIN s |-> s[order[i]]]

(***************************************************************************)
(* Rows.  A node is [id, v]: v the column's value, 0 for none.             *)
(***************************************************************************)
\* Columns whose blank cells go last in both directions (name, scope, first
\* seen), and those where a blank counts as the least (the others).
sortNodes(rows, blankLast, up) ==
    StableSort(rows, LAMBDA a, b :
        IF blankLast /\ (a.v = 0 \/ b.v = 0) THEN a.v # 0 /\ b.v = 0
        ELSE IF up THEN a.v < b.v ELSE a.v > b.v)
rankOf(n, claimed, favs) == IF n.id \in claimed THEN 0 ELSE IF n.id \in favs THEN 1 ELSE 2
pinThenSort(rows, blankLast, up, claimed, favs) ==
    sortNodes(StableSort(rows, LAMBDA a, b : rankOf(a, claimed, favs) < rankOf(b, claimed, favs)), blankLast, up)
renderRows(rows, blankLast, up, claimed, favs) ==
    StableSort(sortNodes(rows, blankLast, up), LAMBDA a, b : rankOf(a, claimed, favs) < rankOf(b, claimed, favs))
orderRows ==
    \E vs \in [1..MaxNodeRows -> 0..2], last, up \in BOOLEAN, claimed, favs \in SUBSET (1..MaxNodeRows) :
       LET rows == [i \in 1..MaxNodeRows |-> [id |-> i, v |-> vs[i]]]
       IN  claimed \subseteq favs
           /\ Computes("rows", [last |-> last, up |-> up, claimed |-> claimed, favs |-> favs], renderRows(rows, last, up, claimed, favs))
\* Claimed nodes come first, favourites next, and in each of the three
\* groups the column's order holds, blank cells where they belong: the
\* second sort of renderRows must not undo the first.
RowsOrdered ==
    alg = "rows" => \A i, j \in DOMAIN res : i < j =>
       LET a == res[i]
           b == res[j]
           ra == rankOf(a, arg.claimed, arg.favs)
           rb == rankOf(b, arg.claimed, arg.favs)
       IN  /\ a.id # b.id /\ ra <= rb
           /\ ra = rb => \/ a.v = b.v
                         \/ (arg.last /\ b.v = 0)
                         \/ (~(arg.last /\ a.v = 0) /\ (arg.up <=> a.v < b.v))

(***************************************************************************)
(* Age and status.  Times are hours since an epoch, 0 for unknown.         *)
(***************************************************************************)
Now == 9
IsInfra(role) == role \in {"repeater", "room"}
silentMs(role) == IF IsInfra(role) THEN 6 ELSE 3
Unheard == 0
getEffectiveHeardMs(n) == IF IsInfra(n.role) /\ n.relayed > n.heard THEN n.relayed ELSE n.heard
ageOf(t) == IF t = Unheard THEN 99 ELSE Now - t
statusOfAdvert(n) == IF ageOf(n.heard) < silentMs(n.role) THEN "active" ELSE "stale"
getNodeStatus(n) == IF ageOf(getEffectiveHeardMs(n)) < silentMs(n.role) THEN "active" ELSE "stale"
silenceAgeMs(n) == ageOf(getEffectiveHeardMs(n))
Silences == {1, 4, 7}
\* The part of loadNodes after the other filters: counts for every silence,
\* then the rows of the chosen one (0 for any).
silentCounts(nodes) == [k \in Silences |-> Cardinality({n \in nodes : silenceAgeMs(n) >= k})]
silentRows(nodes, silentFor) == IF silentFor = 0 THEN nodes ELSE {n \in nodes : silenceAgeMs(n) >= silentFor}
HeardNodes == [role : {"repeater", "companion"}, heard : {0, 1, 4, 8}, relayed : {0, 5, 8}]
filterSilent ==
    \E a, b \in HeardNodes, s \in Silences \union {0}, st \in {"all", "active", "stale"} :
       LET kept == {n \in {a, b} : st \in {"all", getNodeStatus(n)}}
       IN  Computes("silent", [s |-> s, st |-> st], [counts |-> silentCounts(kept), rows |-> silentRows(kept, s)])
\* The silence menu promises what choosing it shows, and a row that passes
\* as active is never among the nodes silent for longer than its role may
\* be: age and status use one notion of when a node was heard, relays
\* included (getEffectiveHeardMs).
SilenceAgrees ==
    alg = "silent" =>
       /\ arg.s # 0 => res.counts[arg.s] = Cardinality(res.rows)
       /\ arg.st = "active" => \A n \in res.rows : silenceAgeMs(n) < silentMs(n.role)
       /\ arg.st = "stale" => \A n \in res.rows : silenceAgeMs(n) >= silentMs(n.role)

(***************************************************************************)
(* Trust in a neighbour, in eighths of an observation.                     *)
(***************************************************************************)
ByteWeights == <<4, 1, 7, 8>>
allWeights(mode, trust) == IF trust >= 2 /\ mode \in 1..(trust - 1) THEN 0 ELSE ByteWeights[mode + 1]
\* Bytes below the threshold, and sightings of unknown length, prove nothing
\* when a threshold is set.
modeWeight(mode, trust) == IF trust >= 2 /\ mode < trust THEN 0 ELSE ByteWeights[mode + 1]
weighted(byMode, count, trust) ==
    LET summed == MapThenSumSet(LAMBDA m : byMode[m], DOMAIN byMode)
        rest == Max({count - summed, 0})
    IN  MapThenSumSet(LAMBDA m : modeWeight(m, trust) * byMode[m], DOMAIN byMode) + modeWeight(0, trust) * rest
getConfidenceIndicator(e, trust) ==
    LET w == weighted(e.byMode, e.count, trust) IN
    IF e.ambiguous THEN "ambiguous"
    ELSE IF e.count <= 1 /\ w < 8 THEN "low"
    ELSE IF (e.strong /\ e.count >= 3) \/ w >= 24 THEN "high" ELSE "medium"
judgeNeighbour ==
    \E byMode \in [0..3 -> {0, 1, 6}], extra \in 0..1, amb, strong \in BOOLEAN :
       LET e == [byMode |-> byMode, count |-> MapThenSumSet(LAMBDA m : byMode[m], 0..3) + extra, ambiguous |-> amb, strong |-> strong]
       IN  Computes("confidence", e, [t \in 1..3 |-> getConfidenceIndicator(e, t)])
Levels == [low |-> 1, medium |-> 2, high |-> 3]
\* A stricter threshold never makes a neighbour look surer, and without a
\* strong score only sightings that meet it make it sure ("excluded from
\* trusted evidence").
TrustNeverRaises ==
    alg = "confidence" /\ ~arg.ambiguous =>
       /\ \A t \in 1..2 : Levels[res[t + 1]] <= Levels[res[t]]
       /\ \A t \in 2..3 : (~arg.strong /\ \A m \in t..3 : arg.byMode[m] = 0) => res[t] # "high"

(***************************************************************************)
(* The list by pages.  Between two requests a node that is heard moves to  *)
(* the front.                                                              *)
(***************************************************************************)
PageSize == 2
Moved(s, i) == IF i = 0 THEN s ELSE <<s[i]>> \o RemoveAt(s, i)
PageOf(s, k) == SubSeq(s, PageSize * (k - 1) + 1, Min({PageSize * k, Len(s)}))
keepPages(got) == got
dedupPages(got) == FoldSeq(LAMBDA n, seen : IF n \in Range(seen) THEN seen ELSE Append(seen, n), <<>>, got)
\* The loop ends at the first short page.
fetchPages(before, after) ==
    LET first == PageOf(before, 1)
        second == PageOf(after, 2)
        third == PageOf(after, 3)
    IN  dedupPages(IF Len(first) < PageSize THEN first
                   ELSE IF Len(second) < PageSize THEN first \o second ELSE first \o second \o third)
pageNodes ==
    \E n \in 0..(3 * PageSize - 1) : \E i \in 0..n :
       LET s == [j \in 1..n |-> j] IN Computes("pages", <<n, i>>, fetchPages(s, Moved(s, i)))
\* No node is listed twice, and none is missing but the one that moved to
\* the front between two requests (#1606: a short page, not the total, ends
\* the loop).
PagesComplete ==
    alg = "pages" =>
       /\ Cardinality(Range(res)) = Len(res)
       /\ (1..arg[1]) \ {arg[2]} \subseteq Range(res)

(***************************************************************************)
(* Contacts, names, clock skew.                                            *)
(***************************************************************************)
Roles == {"companion", "repeater", "room", "sensor", "other"}
typeMap == [companion |-> 1, repeater |-> 2, room |-> 3, sensor |-> 4]
swappedTypes == [typeMap EXCEPT !.room = 4, !.sensor = 3]
\* The code of the full view and of the panel, and the exported file.
contactType(role) == IF role \in DOMAIN typeMap THEN typeMap[role] ELSE 2
ROLE_TYPES == typeMap
\* "" for no name; where: "none", "zero" or "place".
contactFor(n) ==
    IF ~n.named \/ ~n.fullKey \/ n.where # "place" THEN <<>>
    ELSE <<[key |-> n.key, type |-> IF n.role \in DOMAIN ROLE_TYPES THEN ROLE_TYPES[n.role] ELSE 1]>>
buildContacts(nodes) == FlattenSeq([i \in DOMAIN nodes |-> contactFor(nodes[i])])
updateExportBtn(nodes) == Len(buildContacts(nodes))
exportNodes ==
    \E a, b \in [role : Roles, named : BOOLEAN, fullKey : BOOLEAN, where : {"none", "zero", "place"}] :
       LET nodes == <<[key |-> 1] @@ a, [key |-> 2] @@ b>>
       IN  Computes("export", nodes, [file |-> buildContacts(nodes), button |-> updateExportBtn(nodes)])
\* The button announces the contacts of the file, and a contact of a known
\* role gets the type that the node's QR code gives it.
ExportMatchesCode ==
    alg = "export" =>
       /\ res.button = Len(res.file)
       /\ \A c \in Range(res.file) : arg[c.key].role # "other" => c.type = contactType(arg[c.key].role)

\* buildDupNameMap and dupNameBadge: names are compared in lower case (v \div 2).
lower(name) == name \div 2
dupOfRaw(nodes, i) ==
    IF nodes[i].name = 0 THEN {} ELSE {nodes[j].key : j \in {j \in DOMAIN nodes : nodes[j].name # 0 /\ nodes[j].name \in {lower(nodes[i].name) * 2, nodes[i].name}}} \ {nodes[i].key}
dupNameBadge(nodes, i) ==
    IF nodes[i].name = 0 THEN {} ELSE {nodes[j].key : j \in {j \in DOMAIN nodes : nodes[j].name # 0 /\ lower(nodes[j].name) = lower(nodes[i].name)}} \ {nodes[i].key}
findTwins ==
    \E nodes \in [1..3 -> [key : 1..3, name : {0, 2, 3, 4}]] :
       Computes("twins", nodes, [i \in 1..3 |-> dupNameBadge(nodes, i)])
\* If one node's badge names another, the other's badge names it.
TwinsMutual ==
    alg = "twins" => \A i \in DOMAIN res, j \in DOMAIN arg :
       (arg[j].key \in res[i] /\ arg[j].name # 0 /\ lower(arg[j].name) = lower(arg[i].name)) => arg[i].key \in res[j]

\* formatSkew, the units 1, 60, 3600 and 86400 scaled to 1, 4, 16 and 64.
Units == <<1, 4, 16, 64>>
roundOf(a, b) == (2 * a + b) \div (2 * b)
sayFloor(abs) ==
    LET u == Max({i \in 1..4 : Units[i] <= abs} \union {1}) IN
    IF u = 1 THEN [major |-> 0, unit |-> 1, minor |-> abs, of |-> 1]
    ELSE [major |-> abs \div Units[u], unit |-> Units[u], minor |-> (abs % Units[u]) \div Units[u - 1], of |-> Units[u - 1]]
formatSkew(abs) ==
    LET u == Max({i \in 1..4 : Units[i] <= abs} \union {1}) IN
    IF u = 1 THEN [major |-> 0, unit |-> 1, minor |-> abs, of |-> 1]
    ELSE [major |-> abs \div Units[u], unit |-> Units[u], minor |-> roundOf(abs % Units[u], Units[u - 1]), of |-> Units[u - 1]]
saySkew == \E abs \in 0..200 : Computes("skew", <<abs>>, formatSkew(abs))
\* The words are off by half of the smaller unit at most.
SkewFaithful ==
    alg = "skew" =>
       LET said == res.major * res.unit + res.minor * res.of
       IN  2 * said <= 2 * arg[1] + res.of /\ 2 * arg[1] <= 2 * said + res.of

NodesAlgoNext == orderRows \/ filterSilent \/ judgeNeighbour \/ pageNodes \/ exportNodes \/ findTwins \/ saySkew

(* What the pages of nodes, observers, traces and reach compute. *)
PagesCompute ==
    /\ OverlapAddsUp
    /\ TraceComplete
    /\ LinksAccounted
    /\ CellsSameOnBothPages
    /\ RowsOrdered
    /\ SilenceAgrees
    /\ TrustNeverRaises
    /\ PagesComplete
    /\ ExportMatchesCode
    /\ TwinsMutual
    /\ SkewFaithful
==============================================================================
