-------------------------------- MODULE MapAlgo --------------------------------
(***************************************************************************)
(* What the map computes before it draws (public/map.js and the drawing    *)
(* part of public/route-view.js): the positions of a route's hops, the     *)
(* observers that saw a hop, the groups of the path picker, the markers    *)
(* after the filters, labels moved apart, the most important links.  One   *)
(* step computes one of them for one input.                                *)
(*                                                                         *)
(* A node is a number, a hop its first digit or the whole number; a place  *)
(* is a number on a line, Nowhere without coordinates, 0 the (0, 0) of a   *)
(* node that has no fix.                                                   *)
(***************************************************************************)
EXTENDS OneStep, Integers, Sequences, SequencesExt, FiniteSetsExt

CONSTANTS MapNodes,     \* public keys in the list's order
          MaxPlaces     \* bound on the markers that are moved apart

ASSUME MapAlgoAssumption == MapNodes \subseteq 10..99 /\ MaxPlaces \in Nat

Nowhere == -1
RealGps(at) == at # Nowhere /\ at # 0
Matching(h) == {n \in MapNodes : n = h \/ n \div 10 = h}
FirstOf(S) == Min(S)
Absolute(i) == IF i < 0 THEN -i ELSE i

-----------------------------------------------------------------------------
\* Positions of a route.
Position(pk, at, hex, ok) == [pk |-> pk, at |-> at, hex |-> hex, ok |-> ok, cands |-> {}, isDest |-> FALSE]

\* The server's resolution first, with the place of its first candidate;
\* then the nodes whose key fits, if one of them has a place.
fromServer(place, s, h) == IF RealGps(place[s.first]) THEN Position(s.pk, place[s.first], h, TRUE) ELSE Position(s.pk, Nowhere, h, FALSE)
fromNodesAnyPlace(place, h) ==
    LET all == Matching(h)
        withGps == {n \in all : place[n] # Nowhere}
    IN  IF Cardinality(withGps) = 1 THEN Position(FirstOf(withGps), place[FirstOf(withGps)], h, TRUE)
        ELSE IF withGps # {} THEN [Position(h, Nowhere, h, FALSE) EXCEPT !.cands = withGps]
        ELSE Position(IF all = {} THEN h ELSE FirstOf(all), Nowhere, h, FALSE)

fromNodes(place, h) ==
    LET all == Matching(h)
        withGps == {n \in all : RealGps(place[n])}
    IN  IF Cardinality(withGps) = 1 THEN Position(FirstOf(withGps), place[FirstOf(withGps)], h, TRUE)
        ELSE IF withGps # {} THEN [Position(h, Nowhere, h, FALSE) EXCEPT !.cands = withGps]
        ELSE Position(IF all = {} THEN h ELSE FirstOf(all), Nowhere, h, FALSE)
resolveHop(place, srv, h) == IF srv[h].pk # 0 THEN fromServer(place, srv[h], h) ELSE fromNodes(place, h)

\* A hop several located nodes fit is the one nearest to the centre of the
\* hops that are known; without one it stays unresolved.
nearestToCentre(raw, place) ==
    LET known == {i \in DOMAIN raw : raw[i].ok}
        sum == MapThenSumSet(LAMBDA i : raw[i].at, known)
        off(n) == Absolute(place[n] * Cardinality(known) - sum)
        best(c) == FirstOf({n \in c : \A m \in c : off(n) <= off(m)})
    IN  [i \in DOMAIN raw |-> IF known = {} \/ raw[i].cands = {} THEN raw[i]
                              ELSE Position(best(raw[i].cands), place[best(raw[i].cands)], raw[i].hex, TRUE)]

\* Sender and recipient come from the payload and carry no hop.
Payload(place, pk) == IF pk = 0 THEN <<>> ELSE <<Position(pk, IF RealGps(place[pk]) THEN place[pk] ELSE Nowhere, 0, RealGps(place[pk]))>>
MarkLast(ps) == IF ps = <<>> THEN ps ELSE [ps EXCEPT ![Len(ps)].isDest = TRUE]
\* MC_isVisibleHop: a hop of one byte is hidden when the setting says so.
hideMarksFirst(ps, hide) == IF hide THEN SelectSeq(MarkLast(ps), LAMBDA p : p.hex = 0 \/ p.hex > 9) ELSE MarkLast(ps)
hideOneByteHops(ps, hide) == IF hide THEN MarkLast(SelectSeq(MarkLast(ps), LAMBDA p : p.hex = 0 \/ p.hex > 9)) ELSE MarkLast(ps)

routePositions(place, path, srv, origin, dest, hide) ==
    LET raw == nearestToCentre([i \in DOMAIN path |-> resolveHop(place, srv, path[i])], place)
    IN  hideOneByteHops(Payload(place, origin) \o raw \o Payload(place, dest), hide)

Places == {f \in [MapNodes -> {Nowhere, 0, 3, 7}] : \A n \in MapNodes : f[n] \in IF n = 10 THEN {Nowhere, 0, 3} ELSE {Nowhere, 7}}
Srv1 == {[pk |-> 0, first |-> 10], [pk |-> 10, first |-> 10], [pk |-> 11, first |-> 10], [pk |-> 11, first |-> 11]}
computePositions ==
    \E place \in Places, path \in SeqOf({1, 2, 11}, 2) \ {<<>>}, s1 \in Srv1, o \in {0, 20}, d \in {0, 10}, hide \in BOOLEAN :
       LET srv == [h \in {1, 2, 11} |-> IF h = 1 THEN s1 ELSE [pk |-> 0, first |-> 10]]
       IN  Computes("positions", [path |-> path, hide |-> hide, ends |-> <<o, d>>], routePositions(place, path, srv, o, d, hide))

\* No hop is drawn at a place no node is at: not at (0, 0), and not without
\* coordinates; who is drawn fits the hop.
NoNullIsland ==
    alg = "positions" =>
       \A i \in DOMAIN res : /\ res[i].ok => RealGps(res[i].at)
                             /\ (res[i].ok /\ res[i].hex # 0) => res[i].pk \in Matching(res[i].hex)
\* Whatever the filter takes out, the last hop that is left, and no other,
\* is marked as the destination, and sender and recipient stay.
OneDestination ==
    (alg = "positions" /\ res # <<>>) =>
       /\ \A i \in DOMAIN res : res[i].isDest <=> i = Len(res)
       /\ \A e \in {arg.ends[i] : i \in 1..2} \ {0} : \E i \in DOMAIN res : res[i].hex = 0 /\ res[i].pk = e

-----------------------------------------------------------------------------
\* Several observations of one packet: how many saw a hop of the chosen
\* path, which carries whole keys where the others have prefixes.
SameHop(full, h) == full = h \/ full \div 10 = h \/ h \div 10 = full
OccurrencesOf(paths, full) == MapThenSumSet(LAMBDA i : Cardinality({j \in DOMAIN paths[i] : SameHop(full, paths[i][j])}), DOMAIN paths)
coverage(paths, full) ==
    LET seen == Cardinality({i \in DOMAIN paths : \E j \in DOMAIN paths[i] : SameHop(full, paths[i][j])})
    IN  IF seen = 0 THEN 1 ELSE seen
\* Observers by edge: key of the two hops as they stand in the paths.
edgeCounts(paths, a, b) == MapThenSumSet(LAMBDA i : Cardinality({j \in 1..(Len(paths[i]) - 1) : paths[i][j] = a /\ paths[i][j + 1] = b}), DOMAIN paths)
\* The width of an edge within the path, in tenths of a pixel.  Keys are
\* compared by the first byte of the canonical hops.
edgeWeight(paths, from, to) ==
    LET byteOf(pk) == IF pk > 9 THEN pk \div 10 ELSE pk
        n == edgeCounts(paths, byteOf(from), byteOf(to))
    IN  IF n = 0 THEN 15 ELSE 30 + (60 * n) \div Len(paths)
computeCoverage ==
    \E p1, p2 \in SeqOf({1, 2, 11, 20}, 2), full \in {1, 11, 20} :
       Computes("coverage", [paths |-> <<p1, p2>>, full |-> full], [n |-> coverage(<<p1, p2>>, full), w |-> edgeWeight(<<p1, p2>>, 11, 20)])

\* A hop is never said to be seen by more observers than there are, even if
\* a path runs through it twice.
CoverageBounded == alg = "coverage" => res.n \in 1..Len(arg.paths)
\* "thicker edge = more observers saw it": an edge every observer saw is
\* wider than one nobody did.
SawEdge(p) == \E j \in 1..(Len(p) - 1) : SameHop(11, p[j]) /\ SameHop(20, p[j + 1])
ConsensusIsThick == (alg = "coverage" /\ \A i \in 1..2 : SawEdge(arg.paths[i])) => res.w > 15

\* The path picker: observations grouped by their visible hops; of a path
\* with none the whole path is the key.
VisibleHops(p) == SelectSeq(p, LAMBDA h : h > 9)
pathKeyEmpty(p, hide) == <<"hops", IF hide THEN VisibleHops(p) ELSE p>>

pathKey(p, hide) ==
    LET v == IF hide THEN VisibleHops(p) ELSE p
    IN  IF v = <<>> THEN <<"all-1byte", p>> ELSE <<"hops", v>>
uniquePathsCount(paths, hide) == Cardinality({pathKey(paths[i], hide) : i \in DOMAIN paths})
pathGroups(paths, hide) ==
    LET keys == {IF hide /\ VisibleHops(paths[i]) # <<>> THEN <<"hops", VisibleHops(paths[i])>>
                 ELSE IF hide \/ paths[i] = <<>> THEN <<"all-1byte", paths[i]>> ELSE <<"hops", paths[i]>> : i \in DOMAIN paths}
    IN  [k \in keys |-> Cardinality({i \in DOMAIN paths : pathKey(paths[i], hide) = k})]
computePicker ==
    \E p1, p2 \in SeqOf({1, 2, 11}, 2), p3 \in {<<1>>, <<11>>, <<1, 11>>}, hide \in BOOLEAN :
       LET ps == <<p1, p2, p3>>
       IN  Computes("picker", ps, [n |-> uniquePathsCount(ps, hide), groups |-> pathGroups(ps, hide)])
\* The chip and the rows of the picker count the same paths, and every
\* observation is in one of the groups.
PickerCountsAgree ==
    alg = "picker" => /\ res.n = Cardinality(DOMAIN res.groups)
                      /\ MapThenSumSet(LAMBDA k : res.groups[k], DOMAIN res.groups) = Len(arg)

-----------------------------------------------------------------------------
\* Edges: a hop without coordinates is bridged, at the middle of its located
\* neighbours (doubled, to stay whole) or at the one it has.
LocatedIn(ps) == {i \in DOMAIN ps : ps[i] # Nowhere}
resolveBetween(ps, i) ==
    LET l == {j \in LocatedIn(ps) : j < i}
        r == {j \in LocatedIn(ps) : j > i}
    IN  IF ps[i] # Nowhere THEN 2 * ps[i] ELSE IF l # {} /\ r # {} THEN ps[Max(l)] + ps[Min(r)] ELSE Nowhere

resolveCoord(ps, i) ==
    LET l == {j \in LocatedIn(ps) : j < i}
        r == {j \in LocatedIn(ps) : j > i}
    IN  IF ps[i] # Nowhere THEN 2 * ps[i]
        ELSE IF l # {} /\ r # {} THEN ps[Max(l)] + ps[Min(r)]
        ELSE IF l # {} THEN 2 * ps[Max(l)]
        ELSE IF r # {} THEN 2 * ps[Min(r)] ELSE Nowhere
\* Five colours over n edges: the lower one of edge i (from 0), and how far.
rampColor(i, n) == IF n <= 1 THEN <<4, 0>> ELSE <<(i * 4) \div (n - 1), (i * 4) % (n - 1)>>
drawnEdges(ps) == [i \in 1..(Len(ps) - 1) |-> [from |-> resolveCoord(ps, i), to |-> resolveCoord(ps, i + 1), ramp |-> rampColor(i - 1, Len(ps) - 1)]]
computeEdges == \E ps \in SeqOf({Nowhere, 2, 6}, 4) \ {<<>>} : Computes("edges", ps, drawnEdges(ps))
\* A route with one located hop is drawn from end to end, without a gap,
\* and its colours run from the first to the last of the ramp.
RouteConnected ==
    (alg = "edges" /\ LocatedIn(arg) # {}) =>
       /\ \A i \in DOMAIN res : res[i].from # Nowhere /\ res[i].to # Nowhere
       /\ \A i \in 1..(Len(res) - 1) : res[i].to = res[i + 1].from
       /\ res # <<>> => res[Len(res)].ramp = <<4, 0>>
       /\ \A i \in 1..(Len(res) - 1) : res[i].ramp[1] <= res[i + 1].ramp[1]

fanWithTaken(xs, taken, i) == {j \in DOMAIN xs : j = i \/ Absolute(xs[i] - xs[j]) < 14}

\* Markers closer than the threshold to one that is not in a group yet are
\* fanned out around their centre.
fanWith(xs, taken, i) == {j \in DOMAIN xs : j \notin taken /\ (j = i \/ Absolute(xs[i] - xs[j]) < 14)}
spiderFanFor(xs) ==
    FoldLeft(LAMBDA acc, i : IF i \in acc.taken THEN acc
                             ELSE [taken |-> acc.taken \union fanWith(xs, acc.taken, i), groups |-> Append(acc.groups, fanWith(xs, acc.taken, i))],
             [taken |-> {}, groups |-> <<>>], [i \in 1..Len(xs) |-> i]).groups
computeFan == \E xs \in [1..4 -> {0, 10, 20, 40}] : Computes("fan", xs, spiderFanFor(xs))
\* Every marker is placed once: in one group, alone or with others.
FannedOnce ==
    alg = "fan" => /\ UNION Range(res) = DOMAIN arg
                   /\ \A i, j \in DOMAIN res : i # j => res[i] \intersect res[j] = {}

-----------------------------------------------------------------------------
\* Markers after the filters (_renderMarkersInner).  A node without a
\* measured prefix is a bucket of its own.
passesFilters(n, f) ==
    /\ RealGps(n.at) /\ n.role \in f.roles
    /\ (f.bytes # "all" /\ n.role = "repeater") => IF f.bytes = "unknown" THEN n.bytes = "unknown" ELSE n.bytes = f.bytes
    /\ f.status # "all" => n.status = f.status
    /\ f.neighbors => n.pk \in f.hood
observersOfNodes(shown, obs) == {o \in obs : RealGps(o.at)}

\* Observers are drawn unless a marker of their node is.
observersDrawn(shown, obs) == {o \in obs : RealGps(o.at) /\ o.pk \notin shown}
renderMarkersInner(ns, obs, f) ==
    LET shown == {n.pk : n \in {m \in ns : passesFilters(m, f)}}
    IN  [nodes |-> shown, observers |-> IF f.observer THEN {o.pk : o \in observersDrawn(shown, obs)} ELSE {}]
\* The count beside the observers' box leaves out every observer that is a
\* node; active and stale nodes are counted by role.
buildRoleChecks(ns, obs) ==
    [observer |-> Cardinality({o \in obs : RealGps(o.at) /\ o.pk \notin {n.pk : n \in ns}}),
     repeater |-> [s \in {"active", "stale"} |-> Cardinality({n \in ns : n.role = "repeater" /\ n.status = s})]]
ANode(pk, role, st, at) == [pk |-> pk, role |-> role, status |-> st, at |-> at, bytes |-> IF st = "stale" THEN "unknown" ELSE "1"]
computeMarkers ==
    \E a10, a20 \in {Nowhere, 0, 3}, r \in {"repeater", "room"}, s \in {"active", "stale"}, roles \in SUBSET {"repeater", "room"},
       bytes \in {"all", "unknown", "1"}, st \in {"all", "active"}, nb, ob \in BOOLEAN :
       LET ns == {ANode(10, r, s, a10), ANode(20, "room", "active", 3)}
           obs == {[pk |-> 10, at |-> 3], [pk |-> 99, at |-> a20]}
       IN  Computes("markers", obs, renderMarkersInner(ns, obs, [roles |-> roles, bytes |-> bytes, status |-> st, neighbors |-> nb, hood |-> {20}, observer |-> ob])
                                    @@ [asked |-> ob, label |-> buildRoleChecks(ns, obs)])
\* Nobody is on the map twice, and with their box on every located observer
\* is there: as itself or as its node.
ObserversOnce ==
    alg = "markers" =>
       /\ res.nodes \intersect res.observers = {}
       /\ res.asked => {o.pk : o \in {p \in arg : RealGps(p.at)}} \subseteq res.nodes \union res.observers

\* deconflictLabels: boxes in the order of the markers; one that overlaps is
\* moved to the first free place on six rings of eight.
Rings == <<<<22, 16>>, <<44, 31>>, <<66, 47>>, <<88, 62>>, <<110, 78>>, <<132, 93>>>>
Around(r) == LET d == Rings[r][1] e == Rings[r][2]
             IN  <<<<d, 0>>, <<e, e>>, <<0, d>>, <<-e, e>>, <<-d, 0>>, <<-e, -e>>, <<0, -d>>, <<e, -e>>>>
Offsets == FlattenSeq([r \in 1..6 |-> Around(r)])
BoxAt(m, off) == [x |-> m.x + off[1], y |-> m.y + off[2], w |-> IF m.label THEN 38 ELSE 20, h |-> IF m.label THEN 24 ELSE 20]
overlapsWidth(b, c) == 2 * Absolute(b.x - c.x) < b.w /\ 2 * Absolute(b.y - c.y) < b.h

\* Boxes around their centres, four pixels apart.
overlaps(b, c) == 2 * Absolute(b.x - c.x) < b.w + c.w + 8 /\ 2 * Absolute(b.y - c.y) < b.h + c.h + 8
FreeOf(b, placed) == \A k \in DOMAIN placed : ~overlaps(b, placed[k])
placeLabel(placed, m) ==
    LET free == {j \in DOMAIN Offsets : FreeOf(BoxAt(m, Offsets[j]), placed)}
    IN  IF FreeOf(BoxAt(m, <<0, 0>>), placed) \/ free = {} THEN BoxAt(m, <<0, 0>>) ELSE BoxAt(m, Offsets[Min(free)])
deconflictLabels(ms) == FoldLeft(LAMBDA placed, m : Append(placed, placeLabel(placed, m)), <<>>, ms)
computeLabels ==
    \E ms \in SeqOf([x : {0, 12}, y : {0, 9}, label : BOOLEAN], MaxPlaces) : Computes("labels", ms, deconflictLabels(ms))
\* Labels of a handful of nodes at one place do not cover each other.
LabelsApart ==
    alg = "labels" => \A i, j \in DOMAIN res : i < j =>
       LET b == res[i] c == res[j]
       IN  2 * Absolute(b.x - c.x) >= b.w + c.w \/ 2 * Absolute(b.y - c.y) >= b.h + c.h

importanceOfSource(e, score, axis) == IF axis = "affinity" THEN 2 * e.s ELSE 2 * e.s * score[e.a]

\* computeTopRouteEdges: affinity times the mean of the ends' scores; both
\* ends located, importance not zero, the best N.
importance(e, score, axis) == IF axis = "affinity" THEN 2 * e.s ELSE e.s * (score[e.a] + score[e.b])
computeTopRouteEdges(es, place, score, axis, n) ==
    LET drawable == SelectSeq(es, LAMBDA e : RealGps(place[e.a]) /\ RealGps(place[e.b]) /\ importance(e, score, axis) > 0)
        ranked == SortSeq(drawable, LAMBDA x, y : importance(x, score, axis) > importance(y, score, axis))
    IN  SubSeq(ranked, 1, Min({n, Len(ranked)}))
Links == <<[a |-> 10, b |-> 11, s |-> 1], [a |-> 11, b |-> 20, s |-> 2], [a |-> 10, b |-> 20, s |-> 3]>>
computeTop ==
    \E place \in Places, score \in [MapNodes -> 0..2], axis \in {"affinity", "usefulness"}, n \in 0..2 :
       Computes("top", [place |-> place, score |-> score, axis |-> axis, n |-> n], computeTopRouteEdges(Links, place, score, axis, n))
\* Of the links that can be drawn none left out is more important than one
\* that is in, and no place is left free for one that could be drawn.
TopIsBest ==
    alg = "top" =>
       LET worth(e) == IF arg.axis = "affinity" THEN 2 * e.s ELSE e.s * (arg.score[e.a] + arg.score[e.b])
           can == {e \in Range(Links) : RealGps(arg.place[e.a]) /\ RealGps(arg.place[e.b]) /\ worth(e) > 0}
       IN  /\ Range(res) \subseteq can /\ Len(res) = Min({arg.n, Cardinality(can)})
           /\ \A e \in Range(res), d \in can \ Range(res) : worth(e) >= worth(d)

\* makeClusterIcon: counts by role in a tooltip, four of them as pills.
RoleOrder == <<"repeater", "companion", "room", "sensor", "observer">>
clusterOfPills(roles) ==
    LET n(r) == Cardinality({i \in DOMAIN roles : roles[i] = r})
        told == SelectSeq(RoleOrder, LAMBDA r : n(r) > 0)
        four == SubSeq(told, 1, Min({4, Len(told)}))
    IN  [total |-> Len(roles), tooltip |-> MapThenSumSet(n, Range(four)), pills |-> four]

makeClusterIcon(roles) ==
    LET n(r) == Cardinality({i \in DOMAIN roles : roles[i] = r})
        told == SelectSeq(RoleOrder, LAMBDA r : n(r) > 0)
    IN  [total |-> Len(roles), tooltip |-> MapThenSumSet(n, Range(told)), pills |-> SubSeq(told, 1, Min({4, Len(told)}))]
computeCluster == \E roles \in [1..5 -> Range(RoleOrder)] : Computes("cluster", roles, makeClusterIcon(roles))
\* The tooltip accounts for every node of the cluster, whatever fits below it.
ClusterAccounts == alg = "cluster" => res.tooltip = res.total /\ Len(res.pills) <= 4

jumpNoObservers(ns, obs, r) ==
    LET ids == {o.pk : o \in {p \in obs : p.iata = r}}
        heard == {n.pk : n \in {m \in ns : RealGps(m.at) /\ m.by \in ids}}
    IN  IF heard # {} THEN heard ELSE {n.pk : n \in {m \in ns : RealGps(m.at)}}

\* jumpToRegion: nodes heard by the region's observers, else the observers
\* themselves, else everything.
jumpTargets(ns, obs, r) ==
    LET ids == {o.pk : o \in {p \in obs : p.iata = r}}
        heard == {n.pk : n \in {m \in ns : RealGps(m.at) /\ m.by \in ids}}
        own == {o.pk : o \in {p \in obs : p.iata = r /\ RealGps(p.at)}}
    IN  IF heard # {} THEN heard ELSE IF own # {} THEN own ELSE {n.pk : n \in {m \in ns : RealGps(m.at)}}
computeJump ==
    \E a, b, oa \in {Nowhere, 3}, by \in {0, 98, 99} :
       LET ns == {[pk |-> 10, at |-> a, by |-> by], [pk |-> 20, at |-> b, by |-> 0]}
           obs == {[pk |-> 98, at |-> oa, iata |-> "SFO"], [pk |-> 99, at |-> 3, iata |-> "LAX"]}
       IN  Computes("jump", [ns |-> ns, obs |-> obs], jumpTargets(ns, obs, "SFO"))
\* A region of which something is on the map is not left for all the others.
JumpInRegion ==
    alg = "jump" =>
       LET here == {o.pk : o \in {p \in arg.obs : p.iata = "SFO"}}
           ours == {n.pk : n \in {m \in arg.ns : RealGps(m.at) /\ m.by \in here}} \union {o.pk : o \in {p \in arg.obs : p.pk \in here /\ RealGps(p.at)}}
       IN  ours # {} => res \subseteq ours

-----------------------------------------------------------------------------
chosenAsResolved(raw, resolved) == IF Len(resolved) = Len(raw) THEN resolved ELSE raw

\* A deep link: the path of the chosen observation, resolved by the server if
\* it has as many entries, with the raw hop where an entry is empty.
chosenPath(raw, resolved) ==
    IF Len(resolved) = Len(raw) THEN [i \in DOMAIN raw |-> IF resolved[i] = 0 THEN raw[i] ELSE resolved[i]] ELSE raw
peekUnchecked(len, pathLen, type) == [dst |-> 2 + pathLen + 1, src |-> IF type # "ANON_REQ" THEN 2 + pathLen + 2 ELSE 0]

\* Without a decoded payload the bytes after the path are read: recipient,
\* then sender, which an anonymous request has not.  0 stands for none.
peekHashes(len, pathLen, type) ==
    LET at == 2 + pathLen + 1
    IN  IF pathLen > 64 \/ len < at THEN [dst |-> 0, src |-> 0]
        ELSE [dst |-> at, src |-> IF type # "ANON_REQ" /\ len >= at + 1 THEN at + 1 ELSE 0]
computeDeepLink ==
    \/ \E raw \in SeqOf({1, 2}, 2), sv \in SeqOf({0, 10, 20}, 2) :
          /\ \A i \in DOMAIN raw \intersect DOMAIN sv : sv[i] \in {0, 10 * raw[i]}
          /\ Computes("chosen", raw, chosenPath(raw, sv))
    \/ \E len \in 2..6, p \in {0, 1, 2, 3, 64, 65}, t \in {"TXT_MSG", "ANON_REQ"} : Computes("peek", [len |-> len, path |-> p], peekHashes(len, p, t))
\* The chosen path is that of the observation, hop by hop.
ChosenIsObserved == alg = "chosen" => Len(res) = Len(arg) /\ \A i \in DOMAIN arg : res[i] # 0 /\ SameHop(res[i], arg[i])
\* A hash is only read from bytes the packet has, after those of its path.
PeeksInside == alg = "peek" => \A b \in {res.dst, res.src} \ {0} : b <= arg.len /\ b > 2 + arg.path

MapAlgoNext ==
    \/ computePositions \/ computeCoverage \/ computePicker \/ computeEdges \/ computeFan \/ computeMarkers
    \/ computeLabels \/ computeTop \/ computeCluster \/ computeJump \/ computeDeepLink

(* What the map and the route view compute of paths, clusters and labels. *)
MapComputes ==
    /\ NoNullIsland
    /\ OneDestination
    /\ CoverageBounded
    /\ PickerCountsAgree
    /\ RouteConnected
    /\ FannedOnce
    /\ ObserversOnce
    /\ LabelsApart
    /\ TopIsBest
    /\ ClusterAccounts
    /\ JumpInRegion
    /\ ChosenIsObserved
    /\ PeeksInside
================================================================================
