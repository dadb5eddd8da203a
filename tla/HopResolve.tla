------------------------------- MODULE HopResolve -------------------------------
(***************************************************************************)
(* The hops of a path as nodes: public/hop-resolver.js, what hop-display.js*)
(* says of them, and the trust of public/hop-filter.js.  Positions are     *)
(* points of a line, prefixes the tens of a node's key.                    *)
(***************************************************************************)
EXTENDS OneStep, Integers, Sequences, SequencesExt, FiniteSetsExt, Functions

CONSTANTS HrNodes,      \* keys, a prefix and a digit
          HrPlaces,     \* positions, 0 for a node without one
          HrHops,       \* hops of a path
          MAX_HOP_DIST, \* farther apart two hops are not believed
          REGION_RADIUS

ASSUME HopResolveAssumption == HrNodes \subseteq Nat /\ HrPlaces \subseteq Nat /\ HrHops \in Nat /\ MAX_HOP_DIST \in Nat /\ REGION_RADIUS \in Nat

NoPlace == 0
Far == 999999
prefixOf(n) == n \div 10
Gap(a, b) == IF a > b THEN a - b ELSE b - a

(***************************************************************************)
(* A world: the nodes that can relay, their places, the neighbour graph,   *)
(* the centre of the observer's region (NoPlace: none), and the places of  *)
(* the sender and of the observer.                                         *)
(***************************************************************************)
prefixIdx(w, p) == SetToSortSeq({n \in w.relays : prefixOf(n) = p}, <)
getAffinity(w, a, b) == IF {a, b} \in DOMAIN w.graph THEN w.graph[{a, b}] ELSE 0
nodeInRegion(w, n) == w.region # NoPlace /\ w.at[n] # NoPlace /\ Gap(w.at[n], w.region) <= REGION_RADIUS

\* First pass: the candidates of a hop are its prefix's relays, only those of
\* the observer's region when there are some, the nearest first.
ByDistance(w, s) == SetToSortSeq(Range(s), LAMBDA a, b : Gap(w.at[a], w.region) < Gap(w.at[b], w.region) \/ (Gap(w.at[a], w.region) = Gap(w.at[b], w.region) /\ a < b))
candidatesOf(w, p) ==
    LET all == prefixIdx(w, p)
        regional == SelectSeq(all, LAMBDA n : nodeInRegion(w, n))
    IN  IF Len(all) > 1 /\ regional # <<>> THEN ByDistance(w, regional) ELSE all
firstPass(w, p) ==
    LET all == prefixIdx(w, p)
        c == candidatesOf(w, p)
    IN  [pubkey |-> IF c = <<>> THEN 0 ELSE c[1], ambiguous |-> Len(c) > 1, candidates |-> c,
         globalFallback |-> Len(all) > 1 /\ w.region # NoPlace /\ ~\E i \in DOMAIN all : nodeInRegion(w, all[i]), unreliable |-> FALSE]

\* pickByAffinity: most linked to the resolved neighbours; without a link,
\* nearest to the middle of their places (twice the distance, to stay whole).
First(s, best(_)) == s[Min({i \in DOMAIN s : best(s[i])})]
pickByAffinity(w, cands, prev, next, prevPos, nextPos) ==
    LET score(c) == (IF prev = 0 THEN 0 ELSE getAffinity(w, prev, c)) + (IF next = 0 THEN 0 ELSE getAffinity(w, next, c))
        top == Max({score(c) : c \in Range(cands)})
        anchors == {p \in {1, 2} : <<prevPos, nextPos>>[p] # NoPlace}
        twice(c) == IF w.at[c] = NoPlace THEN Far
                    ELSE IF anchors = {1, 2} THEN Gap(2 * w.at[c], prevPos + nextPos)
                    ELSE 2 * Gap(w.at[c], IF 1 \in anchors THEN prevPos ELSE nextPos)
    IN  IF top > 0 THEN First(cands, LAMBDA c : score(c) = top)
        ELSE First(cands, LAMBDA c : twice(c) = Min({twice(d) : d \in Range(cands)}))

BeforeAdjacent(hops, pos, i) == {j \in {i - 1} \ {0} : pos[hops[j]] # NoPlace}

\* The nearest hop before or after i that has a position already.
Before_(hops, pos, i) == {j \in 1..(i - 1) : pos[hops[j]] # NoPlace}
After_(hops, pos, i) == {j \in (i + 1)..Len(hops) : pos[hops[j]] # NoPlace}
\* One visit of hop i by the loop that settles ambiguous hops.
settle(w, hops, s, i) ==
    LET r == s.resolved[hops[i]]
        withLoc == SelectSeq(r.candidates, LAMBDA c : w.at[c] # NoPlace)
        b == Before_(hops, s.pos, i)
        a == After_(hops, s.pos, i)
        prev == IF b = {} THEN 0 ELSE s.resolved[hops[Max(b)]].pubkey
        next == IF a = {} THEN 0 ELSE s.resolved[hops[Min(a)]].pubkey
        prevPos == IF b = {} THEN w.origin ELSE s.pos[hops[Max(b)]]
        nextPos == IF a = {} THEN w.observer ELSE s.pos[hops[Min(a)]]
        picked == pickByAffinity(w, withLoc, prev, next, prevPos, nextPos)
    IN  IF ~r.ambiguous \/ s.pos[hops[i]] # NoPlace \/ withLoc = <<>> \/ (prevPos = NoPlace /\ nextPos = NoPlace) THEN s
        ELSE [resolved |-> [s.resolved EXCEPT ![hops[i]].pubkey = picked], pos |-> [s.pos EXCEPT ![hops[i]] = w.at[picked]]]
\* Passes over the path until one changes nothing.
settleAll(w, hops, s) ==
    IF \A p \in Range(hops) : ~s.resolved[p].ambiguous THEN s
    ELSE FoldLeft(LAMBDA acc, i : settle(w, hops, acc, i), s, [k \in 1..(Len(hops) * (Len(hops) + 1)) |-> ((k - 1) % Len(hops)) + 1])
tooFarBoth(hops, pos, i) ==
    LET far(j) == j \in DOMAIN hops /\ pos[hops[j]] # NoPlace /\ Gap(pos[hops[i]], pos[hops[j]]) > MAX_HOP_DIST
    IN  pos[hops[i]] # NoPlace /\ far(i - 1) /\ far(i + 1)

\* A position too far from both neighbours, or from the only one, goes.
tooFar(hops, pos, i) ==
    LET p == IF i > 1 THEN pos[hops[i - 1]] ELSE NoPlace
        n == IF i < Len(hops) THEN pos[hops[i + 1]] ELSE NoPlace
        far(q) == q # NoPlace /\ Gap(pos[hops[i]], q) > MAX_HOP_DIST
    IN  pos[hops[i]] # NoPlace /\ (far(p) \/ far(n)) /\ (far(p) \/ p = NoPlace) /\ (far(n) \/ n = NoPlace)
sanityCheck(hops, s) ==
    FoldLeft(LAMBDA acc, i : IF tooFar(hops, acc.pos, i)
                             THEN [resolved |-> [acc.resolved EXCEPT ![hops[i]].unreliable = TRUE], pos |-> [acc.pos EXCEPT ![hops[i]] = NoPlace]]
                             ELSE acc, s, [i \in DOMAIN hops |-> i])
\* resolve: everything is keyed by the hop's text, not by its place.
resolve(w, hops) ==
    LET first == [p \in Range(hops) |-> firstPass(w, p)]
        pos == [p \in Range(hops) |-> IF first[p].ambiguous \/ first[p].pubkey = 0 THEN NoPlace ELSE w.at[first[p].pubkey]]
        settled == settleAll(w, hops, [resolved |-> first, pos |-> pos])
    IN  [sane |-> sanityCheck(hops, settled), settled |-> settled]

(***************************************************************************)
(* renderHop: how a hop looks, and the list its warning button opens.      *)
(***************************************************************************)
regionalOf(w, r) == SelectSeq(r.candidates, LAMBDA n : nodeInRegion(w, n))
renderHop(w, r) ==
    LET regional == Len(regionalOf(w, r))
        conflicts == IF Len(prefixIdx(w, prefixOf(IF r.pubkey = 0 THEN 0 ELSE r.pubkey))) > 1 THEN Len(r.candidates) ELSE 0
        badge == IF conflicts > 0 /\ regional > 0 THEN regional ELSE IF r.globalFallback THEN conflicts ELSE 0
    IN  [named |-> r.pubkey # 0, badge |-> IF badge > 1 THEN badge ELSE 0, underlined |-> r.ambiguous \/ r.globalFallback, warned |-> r.unreliable]
showConflictPopover(w, r) == IF regionalOf(w, r) # <<>> THEN regionalOf(w, r) ELSE r.candidates

\* Neighbours in a path differ; one of the sender, the observer and the
\* region is known, or none, or the graph is; what cannot relay needs no place.
Anchors == {a \in [origin : {NoPlace, 1}, observer : {NoPlace, 1}, region : {NoPlace, 1}] : Cardinality({f \in DOMAIN a : a[f] # NoPlace}) <= 1}
HrPaths == {h \in UNION {[1..n -> {prefixOf(k) : k \in HrNodes}] : n \in 1..HrHops} : \A i \in 1..(Len(h) - 1) : h[i] # h[i + 1]}
Links_ == {<<>>, {Min(HrNodes), Max(HrNodes)} :> 1}
resolvePath ==
    \E relays \in SUBSET HrNodes, at \in [HrNodes -> HrPlaces], a \in Anchors, graph \in Links_ :
       /\ Max(HrNodes) \in relays /\ \A k \in HrNodes \ relays : at[k] = NoPlace
       /\ graph # <<>> => a.origin + a.observer + a.region = 0
       /\ \E hops \in HrPaths :
          LET w == [relays |-> relays, at |-> [k \in HrNodes \union {0} |-> IF k = 0 THEN NoPlace ELSE at[k]], graph |-> graph, region |-> a.region, origin |-> a.origin, observer |-> a.observer]
              r == resolve(w, hops)
          IN  Computes("hops", [w |-> w, hops |-> hops],
                       [resolved |-> r.sane.resolved, settled |-> r.settled, pos |-> r.sane.pos, looks |-> [p \in Range(hops) |-> renderHop(w, r.sane.resolved[p])],
                        popover |-> [p \in Range(hops) |-> showConflictPopover(w, r.sane.resolved[p])]])
\* A hop's node relays and has its prefix, and is of the region if one of
\* them is; an ambiguous hop is settled as soon as anything about the path
\* has a place; and the list behind the warning has as many nodes as it says.
HopsAreTheirs ==
    alg = "hops" =>
       \A p \in DOMAIN res.resolved :
          LET r == res.resolved[p]
              all == {n \in arg.w.relays : prefixOf(n) = p}
              inRegion == {n \in all : nodeInRegion(arg.w, n)}
          IN  /\ IF all = {} THEN r.pubkey = 0 ELSE r.pubkey \in all
              /\ inRegion # {} /\ Cardinality(all) > 1 => r.pubkey \in inRegion
              /\ r.ambiguous <=> Len(r.candidates) > 1
              /\ (r.ambiguous /\ (\E c \in Range(r.candidates) : arg.w.at[c] # NoPlace)
                     /\ (arg.w.origin # NoPlace \/ arg.w.observer # NoPlace \/ \E q \in DOMAIN res.settled.pos : res.settled.pos[q] # NoPlace))
                 => arg.w.at[r.pubkey] # NoPlace /\ res.settled.pos[p] = arg.w.at[r.pubkey]
              /\ res.looks[p].badge > 0 => res.looks[p].badge = Len(res.popover[p]) /\ r.pubkey \in Range(res.popover[p])
\* What is believed is near: in a path without a repeated prefix, a hop
\* with a place and placed neighbours is within reach of one of them, and
\* a hop is only called unreliable when it is out of reach of one.
BelievedIsNear ==
    alg = "hops" /\ IsInjective(arg.hops) =>
       \A i \in DOMAIN arg.hops :
          LET near(j) == j \in DOMAIN arg.hops /\ res.pos[arg.hops[j]] # NoPlace
              gap(j, pos) == Gap(pos[arg.hops[i]], pos[arg.hops[j]])
          IN  /\ res.pos[arg.hops[i]] # NoPlace /\ (near(i - 1) \/ near(i + 1)) =>
                    \E j \in {i - 1, i + 1} : near(j) /\ gap(j, res.pos) <= MAX_HOP_DIST
              /\ res.resolved[arg.hops[i]].unreliable =>
                    \E j \in {i - 1, i + 1} : j \in DOMAIN arg.hops /\ res.settled.pos[arg.hops[j]] # NoPlace /\ gap(j, res.settled.pos) > MAX_HOP_DIST

(***************************************************************************)
(* Trust (hop-filter.js): bytes of hops against the server's threshold, 1  *)
(* until the configuration is there; and the switch that hides short hops. *)
(***************************************************************************)
meetsPathTrust(bytes, threshold) == threshold <= 1 \/ bytes >= threshold
pathBelowTrustAny(hops, threshold) == threshold > 1 /\ \E i \in DOMAIN hops : hops[i] < threshold

pathBelowTrust(hops, threshold) == hops # <<>> /\ threshold > 1 /\ \A i \in DOMAIN hops : hops[i] < threshold
filterPathHops(hops, hide) == IF hide THEN SelectSeq(hops, LAMBDA b : b # 1) ELSE hops
isVisibleHop(bytes, hide) == ~hide \/ bytes # 1
\* The path byte's two top bits; 0 when the packet is too short for one.
packetHashSize(bytes, route, pathByte) == IF bytes < (IF route \in {0, 3} THEN 6 ELSE 2) THEN 0 ELSE pathByte \div 64 + 1
trustPath ==
    \E n \in 0..2 : \E hops \in [1..n -> 0..3], threshold \in 1..3, hide \in BOOLEAN, bytes \in {1, 2, 5, 6}, route \in 0..3, top \in 0..3 :
       Computes("trust", [hops |-> hops, threshold |-> threshold, hide |-> hide, bytes |-> bytes, route |-> route, top |-> top],
                [below |-> pathBelowTrust(hops, threshold), trusted |-> {i \in DOMAIN hops : meetsPathTrust(hops[i], threshold)},
                 shown |-> filterPathHops(hops, hide), visible |-> {i \in DOMAIN hops : isVisibleHop(hops[i], hide)}, size |-> packetHashSize(bytes, route, top * 64 + n)])
\* A path is not drawn exactly when none of its hops may be, the two ways
\* to hide short hops hide the same, and a path byte is read only from a
\* packet that has one.
TrustIsPerHop ==
    alg = "trust" =>
       /\ arg.hops # <<>> => (res.below <=> res.trusted = {})
       /\ Len(res.shown) = Cardinality(res.visible) /\ (arg.hide => 1 \notin Range(res.shown))
       /\ res.size \in {0, arg.top + 1} /\ (res.size = 0 <=> arg.bytes <= (IF arg.route \in {0, 3} THEN 5 ELSE 1))

HopResolveNext == resolvePath \/ trustPath

(* A hop is resolved to a node it can be, near its neighbours, with trust of
   its own. *)
HopsCompute ==
    /\ HopsAreTheirs
    /\ BelievedIsNear
    /\ TrustIsPerHop
================================================================================
