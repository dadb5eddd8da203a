---------------------------------- MODULE LivePage ----------------------------------
(***************************************************************************)
(* The life of the live page (public/live.js): init renders the page and   *)
(* then waits twice, for the map's configuration and for the nodes, while  *)
(* the user may leave and come back.  Nothing ties the rest of an init to  *)
(* the page it was started for: it goes on with whatever page, map and     *)
(* socket handler are there when its answer arrives.                       *)
(***************************************************************************)
EXTENDS Integers, FiniteSets, Sequences, SequencesExt

CONSTANTS MaxStays,     \* bound on visits of the page
          MaxTurns      \* bound on what the user does on it

ASSUME LivePageAssumption == MaxStays \in Nat \ {0} /\ MaxTurns \in Nat

VARIABLES lp,           \* the page's variables
          inits,        \* visit -> where its init stands
          nf,           \* the node filter: [text, pend, late, stray, filter, url, drop, asks]
          nd,           \* the node detail panel: [active, open, shown, asks]
          turns

pageVars == <<lp, inits, nf, nd, turns>>
Visits == 1..MaxStays
Texts == {"", "a", "key"}       \* "key" is the key of a node
Sections == {"region", "filter", "audio", "feed", "collapse", "panels", "vcr"}
Details == {"n1", "n2"}         \* nodes whose detail may be asked for

NoFilter == [text |-> "", pend |-> FALSE, late |-> {}, stray |-> FALSE, filter |-> "", url |-> "", drop |-> "", asks |-> {}]
NoDetail == [active |-> "", open |-> FALSE, shown |-> "", asks |-> {}]

PageInit ==
    /\ lp = [page |-> 0, map |-> FALSE, box |-> FALSE, ws |-> 0, subs |-> {}, wired |-> [s \in Sections |-> 0],
             heat |-> FALSE, heatEnabled |-> TRUE, heatBox |-> "on", matrix |-> FALSE,
             full |-> FALSE, fullSaved |-> FALSE, keyFor |-> 0, pins |-> 0, pinFor |-> 0,
             autohide |-> FALSE]
    /\ inits = [v \in Visits |-> "none"]
    /\ nf = NoFilter /\ nd = NoDetail /\ turns = 0

------------------------------------------------------------------------------
(* Switches.  Each operator maps the page's record to the next one. *)

hideHeatMap(p) == [p EXCEPT !.heat = FALSE]
showHeatMap(p) == IF p.map THEN [p EXCEPT !.heat = TRUE] ELSE p
showHeatMapAnyway(p) == [p EXCEPT !.heat = TRUE]

syncHeatToggleBoxOnly(p, on) ==
    [p EXCEPT !.heatBox = IF on THEN "disabled" ELSE IF @ = "disabled" THEN "off" ELSE @]

\* Matrix mode owns the heat map.
syncHeatToggleToMatrix(p, on) ==
    IF on THEN [hideHeatMap(p) EXCEPT !.heatBox = "disabled"]
          ELSE [p EXCEPT !.heatBox = IF @ = "disabled" THEN "off" ELSE @]

\* The stored switches are restored and wired before anything is awaited.
wireLiveControls(p) ==
    syncHeatToggleToMatrix([p EXCEPT !.heatBox = IF p.heatEnabled THEN "on" ELSE "off"], p.matrix)

\* applyMatrixTheme recolours markers and starts the rain: no switch changes.
applyLiveControlEffects(p) == syncHeatToggleToMatrix(p, p.matrix)

------------------------------------------------------------------------------
(* The sections of init after its second wait, each on the page that is there. *)

connectWSBlind(p, v) == [p EXCEPT !.subs = @ \union {v}, !.ws = v]

connectWSOnce(p, v) == IF p.ws # 0 THEN p ELSE [p EXCEPT !.subs = @ \union {v}, !.ws = v]

\* The handler of an earlier visit is dropped first.
connectWS_live(p, v) == [p EXCEPT !.subs = (@ \ {p.ws}) \union {v}, !.ws = v]

\* The controls of a section get one more listener each.
Wire(p, s) == [p EXCEPT !.wired[s] = @ + 1]
initLiveRegionFilter(p) == Wire(p, "region")
wireAudio(p) == Wire(p, "audio")
wireFeedPanel(p) == Wire(p, "feed")
wireLiveCollapseToggles(p) == Wire(p, "collapse")
wireLegendAndDrag(p) == Wire(p, "panels")
wireVcrBar(p) == Wire(p, "vcr")
wireNodeFilter(p) == Wire(p, "filter")
wireButtons(p) ==
    wireVcrBar(wireLegendAndDrag(wireLiveCollapseToggles(wireFeedPanel(wireAudio(
        wireNodeFilter(initLiveRegionFilter(p)))))))
Unwired == [s \in Sections |-> 0]
Wired(p) == \A s \in Sections : p.wired[s] > 0

\* The stored choice is restored; the key handler is bound once per window
\* and keeps the button of the visit that bound it.
wireLiveFullscreenToggle(p, v) ==
    [p EXCEPT !.full = @ \/ p.fullSaved, !.keyFor = IF @ = 0 THEN v ELSE @]

\* setNodeFilter with updateNodeFilterUI: the input shows the filter, but an
\* empty filter leaves it alone.
setNodeFilter(f, t) == [f EXCEPT !.filter = t, !.text = IF t = "" THEN @ ELSE t]

restoreNodeFilterSilently(f) == [f EXCEPT !.filter = IF f.url # "" THEN f.url ELSE @]

\* The filter in the URL, else the stored one.
restoreNodeFilter(f) == setNodeFilter(f, IF f.url # "" THEN f.url ELSE f.filter)

\* One pin button, however many inits get here; its handler uses the newest _navCleanup.
navPin(p, v) == [p EXCEPT !.pins = 1, !.pinFor = v, !.autohide = FALSE]

------------------------------------------------------------------------------
(* init and destroy. *)

\* registerPage.init: the page is rendered, its switches wired; then the
\* configuration is awaited.
PageMount(v) ==
    /\ lp.page = 0 /\ inits[v] = "none" /\ \A u \in Visits : u < v => inits[u] # "none"
    /\ lp' = wireLiveControls([lp EXCEPT !.page = v, !.box = FALSE, !.wired = Unwired])
    /\ inits' = [inits EXCEPT ![v] = "config"]
    /\ \E u \in {"", "a"} : nf' = [NoFilter EXCEPT !.late = nf.late, !.filter = nf.filter, !.url = u]
    /\ nd' = NoDetail
    /\ UNCHANGED turns

AfterConfigOnly(v, ok) ==
    /\ inits[v] = "config" /\ ok \in BOOLEAN
    /\ IF ok /\ lp.page # 0 /\ ~lp.box
         THEN /\ lp' = [lp EXCEPT !.map = TRUE, !.box = TRUE]
              /\ inits' = [inits EXCEPT ![v] = "nodes"]
         ELSE /\ inits' = [inits EXCEPT ![v] = "failed"] /\ UNCHANGED lp
    /\ UNCHANGED <<nf, nd, turns>>

\* The configuration is here or has failed, which is the same.  L.map throws
\* when there is no page, or when the page's box holds a map already.
AfterConfig(v, ok) ==
    /\ inits[v] = "config" /\ ok \in BOOLEAN
    /\ IF lp.page # 0 /\ ~lp.box
         THEN /\ lp' = [lp EXCEPT !.map = TRUE, !.box = TRUE]
              /\ inits' = [inits EXCEPT ![v] = "nodes"]
         ELSE /\ inits' = [inits EXCEPT ![v] = "failed"] /\ UNCHANGED lp
    /\ UNCHANGED <<nf, nd, turns>>

\* loadNodes has returned, loaded or not: heat map, socket and counter come
\* first, then map.on throws if the map is gone; then all the rest is wired.
AfterNodes(v) ==
    /\ inits[v] = "nodes"
    /\ LET heated == IF lp.heatEnabled THEN showHeatMap(lp) ELSE lp
           joined == connectWS_live(heated, v)
       IN IF ~lp.map
            THEN lp' = joined /\ inits' = [inits EXCEPT ![v] = "failed"] /\ UNCHANGED nf
            ELSE /\ lp' = navPin(wireButtons(wireLiveFullscreenToggle(
                                   applyLiveControlEffects(joined), v)), v)
                 /\ inits' = [inits EXCEPT ![v] = "done"]
                 /\ nf' = restoreNodeFilter(nf)
    /\ UNCHANGED <<nd, turns>>

PageDestroyKeepsFull ==
    /\ lp.page # 0
    /\ lp' = [lp EXCEPT !.page = 0, !.map = FALSE, !.box = FALSE, !.subs = @ \ {lp.ws}, !.ws = 0,
                        !.wired = Unwired, !.heat = FALSE, !.pins = 0, !.autohide = FALSE]
    /\ nd' = NoDetail
    /\ nf' = [NoFilter EXCEPT !.filter = nf.filter,
                            !.late = nf.late \union IF nf.pend THEN {nf.text} ELSE {}]
    /\ UNCHANGED <<inits, turns>>

\* destroy: an init that waits is not told.
PageDestroy ==
    /\ lp.page # 0
    /\ lp' = [lp EXCEPT !.page = 0, !.map = FALSE, !.box = FALSE, !.subs = @ \ {lp.ws}, !.ws = 0,
                        !.wired = Unwired, !.heat = FALSE, !.full = FALSE, !.pins = 0, !.autohide = FALSE]
    /\ nd' = NoDetail
    /\ nf' = [NoFilter EXCEPT !.filter = nf.filter,
                            !.late = nf.late \union IF nf.pend THEN {nf.text} ELSE {}]
    /\ UNCHANGED <<inits, turns>>

------------------------------------------------------------------------------
(* The user. *)

Turn == lp.page # 0 /\ turns < MaxTurns /\ turns' = turns + 1 /\ UNCHANGED <<inits, nf, nd>>

SwitchMatrix ==
    /\ Turn
    /\ lp' = syncHeatToggleToMatrix([lp EXCEPT !.matrix = ~@], ~lp.matrix)

SwitchHeat ==
    /\ Turn /\ lp.heatBox # "disabled"
    /\ LET on == lp.heatBox = "off"
           p == [lp EXCEPT !.heatEnabled = on, !.heatBox = IF on THEN "on" ELSE "off"]
       IN lp' = IF on THEN showHeatMap(p) ELSE hideHeatMap(p)

\* The F key: only on the live page, and from the first visit that got so far.
setFullscreen ==
    /\ Turn /\ lp.keyFor # 0
    /\ lp' = [lp EXCEPT !.full = ~@, !.fullSaved = ~lp.full]

\* The navigation hides four seconds after the last move, unless pinned.
showNav ==
    /\ Turn /\ lp.pins = 1
    /\ lp' = [lp EXCEPT !.autohide = ~@]

------------------------------------------------------------------------------
(* The node filter with its suggestions (init, from line 1768). *)

Filter == lp.page # 0 /\ Wired(lp) /\ UNCHANGED <<lp, inits, nd, turns>>
FilterTurn == lp.page # 0 /\ Wired(lp) /\ turns < MaxTurns /\ turns' = turns + 1
              /\ UNCHANGED <<lp, inits, nd>>

NodeFilterType ==
    /\ FilterTurn 
    /\ \E t \in Texts \ {nf.text} : nf' = [nf EXCEPT !.text = t, !.pend = TRUE]

\* applyFilterFromInput: the filter and the URL follow the text.
applyFilterFromInput(f, t) == [setNodeFilter(f, t) EXCEPT !.url = t]

\* 200 ms later the text of that moment is applied and looked up; after a
\* page has gone, on the page and in the URL that are there then.
debouncedInput ==
    /\ Filter /\ nf.pend
    /\ LET f == [applyFilterFromInput(nf, nf.text) EXCEPT !.pend = FALSE]
       IN nf' = IF f.text = "" THEN [f EXCEPT !.drop = ""] ELSE [f EXCEPT !.asks = @ \union {f.text}]
debouncedLate(t) ==
    /\ t \in nf.late /\ UNCHANGED <<lp, inits, nd, turns>>
    /\ LET f == [nf EXCEPT !.late = @ \ {t}, !.stray = lp.page # 0]
       IN nf' = IF lp.page = 0 THEN [f EXCEPT !.filter = t] ELSE applyFilterFromInput(f, t)

\* No answer knows whether it is still wanted.
fetchSuggestions(q) ==
    /\ Filter /\ q \in nf.asks
    /\ \E some \in BOOLEAN : nf' = [nf EXCEPT !.asks = @ \ {q}, !.drop = IF some THEN q ELSE ""]

\* The key of the node filters, and setNodeFilter writes it over the name.
selectSuggestion ==
    /\ FilterTurn /\ nf.drop # ""
    /\ nf' = [applyFilterFromInput(nf, "key") EXCEPT !.drop = ""]

\* Enter without a suggestion, Escape and blur, and the clear button.
NodeFilterKeys ==
    /\ FilterTurn
    /\ \/ nf' = [applyFilterFromInput(nf, nf.text) EXCEPT !.drop = ""]
       \/ nf' = [nf EXCEPT !.drop = ""]
       \/ nf' = [nf EXCEPT !.text = "", !.filter = "", !.url = ""]
NodeFilterKeysNoUrl ==
    /\ FilterTurn
    /\ \/ nf' = [applyFilterFromInput(nf, nf.text) EXCEPT !.drop = ""]
       \/ nf' = [nf EXCEPT !.text = "", !.filter = ""]

------------------------------------------------------------------------------
(* The node detail panel. *)

Detail == lp.page # 0 /\ UNCHANGED <<lp, inits, nf>>

\* A click on a marker, or a new theme for the open panel.
showNodeDetail(n) ==
    /\ Detail /\ lp.map /\ turns < MaxTurns /\ turns' = turns + 1
    /\ nd' = [nd EXCEPT !.active = n, !.open = TRUE, !.shown = "loading", !.asks = @ \union {n}]

\* The answer is shown whatever was asked for since.
NodeDetailAnswer(n) ==
    /\ Detail /\ n \in nd.asks /\ UNCHANGED turns
    /\ \E ok \in BOOLEAN : nd' = [nd EXCEPT !.asks = @ \ {n}, !.shown = IF ok THEN n ELSE "error"]

NodeDetailClose ==
    /\ Detail /\ nd.open /\ UNCHANGED turns
    /\ nd' = [nd EXCEPT !.active = "", !.open = FALSE]

------------------------------------------------------------------------------
PageNext ==
    \/ \E v \in Visits : PageMount(v) \/ AfterNodes(v) \/ \E ok \in BOOLEAN : AfterConfig(v, ok)
    \/ PageDestroy \/ SwitchMatrix \/ SwitchHeat \/ setFullscreen \/ showNav
    \/ NodeFilterType \/ debouncedInput \/ (\E q \in Texts : fetchSuggestions(q) \/ debouncedLate(q))
    \/ selectSuggestion \/ NodeFilterKeys
    \/ (\E n \in Details : showNodeDetail(n) \/ NodeDetailAnswer(n)) \/ NodeDetailClose

(* A request is answered or fails, and its continuation runs. *)
PageFairness ==
    /\ WF_pageVars(\E v \in Visits, ok \in BOOLEAN : AfterConfig(v, ok))
    /\ WF_pageVars(\E v \in Visits : AfterNodes(v))
PageSpec == PageInit /\ [][PageNext]_pageVars /\ PageFairness

------------------------------------------------------------------------------
(* The page's variables have their types. *)
PageTypeOK ==
    /\ lp.page \in 0..MaxStays /\ lp.ws \in 0..MaxStays /\ lp.subs \subseteq Visits
    /\ lp.heatBox \in {"on", "off", "disabled"} /\ lp.pins \in 0..1
    /\ inits \in [Visits -> {"none", "config", "nodes", "done", "failed"}]
    /\ nf.text \in Texts /\ nf.asks \subseteq Texts /\ nd.asks \subseteq Details

(* "Dropping the old registration first is idempotent": one handler listens *)
(* at most, however the inits of several visits overlap, and it is the one  *)
(* that destroy will remove (connectWS).                                    *)
OneSubscription == lp.subs = IF lp.ws = 0 THEN {} ELSE {lp.ws}

(* A page whose controls work also listens, with a handler registered since *)
(* it was rendered and not with one that an earlier visit left behind.      *)
ReadyPageListens ==
    Wired(lp) => lp.ws # 0 /\ inits[lp.ws] = "done"

(* "Matrix mode owns the heat map: while it is on, heat is off": whatever   *)
(* init restores late and whatever was switched while it waited.            *)
MatrixOwnsHeat == lp.matrix => ~lp.heat

(* The class that hides the navigation never outlives the page, nor does    *)
(* the heat layer or the pin button ("leaking it strands the user").        *)
NothingOutlivesPage == lp.page = 0 => ~lp.full /\ ~lp.heat /\ lp.pins = 0

(* Once nothing is pending, the filter is what the input shows, and a URL   *)
(* that names a node names the filter, whether typed, picked, cleared,      *)
(* restored or linked to; unless a timer of an earlier visit came in.       *)
FilterMatchesInput ==
    Wired(lp) /\ ~nf.stray =>
        /\ nf.url # "" => nf.url = nf.filter
        /\ ~nf.pend => nf.filter = nf.text

(* A page that stays is wired in the end: the leftovers of earlier visits   *)
(* may take its map, but then they finish its work.                         *)
PageGetsReady == (lp.page # 0) ~> (lp.page = 0 \/ Wired(lp))

(* Controls are wired once: a click acts once.  Not so in this code.        *)
WiredOnce == \A s \in Sections : lp.wired[s] <= 1

------------------------------------------------------------------------------
(***************************************************************************)
(* The node markers of the live map (public/live.js): loaded from the      *)
(* server as they are now or as they were at a replayed time, added by     *)
(* adverts, stood in for by ghosts that leave after 30 s, dimmed or pruned *)
(* with age, and taken off the layer while out of view.                    *)
(***************************************************************************)

CONSTANTS NodeKeys,     \* public keys
          Infra,        \* repeaters and rooms among them
          Areas,        \* area -> the keys the server returns for it
          PastKeys,     \* the keys the server returns for a past time
          MaxMarkers,   \* bound on markers created
          MaxLoads      \* bound on loads

ASSUME LiveNodesAssumption ==
    /\ IsFiniteSet(NodeKeys) /\ Infra \subseteq NodeKeys /\ PastKeys \subseteq NodeKeys
    /\ \A a \in DOMAIN Areas : Areas[a] \subseteq NodeKeys
    /\ MaxMarkers \in Nat /\ MaxLoads \in Nat

VARIABLES mk,           \* nodeMarkers: key -> marker, 0 if none
          marker,       \* every marker made: [key, ghost, ver]
          layer,        \* the markers in nodesLayer
          data,         \* nodeData: key -> [from, ver], or None
          loads,        \* requests under way: [id, area] or [id, past]
          ghostTimers,  \* ghosts whose timer is armed
          untracked,    \* history: real markers that a ghost's timer forgot
          nodesUp, nloads

nodeVars == <<mk, marker, layer, data, loads, ghostTimers, untracked, nodesUp, nloads>>

None == [from |-> "none", ver |-> 0]
Now == 2                \* position, role and name as they are now
Then == 1               \* as they were at the replayed time
MarkerIds == 1..MaxMarkers

NodesInit ==
    /\ mk = [k \in NodeKeys |-> 0] /\ marker = << >> /\ layer = {}
    /\ data = [k \in NodeKeys |-> None] /\ loads = {} /\ ghostTimers = {}
    /\ untracked = {} /\ nodesUp = TRUE /\ nloads = 0

\* The tables as one record, for the operators that change several.
tables == [mk |-> mk, marker |-> marker, layer |-> layer, data |-> data]
TablesBecome(t) == mk' = t.mk /\ marker' = t.marker /\ layer' = t.layer /\ data' = t.data

\* addNodeMarker: a key that has a marker, ghost or not, keeps it.  Out of
\* view, the new marker is not put on the layer.
addNodeMarker(t, k, ver, seen) ==
    IF t.mk[k] # 0 THEN t
    ELSE LET i == Len(t.marker) + 1
         IN [t EXCEPT !.marker = Append(@, [key |-> k, ghost |-> FALSE, ver |-> ver]),
                      !.mk[k] = i, !.layer = IF seen THEN @ \union {i} ELSE @]
addNodeMarkerAgain(t, k, ver, seen) ==
    LET i == Len(t.marker) + 1
    IN [t EXCEPT !.marker = Append(@, [key |-> k, ghost |-> FALSE, ver |-> ver]),
                 !.mk[k] = i, !.layer = IF seen THEN @ \union {i} ELSE @]

\* Taking a key's marker off the layer and out of the table.
DropMarkers(t, ks) ==
    [t EXCEPT !.layer = @ \ {t.mk[k] : k \in ks}, !.mk = [k \in NodeKeys |-> IF k \in ks THEN 0 ELSE @[k]]]
DropFromTable(t, ks) ==
    [t EXCEPT !.mk = [k \in NodeKeys |-> IF k \in ks THEN 0 ELSE @[k]]]
DropDataOnly(t, ks) == [t EXCEPT !.data = [k \in NodeKeys |-> IF k \in ks THEN None ELSE @[k]]]
DropNodes(t, ks) ==
    [DropMarkers(t, ks) EXCEPT !.data = [k \in NodeKeys |-> IF k \in ks THEN None ELSE @[k]]]

------------------------------------------------------------------------------
(* loadNodes. *)

AskNodes(r) == nodesUp /\ nloads < MaxLoads /\ nloads' = nloads + 1 /\ loads' = loads \union {[id |-> nloads, what |-> r]}

\* A full load empties the tables before it asks.
loadNodes(a) ==
    /\ AskNodes(a)
    /\ TablesBecome([tables EXCEPT !.layer = {}, !.mk = [k \in NodeKeys |-> 0], !.data = [k \in NodeKeys |-> None]])
    /\ UNCHANGED <<ghostTimers, untracked, nodesUp>>
loadNodesBefore ==
    /\ AskNodes("past") /\ UNCHANGED <<mk, marker, layer, data, ghostTimers, untracked, nodesUp>>

ReconcileTableOnly(t, ks, ver) ==
    LET gone == {k \in NodeKeys : t.mk[k] # 0 /\ k \notin ks}
        moved == {k \in ks : t.mk[k] # 0 /\ t.data[k] # None /\ t.data[k].ver # ver}
    IN DropFromTable(DropNodes(t, gone), moved)

\* A past answer takes away what did not exist, and what looked different.
Reconcile(t, ks, ver) ==
    LET gone == {k \in NodeKeys : t.mk[k] # 0 /\ k \notin ks}
        moved == {k \in ks : t.mk[k] # 0 /\ t.data[k] # None /\ t.data[k].ver # ver}
    IN DropMarkers(DropNodes(t, gone), moved)

\* Every key of the answer gets its data, and a marker if it has none; the
\* markers are made in the order of the answer.
ApplyNodes(t, ks, ver, seen) ==
    LET fresh == SetToSeq({k \in ks : t.mk[k] = 0})
        id(k) == Len(t.marker) + CHOOSE i \in DOMAIN fresh : fresh[i] = k
    IN [t EXCEPT !.marker = @ \o [i \in DOMAIN fresh |-> [key |-> fresh[i], ghost |-> FALSE, ver |-> ver]],
                 !.mk = [k \in NodeKeys |-> IF k \in Range(fresh) THEN id(k) ELSE @[k]],
                 !.layer = @ \union {id(k) : k \in Range(fresh) \intersect seen},
                 !.data = [k \in NodeKeys |-> IF k \in ks THEN [from |-> "api", ver |-> ver] ELSE @[k]]]

\* The answer, whatever was asked for since.
NodesAnswer(r) ==
    /\ r \in loads /\ loads' = loads \ {r}
    /\ LET ks == IF r.what = "past" THEN PastKeys ELSE Areas[r.what]
           ver == IF r.what = "past" THEN Then ELSE Now
           t == IF r.what = "past" THEN Reconcile(tables, ks, ver) ELSE tables
       IN /\ Len(marker) + Cardinality(ks) <= MaxMarkers
          /\ \/ \E seen \in IF nodesUp THEN {{}, NodeKeys} ELSE {{}} : TablesBecome(ApplyNodes(t, ks, ver, seen))
             \/ UNCHANGED <<mk, marker, layer, data>>
    /\ UNCHANGED <<ghostTimers, untracked, nodesUp, nloads>>

------------------------------------------------------------------------------
(* Packets. *)

\* An advert adds the node unless some marker is there, a ghost's included.
Advert(k) ==
    /\ nodesUp /\ Len(marker) < MaxMarkers
    /\ mk[k] = 0
    /\ TablesBecome(addNodeMarker([tables EXCEPT !.data[k] = [from |-> "ws", ver |-> Now]], k, Now, TRUE))
    /\ UNCHANGED <<loads, ghostTimers, untracked, nodesUp, nloads>>

pulseGhostUntimed(k) ==
    /\ nodesUp /\ mk[k] = 0 /\ Len(marker) < MaxMarkers
    /\ LET i == Len(marker) + 1 IN
       /\ marker' = Append(marker, [key |-> k, ghost |-> TRUE, ver |-> 0])
       /\ mk' = [mk EXCEPT ![k] = i] /\ layer' = layer \union {i}
    /\ UNCHANGED <<data, loads, ghostTimers, untracked, nodesUp, nloads>>

\* pulseNode at an unknown key: a ghost stands in, with a timer.
pulseGhost(k) ==
    /\ nodesUp /\ mk[k] = 0 /\ Len(marker) < MaxMarkers
    /\ LET i == Len(marker) + 1 IN
       /\ marker' = Append(marker, [key |-> k, ghost |-> TRUE, ver |-> 0])
       /\ mk' = [mk EXCEPT ![k] = i] /\ layer' = layer \union {i}
       /\ ghostTimers' = ghostTimers \union {i}
    /\ UNCHANGED <<data, loads, untracked, nodesUp, nloads>>

\* 30 s later the ghost leaves the layer, and whatever marker its key has by
\* then leaves the table.  Without a layer the handler stops at once.
GhostTimer(i) ==
    /\ i \in ghostTimers /\ ghostTimers' = ghostTimers \ {i}
    /\ IF ~nodesUp THEN UNCHANGED <<mk, layer, untracked>>
       ELSE LET k == marker[i].key IN
            /\ layer' = layer \ {i} /\ mk' = [mk EXCEPT ![k] = 0]
            /\ untracked' = IF mk[k] \notin {0, i} THEN untracked \union {mk[k]} ELSE untracked
    /\ UNCHANGED <<marker, data, loads, nodesUp, nloads>>

------------------------------------------------------------------------------
(* Age and view. *)

pruneStaleAll(aged) ==
    LET out == {k \in aged : mk[k] # 0 /\ data[k] # None}
    IN /\ nodesUp /\ TablesBecome(DropNodes(tables, out))
       /\ UNCHANGED <<loads, ghostTimers, untracked, nodesUp, nloads>>

\* pruneStaleNodes, aged being the keys found stale: nodes the server knows
\* and infrastructure are only dimmed, others go.
pruneStaleNodes(aged) ==
    LET out == {k \in aged : mk[k] # 0 /\ data[k].from = "ws" /\ k \notin Infra}
    IN /\ nodesUp /\ TablesBecome(DropNodes(tables, out))
       /\ UNCHANGED <<loads, ghostTimers, untracked, nodesUp, nloads>>

\* cullMarkers after a move of the map: a marker in the table is on the layer
\* exactly if it is in view.
cullMarkers ==
    /\ nodesUp
    /\ \E seen \in SUBSET NodeKeys :
         LET inside == {mk[k] : k \in {j \in seen : mk[j] # 0}}
             outside == {mk[k] : k \in {j \in NodeKeys \ seen : mk[j] # 0}}
         IN layer' = (layer \union inside) \ outside
    /\ UNCHANGED <<mk, marker, data, loads, ghostTimers, untracked, nodesUp, nloads>>

\* destroy; a load or a ghost's timer under way is not told.
NodesDestroy ==
    /\ nodesUp /\ nodesUp' = FALSE
    /\ TablesBecome([tables EXCEPT !.layer = {}, !.mk = [k \in NodeKeys |-> 0], !.data = [k \in NodeKeys |-> None]])
    /\ UNCHANGED <<loads, ghostTimers, untracked, nloads>>
NodesMount ==
    /\ ~nodesUp /\ nodesUp' = TRUE
    /\ UNCHANGED <<mk, marker, layer, data, loads, ghostTimers, untracked, nloads>>

NodesNext ==
    \/ (\E a \in DOMAIN Areas : loadNodes(a)) \/ loadNodesBefore \/ (\E r \in loads : NodesAnswer(r))
    \/ (\E k \in NodeKeys : Advert(k) \/ pulseGhost(k))
    \/ (\E i \in ghostTimers : GhostTimer(i))
    \/ (\E aged \in SUBSET NodeKeys : pruneStaleNodes(aged)) \/ cullMarkers \/ NodesDestroy \/ NodesMount

NodesSpec == NodesInit /\ [][NodesNext]_nodeVars

------------------------------------------------------------------------------
(* Tables, layer and requests have their types. *)
NodesTypeOK ==
    /\ mk \in [NodeKeys -> 0..Len(marker)] /\ layer \subseteq DOMAIN marker
    /\ ghostTimers \subseteq DOMAIN marker /\ untracked \subseteq DOMAIN marker
    /\ \A k \in NodeKeys : data[k].from \in {"none", "api", "ws"}

(* Nothing stays on the map that no table knows: of all the ways a marker   *)
(* leaves the table, only a ghost's timer that finds another marker in its  *)
(* place leaves it on the layer (loadNodes, pruneStaleNodes, cullMarkers).  *)
MarkersTracked == \A i \in layer : mk[marker[i].key] = i \/ i \in untracked

(* A marker without data is a ghost: what rescales, prunes and lists nodes  *)
(* finds the data of every other, after any mix of loads, adverts, scrubs   *)
(* and pruning.                                                             *)
RealHasData == \A k \in NodeKeys : mk[k] # 0 /\ data[k] = None => marker[mk[k]].ghost

(* "infra nodes are ALWAYS dimmed, never deleted", nor are nodes the server *)
(* knows: with nothing else going on, age alone takes no such marker away.  *)
InfraOnlyDimmed ==
    [][\A k \in NodeKeys :
         mk[k] # 0 /\ mk'[k] = 0 /\ nodesUp' /\ loads' = loads /\ nloads' = nloads /\ ghostTimers' = ghostTimers
            => k \notin Infra /\ data[k].from = "ws"]_nodeVars

(* A ghost on the map has its timer, however often the tables were emptied  *)
(* and filled and the page left and entered since it was drawn.             *)
GhostsAreTimed == \A i \in layer : marker[i].ghost => i \in ghostTimers

(* "switching areas removes nodes that no longer belong to the selected area" *)
(* once the answers are in.  Not so when two loads overlap.                   *)
AreaIsShown ==
    loads = {} /\ nodesUp => \E a \in DOMAIN Areas : \A k \in NodeKeys : data[k].from = "api" => k \in Areas[a] \union PastKeys

(* What the live page installs is there once and goes with it, and its
   markers are those of the nodes it knows. *)
PageClean ==
    /\ OneSubscription
    /\ ReadyPageListens
    /\ MatrixOwnsHeat
    /\ NothingOutlivesPage
    /\ FilterMatchesInput
    /\ MarkersTracked
    /\ RealHasData
    /\ GhostsAreTimed
==============================================================================
