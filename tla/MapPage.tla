-------------------------------- MODULE MapPage --------------------------------
(***************************************************************************)
(* The map page (public/map.js): its lists and markers, reloaded for every *)
(* advert and every change of the time window without a guard against      *)
(* older answers; the neighbours of a reference node; the overlay of       *)
(* important links; the tiles of the dark theme.                           *)
(***************************************************************************)
EXTENDS Integers, FiniteSets

CONSTANTS Windows,      \* values of the "last heard" filter
          MaxMap        \* bound on what the user and the server do

ASSUME MapPageAssumption == MaxMap \in Nat /\ Windows # {}

VARIABLES mpOn,         \* "off", "init" (waits for the configuration) or "on"
          mpWindow,     \* the chosen window
          mpAsks,       \* loads on their way: [id, win, at], at "nodes" or "observers"
          mpNodes,      \* the window the list of nodes is of
          mpDrawn,      \* the window of the nodes the markers were drawn from
          mpFailed,     \* history: a load failed
          mpHeatBox, mpHeat, \* the heat map's box; the window its layer is of
          mpPending,    \* a route left by the path inspector, 0 for none
          mpRoutes,     \* routes drawn so far
          mpHandlers,   \* handlers of the socket
          nMap

mpVars == <<mpOn, mpWindow, mpAsks, mpNodes, mpDrawn, mpFailed, mpHeatBox, mpHeat, mpPending, mpRoutes, mpHandlers, nMap>>
NoWindow == "none"

MapInit ==
    /\ mpOn = "off" /\ mpWindow \in Windows /\ mpAsks = {} /\ mpNodes = NoWindow /\ mpDrawn = NoWindow /\ mpFailed = FALSE
    /\ mpHeatBox \in BOOLEAN /\ mpHeat = NoWindow /\ mpPending = 0 /\ mpRoutes = <<0, 0>> /\ mpHandlers = 0 /\ nMap = 0
MapAct == nMap < MaxMap /\ nMap' = nMap + 1

NewLoad(w) == mpAsks \union {[id |-> nMap, win |-> w, at |-> "nodes"]}

\* init waits for /api/config/map, makes the map, its layers and handlers,
\* and loads.  A page that was left meanwhile has no container: it throws.
initMap ==
    /\ MapAct /\ mpOn = "off" /\ mpOn' = "init"
    /\ UNCHANGED <<mpWindow, mpAsks, mpNodes, mpDrawn, mpFailed, mpHeatBox, mpHeat, mpPending, mpRoutes, mpHandlers>>
mapConfigArrives ==
    /\ mpOn = "init" /\ mpOn' = "on" /\ mpHandlers' = mpHandlers + 1 /\ mpAsks' = NewLoad(mpWindow)
    /\ UNCHANGED <<mpWindow, mpNodes, mpDrawn, mpFailed, mpHeatBox, mpHeat, mpPending, mpRoutes, nMap>>
destroyOnly ==
    /\ MapAct /\ mpOn # "off" /\ mpOn' = "off" /\ mpDrawn' = NoWindow /\ mpHeat' = NoWindow
    /\ UNCHANGED <<mpWindow, mpAsks, mpNodes, mpFailed, mpHeatBox, mpPending, mpRoutes, mpHandlers>>
destroyMap ==
    /\ MapAct /\ mpOn # "off" /\ mpOn' = "off" /\ mpHandlers' = (IF mpOn = "on" THEN mpHandlers - 1 ELSE mpHandlers)
    /\ mpDrawn' = NoWindow /\ mpHeat' = NoWindow
    /\ UNCHANGED <<mpWindow, mpAsks, mpNodes, mpFailed, mpHeatBox, mpPending, mpRoutes>>

\* Loads: an advert, the window, the area filter.
advertSeen ==
    /\ MapAct /\ mpHandlers > 0 /\ mpAsks' = NewLoad(mpWindow)
    /\ UNCHANGED <<mpOn, mpWindow, mpNodes, mpDrawn, mpFailed, mpHeatBox, mpHeat, mpPending, mpRoutes, mpHandlers>>
lastHeardChange(w) ==
    /\ MapAct /\ mpOn = "on" /\ w # mpWindow /\ mpWindow' = w /\ mpAsks' = NewLoad(w)
    /\ UNCHANGED <<mpOn, mpNodes, mpDrawn, mpFailed, mpHeatBox, mpHeat, mpPending, mpRoutes, mpHandlers>>
\* All pages of the nodes, then the observers.
nodesLoaded(a) ==
    /\ a \in mpAsks /\ a.at = "nodes" /\ mpNodes' = a.win
    /\ mpAsks' = (mpAsks \ {a}) \union {[a EXCEPT !.at = "observers"]}
    /\ UNCHANGED <<mpOn, mpWindow, mpDrawn, mpFailed, mpHeatBox, mpHeat, mpPending, mpRoutes, mpHandlers, nMap>>

renderOwn == mpDrawn' = mpDrawn
\* renderMarkers draws the list as it is now, not the one of this load.
renderMarkers == mpDrawn' = mpNodes
toggleHeatmap(on, drawn) == mpHeat' = (IF on THEN drawn ELSE NoWindow)
\* The route that was left is taken and drawn once.
pendingKept == mpRoutes' = [mpRoutes EXCEPT ![mpPending] = @ + 1] /\ UNCHANGED mpPending
takePending == mpRoutes' = [mpRoutes EXCEPT ![mpPending] = @ + 1] /\ mpPending' = 0
drawPending == IF mpPending = 0 THEN UNCHANGED <<mpPending, mpRoutes>> ELSE takePending
\* Without a map the drawing throws, and nothing after it is done.
observersLoaded(a) ==
    /\ a \in mpAsks /\ a.at = "observers" /\ mpAsks' = mpAsks \ {a}
    /\ IF mpOn = "on" THEN renderMarkers /\ toggleHeatmap(mpHeatBox, mpNodes) /\ drawPending
       ELSE UNCHANGED <<mpDrawn, mpHeat, mpPending, mpRoutes>>
    /\ UNCHANGED <<mpOn, mpWindow, mpNodes, mpFailed, mpHeatBox, mpHandlers, nMap>>
loadFails(a) ==
    /\ a \in mpAsks /\ mpAsks' = mpAsks \ {a} /\ mpFailed' = TRUE
    /\ UNCHANGED <<mpOn, mpWindow, mpNodes, mpDrawn, mpHeatBox, mpHeat, mpPending, mpRoutes, mpHandlers, nMap>>

heatChange ==
    /\ MapAct /\ mpOn = "on" /\ mpHeatBox' = ~mpHeatBox /\ toggleHeatmap(~mpHeatBox, mpNodes)
    /\ UNCHANGED <<mpOn, mpWindow, mpAsks, mpNodes, mpDrawn, mpFailed, mpPending, mpRoutes, mpHandlers>>
\* A filter or the theme: the markers are drawn again from the list.
filterChange ==
    /\ MapAct /\ mpOn = "on" /\ renderMarkers
    /\ UNCHANGED <<mpOn, mpWindow, mpAsks, mpNodes, mpFailed, mpHeatBox, mpHeat, mpPending, mpRoutes, mpHandlers>>
\* The path inspector leaves a route and goes to the map (or stays on it).
inspectorShows(r) ==
    /\ MapAct /\ mpOn = "off" /\ r \in {1, 2} /\ mpRoutes[r] = 0 /\ mpPending' = r
    /\ UNCHANGED <<mpOn, mpWindow, mpAsks, mpNodes, mpDrawn, mpFailed, mpHeatBox, mpHeat, mpRoutes, mpHandlers>>

MapNext ==
    \/ \E a \in mpAsks : nodesLoaded(a) \/ observersLoaded(a) \/ loadFails(a)
    \/ \E w \in Windows : lastHeardChange(w)
    \/ \E r \in {1, 2} : inspectorShows(r)
    \/ initMap \/ mapConfigArrives \/ destroyMap \/ advertSeen \/ heatChange \/ filterChange

\* Once nothing is on its way, the markers and the heat map show the list
\* that is loaded, in whatever order the loads' two halves came in; except
\* a list whose observers could not be had.
Arrived == mpAsks = {} /\ mpOn = "on" /\ ~mpFailed
DrawnIsLoaded == Arrived => mpDrawn = mpNodes /\ mpHeat \in {NoWindow, mpNodes}
\* The route left for the map is drawn once, however many loads follow.
PendingDrawnOnce == \A r \in {1, 2} : mpRoutes[r] <= 1
\* The page listens once while it is shown and not after.
MapListensOnce == mpHandlers = (IF mpOn = "on" THEN 1 ELSE 0)

-----------------------------------------------------------------------------
\* Important links: the edges are cached, the layer is drawn again by the
\* rank axis at once and by the slider 80 ms later, by a load and the theme.
VARIABLES trBox, trAxis, trAsks, trEdges, trTimer,
          trLayers,     \* layers of links on the map
          trDrawnBy,    \* the axis and number the last drawing used
          trN, nTop

trVars == <<trBox, trAxis, trAsks, trEdges, trTimer, trLayers, trDrawnBy, trN, nTop>>
TopInit ==
    /\ trBox = FALSE /\ trAxis = "usefulness" /\ trAsks = 0 /\ trEdges = FALSE /\ trTimer = FALSE /\ trLayers = 0
    /\ trDrawnBy = <<"none", 0>> /\ trN = 50 /\ nTop = 0
TopAct == nTop < MaxMap /\ nTop' = nTop + 1
clearTopRoutes == 0
renderOnTop(axis, n) ==
    IF trEdges' THEN trLayers' = trLayers + 1 /\ trDrawnBy' = <<axis, n>> ELSE UNCHANGED <<trLayers, trDrawnBy>>

renderTopRoutes(axis, n) ==
    IF trEdges' THEN trLayers' = clearTopRoutes + 1 /\ trDrawnBy' = <<axis, n>> ELSE UNCHANGED <<trLayers, trDrawnBy>>
topBoxChange ==
    /\ TopAct /\ trBox' = ~trBox
    /\ IF trBox THEN trLayers' = clearTopRoutes /\ UNCHANGED trAsks ELSE trAsks' = trAsks + 1 /\ UNCHANGED trLayers
    /\ UNCHANGED <<trAxis, trEdges, trTimer, trDrawnBy, trN>>
rankByForgets(x) ==
    /\ TopAct /\ x # trAxis /\ trAxis' = x /\ UNCHANGED <<trBox, trAsks, trEdges, trTimer, trLayers, trDrawnBy, trN>>
rankByChange(x) ==
    /\ TopAct /\ x # trAxis /\ trAxis' = x /\ UNCHANGED trEdges
    /\ IF trBox THEN renderTopRoutes(x, trN) ELSE UNCHANGED <<trLayers, trDrawnBy>>
    /\ UNCHANGED <<trBox, trAsks, trTimer, trN>>
sliderInput(n) ==
    /\ TopAct /\ n # trN /\ trN' = n /\ trTimer' = (trTimer \/ trBox)
    /\ UNCHANGED <<trBox, trAxis, trAsks, trEdges, trLayers, trDrawnBy>>
sliderTimer ==
    /\ trTimer /\ trTimer' = FALSE /\ UNCHANGED trEdges /\ renderTopRoutes(trAxis, trN)
    /\ UNCHANGED <<trBox, trAxis, trAsks, trN, nTop>>
loadTopRoutes(ok) ==
    /\ trAsks > 0 /\ trAsks' = trAsks - 1
    /\ IF ok THEN trEdges' = TRUE /\ renderTopRoutes(trAxis, trN) /\ UNCHANGED trBox
       ELSE trBox' = FALSE /\ UNCHANGED <<trEdges, trLayers, trDrawnBy>>
    /\ UNCHANGED <<trAxis, trTimer, trN, nTop>>
\* A full load of the nodes asks again while the box is on.
topReload ==
    /\ TopAct /\ trEdges /\ trBox /\ trAsks' = trAsks + 1
    /\ UNCHANGED <<trBox, trAxis, trEdges, trTimer, trLayers, trDrawnBy, trN>>
TopNext ==
    \/ \E x \in {"usefulness", "affinity"} : rankByChange(x)
    \/ \E n \in {10, 50} : sliderInput(n)
    \/ \E ok \in BOOLEAN : loadTopRoutes(ok)
    \/ topBoxChange \/ sliderTimer \/ topReload

\* Whatever asked for a drawing, one layer of links lies on the map.
OneTopLayer == trLayers <= 1
\* With the box on and nothing pending, the links are those of the controls.
TopFollowsControls == (trBox /\ trLayers > 0 /\ ~trTimer /\ trAsks = 0) => trDrawnBy = <<trAxis, trN>>

-----------------------------------------------------------------------------
\* Tiles: one layer, and a second one of labels for a dark provider that
\* has a reference layer.
VARIABLES tlDark, tlDarkProv, tlLightProv, tlShown, tlRef

tlVars == <<tlDark, tlDarkProv, tlLightProv, tlShown, tlRef>>
_resolveTileUrl(dark, dp, lp) == IF dark THEN dp ELSE lp
RefUrl(p) == p = "esri"
_syncAddsOnly(dark, dp, lp) ==
    /\ tlShown' = _resolveTileUrl(dark, dp, lp) /\ tlRef' = (tlRef \/ (dark /\ RefUrl(dp)))

_syncDarkTiles(dark, dp, lp) ==
    /\ tlShown' = _resolveTileUrl(dark, dp, lp) /\ tlRef' = (dark /\ RefUrl(dp))
TileInit ==
    /\ tlDark \in BOOLEAN /\ tlDarkProv \in {"carto", "esri"} /\ tlLightProv \in {"osm", "esri"}
    /\ tlShown = _resolveTileUrl(tlDark, tlDarkProv, tlLightProv) /\ tlRef = (tlDark /\ RefUrl(tlDarkProv))
themeFlip == tlDark' = ~tlDark /\ _syncDarkTiles(~tlDark, tlDarkProv, tlLightProv) /\ UNCHANGED <<tlDarkProv, tlLightProv>>
\* The event names the theme it is for; that of the other theme is ignored.
providerChange(forDark, p) ==
    /\ IF forDark THEN tlDarkProv' = p /\ p \in {"carto", "esri"} /\ UNCHANGED tlLightProv
       ELSE tlLightProv' = p /\ p \in {"osm", "esri"} /\ UNCHANGED tlDarkProv
    /\ IF forDark # tlDark THEN UNCHANGED <<tlShown, tlRef>>
       ELSE _syncDarkTiles(tlDark, tlDarkProv', tlLightProv')
    /\ UNCHANGED tlDark
TileNext == themeFlip \/ \E d \in BOOLEAN, p \in {"carto", "osm", "esri"} : providerChange(d, p)
\* The tiles, and the labels over them, are those of the theme's provider.
TilesOfTheme ==
    /\ tlShown = (IF tlDark THEN tlDarkProv ELSE tlLightProv)
    /\ tlRef = (tlDark /\ tlDarkProv = "esri")

-----------------------------------------------------------------------------
\* The neighbours of a reference node: the set is emptied, then filled from
\* the affinity graph or, if that knows none, from the paths.  A second
\* choice while the first is under way shares the set.
VARIABLES nbRef, nbHood,   \* the node; those whose neighbours are in the set
          nbAsks,          \* [of, at], at "affinity" or "paths"
          nbMixed,         \* history: two choices were under way at once
          nbFilter, nbBox, \* filters.neighbors and its box
          acOpen, acWide,  \* open sections of the controls; the window is wide
          nNb

nbVars == <<nbRef, nbHood, nbAsks, nbMixed, nbFilter, nbBox, acOpen, acWide, nNb>>
Sections == 1..3
NbInit ==
    /\ nbRef = 0 /\ nbHood = {} /\ nbAsks = {} /\ nbMixed = FALSE /\ nbFilter = FALSE /\ nbBox = FALSE
    /\ acWide \in BOOLEAN /\ acOpen = (IF acWide THEN Sections ELSE {1}) /\ nNb = 0
NbAct == nNb < MaxMap /\ nNb' = nNb + 1
selectKeeps(p) ==
    /\ NbAct /\ nbRef' = p /\ UNCHANGED nbHood
    /\ nbAsks' = nbAsks \union {[of |-> p, at |-> "affinity"]} /\ nbMixed' = (nbMixed \/ nbAsks # {})
    /\ UNCHANGED <<nbFilter, nbBox, acOpen, acWide>>
selectReferenceNode(p) ==
    /\ NbAct /\ nbRef' = p /\ nbHood' = {}
    /\ nbAsks' = nbAsks \union {[of |-> p, at |-> "affinity"]} /\ nbMixed' = (nbMixed \/ nbAsks # {})
    /\ UNCHANGED <<nbFilter, nbBox, acOpen, acWide>>
\* The filter is turned on at the end, whatever came of it.
neighborsShown == nbFilter' = TRUE /\ nbBox' = TRUE
neighborsArrive(a, some) ==
    /\ a \in nbAsks
    /\ IF a.at = "affinity" /\ ~some /\ nbHood = {}
       THEN nbAsks' = (nbAsks \ {a}) \union {[a EXCEPT !.at = "paths"]} /\ UNCHANGED <<nbHood, nbFilter, nbBox>>
       ELSE nbAsks' = nbAsks \ {a} /\ nbHood' = (IF some THEN nbHood \union {a.of} ELSE nbHood) /\ neighborsShown
    /\ UNCHANGED <<nbRef, nbMixed, acOpen, acWide, nNb>>
neighborsFail(a) ==
    /\ a \in nbAsks /\ nbAsks' = nbAsks \ {a} /\ nbHood' = {} /\ neighborsShown
    /\ UNCHANGED <<nbRef, nbMixed, acOpen, acWide, nNb>>
neighborsBox ==
    /\ NbAct /\ nbBox' = ~nbBox /\ nbFilter' = ~nbBox
    /\ UNCHANGED <<nbRef, nbHood, nbAsks, nbMixed, acOpen, acWide>>
\* A click on a section's title closes the others and flips it.
flipOnly(s) == IF s \in acOpen THEN acOpen \ {s} ELSE acOpen \union {s}
onActivate(s) == IF s \in acOpen THEN {} ELSE {s}
accordionClick(s) == NbAct /\ acOpen' = onActivate(s) /\ UNCHANGED <<nbRef, nbHood, nbAsks, nbMixed, nbFilter, nbBox, acWide>>
NbNext ==
    \/ \E p \in {1, 2} : selectReferenceNode(p)
    \/ \E a \in nbAsks : neighborsFail(a) \/ \E some \in BOOLEAN : neighborsArrive(a, some)
    \/ \E s \in Sections : accordionClick(s)
    \/ neighborsBox

\* One choice after the other: only neighbours of the chosen node are left
\* on the map, and the filter is what its box says.
HoodOfReference == (~nbMixed /\ nbAsks = {}) => nbHood \subseteq {nbRef} /\ nbFilter = nbBox
\* On a narrow screen the controls never need to scroll: one section is open.
OneSectionOpen == ~acWide => Cardinality(acOpen) <= 1
================================================================================
