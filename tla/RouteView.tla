------------------------------- MODULE RouteView -------------------------------
(***************************************************************************)
(* A packet's route on the map: drawPacketRoute and drawPacketRouteMulti   *)
(* (public/map.js), which wait for the server's resolution of the hops,    *)
(* and MeshRouteView.render (public/route-view.js) with its sidebar, its   *)
(* listeners and the overlays of the path picker.  A change of the hash    *)
(* destroys the page and starts the next; a map page waits for its         *)
(* configuration before there is a map.                                    *)
(***************************************************************************)
EXTENDS Integers, SequencesExt, FiniteSets

CONSTANTS MaxRoute,     \* bound on what the user does
          DetailMax,    \* DETAIL_CACHE_MAX
          HopKeys       \* pubkeys of hops whose details are asked for

ASSUME RouteViewAssumption == MaxRoute \in Nat /\ DetailMax \in Nat \ {0} /\ IsFiniteSet(HopKeys)

VARIABLES rvHash,       \* "other", "map" or "route" (#/map?packet= or ?route=)
          rvMap,        \* there is a map
          rvMarkers,    \* the marker layers are on it
          rvCloses,     \* "Close route" controls on it
          rvNote,       \* "Route not displayed" controls on it
          rvDraws,      \* draws waiting for /api/resolve-hops, [id, multi]
          rvN,          \* renders so far: the id of the last one
          rvLayer,      \* render whose edges and markers are in the route layer
          rvSide,       \* render whose sidebar is in the document
          rvClass,      \* body has the class mc-route-active
          rvTear, rvRecolor, rvResize,  \* renders whose listeners are on the window
          rvMany,       \* the render in the sidebar is of several paths
          rvOver,       \* overlays in the layer: a bag of "iso" and "union"
          rvRows,       \* rows of the sidebar: "wired", "iso" (replaced) or "dead"
          rvSaved,      \* _canonRows was saved
          nRoute

rvVars == <<rvHash, rvMap, rvMarkers, rvCloses, rvNote, rvDraws, rvN, rvLayer, rvSide, rvClass, rvTear, rvRecolor,
            rvResize, rvMany, rvOver, rvRows, rvSaved, nRoute>>
rvListens == <<rvTear, rvRecolor, rvResize>>
rvBar == <<rvMany, rvOver, rvRows, rvSaved>>

NoOver == [iso |-> 0, union |-> 0]

RouteInit ==
    /\ rvHash = "map" /\ rvMap = TRUE /\ rvMarkers = TRUE /\ rvCloses = 0 /\ rvNote = 0 /\ rvDraws = {} /\ rvN = 0
    /\ rvLayer = 0 /\ rvSide = 0 /\ rvClass = FALSE /\ rvTear = {} /\ rvRecolor = {} /\ rvResize = {}
    /\ rvMany = FALSE /\ rvOver = NoOver /\ rvRows = "wired" /\ rvSaved = FALSE /\ nRoute = 0

RouteAct == nRoute < MaxRoute /\ nRoute' = nRoute + 1

\* A route is asked for: from the packet's page, a deep link, the path
\* inspector or the change of the 1-byte setting.  Of a path below the trust
\* threshold only a note is shown, in place of what was drawn.
drawPacketRoute(trusted) ==
    /\ RouteAct /\ rvMap
    /\ IF trusted
       THEN rvDraws' = rvDraws \union {[id |-> nRoute, multi |-> FALSE]} /\ rvNote' = 0 /\ UNCHANGED <<rvLayer, rvOver>>
       ELSE rvNote' = 1 /\ rvLayer' = 0 /\ rvOver' = NoOver /\ UNCHANGED rvDraws
    /\ UNCHANGED <<rvHash, rvMap, rvMarkers, rvCloses, rvN, rvSide, rvClass, rvTear, rvRecolor, rvResize, rvMany, rvRows, rvSaved>>
drawPacketRouteMulti ==
    /\ RouteAct /\ rvMap /\ rvDraws' = rvDraws \union {[id |-> nRoute, multi |-> TRUE]}
    /\ UNCHANGED <<rvHash, rvMap, rvMarkers, rvCloses, rvNote, rvN, rvLayer, rvSide, rvClass, rvTear, rvRecolor, rvResize,
                   rvMany, rvOver, rvRows, rvSaved>>

renderTwice(i, located) ==
    /\ rvTear' = rvTear \union {i} /\ rvRecolor' = (rvRecolor \ {rvN}) \union {i}
    /\ rvResize' = (IF located THEN {i} ELSE rvResize)

\* The listeners of the render before are taken off the window, those of
\* this one put on; the resize ones only if some hop has a position.
renderListens(i, located) ==
    /\ rvTear' = (rvTear \ {rvN}) \union {i}
    /\ rvRecolor' = (rvRecolor \ {rvN}) \union {i}
    /\ rvResize' = (IF located THEN {i} ELSE rvResize)

\* buildSidebar: a row for each hop with its listeners; the path picker if
\* there are several paths.
sidebarRows == rvRows' = "wired" /\ rvSaved' = FALSE
pathPicker(multi) == rvMany' = multi
\* MeshRouteView.render: class, listeners, edges, markers, a new sidebar.
render(multi, located) ==
    /\ rvN' = rvN + 1 /\ rvClass' = TRUE /\ renderListens(rvN + 1, located)
    /\ rvLayer' = rvN + 1 /\ rvSide' = rvN + 1 /\ rvOver' = NoOver /\ sidebarRows /\ pathPicker(multi)

\* The hops are resolved.  One path hides the markers and puts a close
\* button on the map before it is known whether anything can be drawn;
\* several paths leave both alone.  Without a map the one fails at once,
\* the other after the class and the listeners were set.
hideNoButton == rvMarkers' = FALSE /\ UNCHANGED rvCloses
hideMarkers == rvMarkers' = FALSE /\ rvCloses' = rvCloses + 1
hopsResolved(d, located, empty) ==
    /\ d \in rvDraws /\ rvDraws' = rvDraws \ {d}
    /\ IF ~rvMap
       THEN /\ IF d.multi THEN rvN' = rvN + 1 /\ rvClass' = TRUE /\ rvTear' = (rvTear \ {rvN}) \union {rvN + 1}
                               /\ rvRecolor' = (rvRecolor \ {rvN}) \union {rvN + 1} /\ UNCHANGED rvResize
               ELSE UNCHANGED <<rvN, rvClass, rvTear, rvRecolor, rvResize>>
            /\ UNCHANGED <<rvMarkers, rvCloses, rvLayer, rvSide, rvMany, rvOver, rvRows, rvSaved>>
       ELSE /\ IF d.multi THEN UNCHANGED <<rvMarkers, rvCloses>> ELSE hideMarkers
            /\ IF empty THEN rvLayer' = (IF d.multi THEN rvLayer ELSE 0) /\ rvOver' = (IF d.multi THEN rvOver ELSE NoOver)
                             /\ UNCHANGED <<rvN, rvSide, rvClass, rvListens, rvMany, rvRows, rvSaved>>
               ELSE render(d.multi, located)
    /\ UNCHANGED <<rvHash, rvMap, rvNote, nRoute>>

\* The button on the map: markers come back, the sidebar stays.
closeRoute ==
    /\ RouteAct /\ rvMap /\ rvCloses > 0 /\ rvCloses' = rvCloses - 1
    /\ rvMarkers' = TRUE /\ rvLayer' = 0 /\ rvOver' = NoOver
    /\ UNCHANGED <<rvHash, rvMap, rvNote, rvDraws, rvN, rvSide, rvClass, rvTear, rvRecolor, rvResize, rvMany, rvRows, rvSaved>>

teardownOnce(h) ==
    IF rvTear # {} THEN rvClass' = (rvClass /\ h = "route") /\ rvTear' = {} /\ rvResize' = {}
    ELSE UNCHANGED <<rvClass, rvTear, rvResize>>
\* Run by the renders that listen: it is left alone while the hash is one
\* of a route.
teardownIfNavigatedAway(h) ==
    IF h # "route" /\ rvTear # {} THEN rvClass' = FALSE /\ rvTear' = {} /\ rvResize' = {}
    ELSE UNCHANGED <<rvClass, rvTear, rvResize>>
\* The router destroys the page first: the map and all that is on it.  A
\* sidebar stands beside the map in the page, and goes with it.
hashChange(h) ==
    /\ rvHash' = h /\ rvMap' = FALSE /\ rvMarkers' = TRUE /\ rvCloses' = 0 /\ rvNote' = 0 /\ rvLayer' = 0 /\ rvOver' = NoOver
    /\ rvSide' = 0 /\ teardownIfNavigatedAway(h)
    /\ UNCHANGED <<rvDraws, rvN, rvRecolor, rvMany, rvRows, rvSaved>>
navigateTo(h) == RouteAct /\ h # rvHash /\ hashChange(h)
\* L.map once the configuration came.
mapReady ==
    /\ rvHash # "other" /\ ~rvMap /\ rvMap' = TRUE
    /\ UNCHANGED <<rvHash, rvMarkers, rvCloses, rvNote, rvDraws, rvN, rvLayer, rvSide, rvClass, rvTear, rvRecolor, rvResize,
                   rvMany, rvOver, rvRows, rvSaved, nRoute>>

\* The cross of the sidebar sets the hash, which is an event only if it
\* was another one.
closeSidebar ==
    /\ RouteAct /\ rvSide # 0
    /\ IF rvHash = "map"
       THEN /\ rvSide' = 0 /\ rvLayer' = 0 /\ rvOver' = NoOver /\ rvClass' = FALSE
            /\ UNCHANGED <<rvHash, rvMap, rvMarkers, rvCloses, rvNote, rvDraws, rvN, rvTear, rvRecolor, rvResize, rvMany, rvRows, rvSaved>>
       ELSE hashChange("map")

\* The path picker.  Isolating replaces what was drawn on top and the rows;
\* "All" brings the rows back, with their listeners, and draws the union.
isolateOnTop ==
    /\ RouteAct /\ rvSide # 0 /\ rvMany
    /\ rvOver' = [iso |-> 1, union |-> rvOver.union] /\ rvRows' = "iso" /\ rvSaved' = TRUE
    /\ UNCHANGED <<rvHash, rvMap, rvMarkers, rvCloses, rvNote, rvDraws, rvN, rvLayer, rvSide, rvClass, rvTear, rvRecolor, rvResize, rvMany>>
isolatePath ==
    /\ RouteAct /\ rvSide # 0 /\ rvMany
    /\ rvOver' = [iso |-> 1, union |-> 0] /\ rvRows' = "iso" /\ rvSaved' = TRUE
    /\ UNCHANGED <<rvHash, rvMap, rvMarkers, rvCloses, rvNote, rvDraws, rvN, rvLayer, rvSide, rvClass, rvTear, rvRecolor, rvResize, rvMany>>
restoreUnwired ==
    /\ RouteAct /\ rvSide # 0 /\ rvMany
    /\ rvOver' = [iso |-> 0, union |-> 1] /\ rvRows' = (IF rvSaved THEN "dead" ELSE rvRows)
    /\ UNCHANGED <<rvHash, rvMap, rvMarkers, rvCloses, rvNote, rvDraws, rvN, rvLayer, rvSide, rvClass, rvTear, rvRecolor, rvResize, rvMany, rvSaved>>
restoreAllPaths ==
    /\ RouteAct /\ rvSide # 0 /\ rvMany
    /\ rvOver' = [iso |-> 0, union |-> 1] /\ rvRows' = (IF rvSaved THEN "wired" ELSE rvRows)
    /\ UNCHANGED <<rvHash, rvMap, rvMarkers, rvCloses, rvNote, rvDraws, rvN, rvLayer, rvSide, rvClass, rvTear, rvRecolor, rvResize, rvMany, rvSaved>>

RouteNext ==
    \/ \E t \in BOOLEAN : drawPacketRoute(t)
    \/ \E d \in rvDraws, located, empty \in BOOLEAN : hopsResolved(d, located, empty)
    \/ \E h \in {"other", "map", "route"} : navigateTo(h)
    \/ drawPacketRouteMulti \/ closeRoute \/ mapReady \/ closeSidebar \/ isolatePath \/ restoreAllPaths

\* The markers of the network can always be brought back: while they are
\* off the map a button stands on it that puts them back, whatever draws
\* overlapped, failed or came for a page that was left.
WayBackToMarkers == (rvMap /\ ~rvMarkers) => rvCloses > 0
\* Leaving takes the route view down: a sidebar, or the class that hides the
\* map's controls, never stands without a listener for the next hash.
LeavingTakesItDown == (rvSide # 0 \/ rvClass) => rvTear # {}
\* However many routes were drawn, one listener of each kind is left.
OneListenerEach == Cardinality(rvTear) <= 1 /\ Cardinality(rvRecolor) <= 1 /\ Cardinality(rvResize) <= 1
\* One overlay at a time lies over the route, and the rows that are shown
\* for all paths answer to the pointer.
OneOverlay == rvOver.iso + rvOver.union <= 1
RowsAnswer == (rvSide # 0 /\ rvRows # "iso") => rvRows = "wired"

-----------------------------------------------------------------------------
\* The cache of hop details (fetchHopDetail), a Map in insertion order: a
\* hit moves the entry to the end, an answer drops the oldest ones first.
VARIABLES hdCache,      \* keys, oldest first
          hdAsks,       \* a bag: asks on their way by key
          hdOpen,       \* rows with an open detail panel
          nDetail

hdVars == <<hdCache, hdAsks, hdOpen, nDetail>>
DetailInit == hdOpen = {} /\ hdCache = <<>> /\ hdAsks = [k \in HopKeys |-> 0] /\ nDetail = 0

Without(s, k) == RemoveAt(s, CHOOSE i \in DOMAIN s : s[i] = k)    \* s has k
LastOnes(s, n) == IF Len(s) <= n THEN s ELSE SubSeq(s, Len(s) - n + 1, Len(s))

fetchHopDetail(k) ==
    IF Contains(hdCache, k) THEN hdCache' = Append(Without(hdCache, k), k) /\ UNCHANGED hdAsks
    ELSE hdAsks' = [hdAsks EXCEPT ![k] = @ + 1] /\ UNCHANGED hdCache
\* A click opens the row's panel, after the others were closed, or closes it.
openAlso(k) == hdOpen \union {k}
openPanel(k) == {k}
rowClick(k) ==
    /\ nDetail < MaxRoute /\ nDetail' = nDetail + 1
    /\ IF k \in hdOpen THEN hdOpen' = hdOpen \ {k} /\ UNCHANGED <<hdCache, hdAsks>>
       ELSE hdOpen' = openPanel(k) /\ fetchHopDetail(k)
\* Room is made first, then the entry set: one that is there keeps its place.
detailRoom == LastOnes(hdCache, DetailMax - 1)
detailArrives(k) ==
    /\ hdAsks[k] > 0 /\ hdAsks' = [hdAsks EXCEPT ![k] = @ - 1]
    /\ hdCache' = (IF Contains(detailRoom, k) THEN detailRoom ELSE Append(detailRoom, k))
    /\ UNCHANGED <<hdOpen, nDetail>>
\* The teardown takes the sidebar and the cache.
detailClear == hdCache # <<>> /\ hdCache' = <<>> /\ hdOpen' = {} /\ UNCHANGED <<hdAsks, nDetail>>

DetailNext == detailClear \/ \E k \in HopKeys : rowClick(k) \/ detailArrives(k)

\* At most DETAIL_CACHE_MAX details are kept, none twice.
DetailBounded == Len(hdCache) <= DetailMax /\ \A i, j \in DOMAIN hdCache : hdCache[i] = hdCache[j] => i = j
\* One panel is open at a time.
OnePanelOpen == Cardinality(hdOpen) <= 1
================================================================================
