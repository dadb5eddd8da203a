------------------------------ MODULE NodesPage ------------------------------
(***************************************************************************)
(* The node list and the node's details (public/nodes.js): loads of the    *)
(* list that overlap with filters and region changes; answers of details   *)
(* that arrive in another view than the one that asked.                    *)
(***************************************************************************)
EXTENDS Integers, FiniteSets

CONSTANTS MaxNdLoads,   \* loads of the list under way at once
          NodeKeys,     \* nodes whose details are opened
          Located,      \* those with a position
          MaxViews      \* full-screen views of one behaviour

ASSUME NodesPageAssumption ==
    /\ MaxNdLoads \in Nat /\ Located \subseteq NodeKeys /\ MaxViews \in Nat
    /\ NodeKeys \intersect {"-", "empty", "loading", "error"} = {}    \* keys are hexadecimal

Regions == 1..2
Filters == 1..2         \* tab, search, last heard, status and silence taken together
NoList == 0

(***************************************************************************)
(* The list.                                                               *)
(***************************************************************************)
VARIABLES ndOn, ndRegion, ndFilter,
          ndAll,        \* _allNodes: NoList or the region it was fetched for
          ndNodes,      \* nodes: [all, filter] it was filtered from
          ndTable,      \* renderLeft has built the table
          ndRows,       \* what the table shows: [all, filter], or the error row
          ndLoads,      \* [id, at, region, refresh]
          ndDebounce,   \* the search field's timer
          ndOverlap     \* history: two loads fetched at the same time

ndVars == <<ndOn, ndRegion, ndFilter, ndAll, ndNodes, ndTable, ndRows, ndLoads, ndDebounce, ndOverlap>>

Listed(a, f) == [all |-> a, filter |-> f]
NoRows == Listed(NoList, 0)
ErrorRow == Listed(NoList, 1)

NodesInit ==
    /\ ndOn = FALSE /\ ndRegion = 1 /\ ndFilter = 1 /\ ndAll = NoList /\ ndNodes = NoRows /\ ndTable = FALSE
    /\ ndRows = NoRows /\ ndLoads = {} /\ ndDebounce = FALSE /\ ndOverlap = FALSE

Slots == 1..MaxNdLoads \ {l.id : l \in ndLoads}
Slot == CHOOSE i \in Slots : TRUE

\* renderLeft builds the table, renderRows needs it.
draw(refresh, on, table, nodes) ==
    /\ ndTable' = (table \/ (on /\ ~refresh))
    /\ ndRows' = IF ndTable' THEN nodes ELSE ndRows

\* From the filters to the end.  A list taken away by a region change while
\* the skew was awaited has no filter method: the error row.  Claimed nodes
\* missing from the list are fetched first (their answers, {node: ...}, have
\* no public_key and add nothing).
filterAndDraw(l, all, filter, others, table, on) ==
    IF all = NoList
    THEN /\ ndRows' = IF table THEN ErrorRow ELSE ndRows
         /\ ndLoads' = others /\ ndTable' = table /\ UNCHANGED ndNodes
    ELSE /\ ndNodes' = Listed(all, filter)
         /\ \/ ndLoads' = others /\ draw(l.refresh, on, table, ndNodes')
            \/ ndLoads' = others \union {[l EXCEPT !.at = "claimed"]} /\ ndTable' = table /\ UNCHANGED ndRows

\* loadNodes: the list is fetched if there is none.
loadNodes(refresh, all, region, filter, table) ==
    /\ Slots # {}
    /\ LET l == [id |-> Slot, at |-> "pages", region |-> region, refresh |-> refresh] IN
       IF all = NoList
       THEN /\ ndLoads' = ndLoads \union {l} /\ ndOverlap' = (ndOverlap \/ \E m \in ndLoads : m.at = "pages")
            /\ ndTable' = table /\ UNCHANGED <<ndNodes, ndRows>>
       ELSE filterAndDraw(l, all, filter, ndLoads, table, ndOn) /\ UNCHANGED ndOverlap

\* init: the filters come from the URL.  Rows of an earlier visit are gone.
openNodes ==
    /\ ~ndOn /\ ndOn' = TRUE /\ Slots # {} /\ ndFilter' \in Filters
    /\ LET l == [id |-> Slot, at |-> "pages", region |-> ndRegion, refresh |-> FALSE] IN
       IF ndAll = NoList
       THEN /\ ndLoads' = ndLoads \union {l} /\ ndOverlap' = (ndOverlap \/ \E m \in ndLoads : m.at = "pages")
            /\ ndTable' = FALSE /\ ndRows' = NoRows /\ UNCHANGED ndNodes
       ELSE filterAndDraw(l, ndAll, ndFilter', ndLoads, FALSE, TRUE) /\ UNCHANGED ndOverlap
    /\ UNCHANGED <<ndRegion, ndAll, ndDebounce>>
\* A tab, a select, a status button: the filter and a load.
nodesFilterChange ==
    /\ ndOn /\ ndTable /\ \E f \in Filters : f # ndFilter /\ ndFilter' = f
    /\ loadNodes(FALSE, ndAll, ndRegion, ndFilter', ndTable) /\ UNCHANGED <<ndOn, ndRegion, ndAll, ndDebounce>>
searchInput == ndOn /\ ~ndDebounce /\ ndDebounce' = TRUE /\ UNCHANGED <<ndOn, ndRegion, ndFilter, ndAll, ndNodes, ndTable, ndRows, ndLoads, ndOverlap>>
\* The timer is not stopped by destroy; it takes the field's text then.
searchFires ==
    /\ ndDebounce /\ ndDebounce' = FALSE /\ ndFilter' \in Filters
    /\ loadNodes(FALSE, ndAll, ndRegion, ndFilter', ndTable) /\ UNCHANGED <<ndOn, ndRegion, ndAll>>
keepsList(r) == ndAll
\* regionChangeHandler: the cached list is dropped.
dropsList(r) == NoList
regionChange ==
    /\ ndOn /\ \E r \in Regions : r # ndRegion /\ ndRegion' = r
    /\ ndAll' = dropsList(ndRegion') /\ loadNodes(FALSE, ndAll', ndRegion', ndFilter, ndTable) /\ UNCHANGED <<ndOn, ndFilter, ndDebounce>>
\* An advert of a known node changes its row in place, one of an unknown
\* node drops the list.
advertOnNodes ==
    /\ ndOn /\ ndAll' \in {ndAll, NoList}
    /\ loadNodes(TRUE, ndAll', ndRegion, ndFilter, ndTable) /\ UNCHANGED <<ndOn, ndRegion, ndFilter, ndDebounce>>
pagesArrive(l) ==
    /\ l.at = "pages" /\ ndAll' = l.region /\ ndLoads' = (ndLoads \ {l}) \union {[l EXCEPT !.at = "skew"]}
    /\ UNCHANGED <<ndOn, ndRegion, ndFilter, ndNodes, ndTable, ndRows, ndDebounce, ndOverlap>>
pagesFail(l) ==
    /\ l.at = "pages" /\ ndLoads' = ndLoads \ {l} /\ ndRows' = IF ndTable THEN ErrorRow ELSE ndRows
    /\ UNCHANGED <<ndOn, ndRegion, ndFilter, ndAll, ndNodes, ndTable, ndDebounce, ndOverlap>>
skewOldFilter(l) ==
    /\ l.at = "skew" /\ UNCHANGED ndOn /\ filterAndDraw(l, ndAll, 1, ndLoads \ {l}, ndTable, ndOn)
    /\ UNCHANGED <<ndRegion, ndFilter, ndAll, ndDebounce, ndOverlap>>
\* getFleetSkew never fails; the filters are read after it.
skewArrives(l) ==
    /\ l.at = "skew" /\ UNCHANGED ndOn /\ filterAndDraw(l, ndAll, ndFilter, ndLoads \ {l}, ndTable, ndOn)
    /\ UNCHANGED <<ndRegion, ndFilter, ndAll, ndDebounce, ndOverlap>>
\* The rows drawn are those of the variable, whoever set it last.
claimedArrive(l) ==
    /\ l.at = "claimed" /\ ndLoads' = ndLoads \ {l} /\ draw(l.refresh, ndOn, ndTable, ndNodes)
    /\ UNCHANGED <<ndOn, ndRegion, ndFilter, ndAll, ndNodes, ndDebounce, ndOverlap>>
themeRows ==
    /\ ndOn /\ ndTable /\ ndRows' = ndNodes /\ UNCHANGED <<ndOn, ndRegion, ndFilter, ndAll, ndNodes, ndTable, ndLoads, ndDebounce, ndOverlap>>
leaveNodes ==
    /\ ndOn /\ ndOn' = FALSE /\ ndNodes' = NoRows /\ ndTable' = FALSE /\ ndRows' = NoRows
    /\ UNCHANGED <<ndRegion, ndFilter, ndAll, ndLoads, ndDebounce, ndOverlap>>

NodesNext ==
    \/ openNodes \/ nodesFilterChange \/ searchInput \/ searchFires \/ regionChange \/ advertOnNodes \/ themeRows \/ leaveNodes
    \/ \E l \in ndLoads : pagesArrive(l) \/ pagesFail(l) \/ skewArrives(l) \/ claimedArrive(l)

Settled == ndOn /\ ndTable /\ ndLoads = {} /\ ~ndDebounce /\ ndAll # NoList /\ ndRows # ErrorRow
\* Once every load is through, the rows are those of the list in memory under
\* the filters in force, whatever was changed while the loads overlapped
\* (loadNodes reads the filters after its awaits).
RowsFollowFilters == Settled => ndRows = Listed(ndAll, ndFilter)
\* And if no two loads fetched at the same time, the list is that of the
\* chosen region (regionChangeHandler).
RowsOfRegion == (Settled /\ ~ndOverlap) => ndAll = ndRegion

(***************************************************************************)
(* The details: the panel beside the list, the slide-over, the full view.  *)
(***************************************************************************)
VARIABLES dvView,       \* "none", "list" or "full"
          dvNode,       \* directNode of a full view
          dvInst,       \* number of the view: its elements are new
          dvWide,       \* panel, or slide-over
          dvSel,        \* selectedKey
          dvIn,         \* where the selection was opened
          dvSlide,      \* "closed", "loading", "error" or the node it shows
          dvPanel,      \* content of the panel or of the full view
          dvMaps,       \* Leaflet maps alive: numbers of their views
          dvMap,        \* detailMap: one of them, or 0
          dvReqs        \* [key, to, inst]

dvVars == <<dvView, dvNode, dvInst, dvWide, dvSel, dvIn, dvSlide, dvPanel, dvMaps, dvMap, dvReqs>>
NoKey == "-"

DetailsInit ==
    /\ dvView = "none" /\ dvNode = NoKey /\ dvInst = 0 /\ dvWide = TRUE /\ dvSel = NoKey /\ dvIn = "panel"
    /\ dvSlide = "closed" /\ dvPanel = "empty" /\ dvMaps = {} /\ dvMap = 0 /\ dvReqs = {}

removeAnyMap(owner) == dvMaps' = dvMaps \ {dvMap} /\ dvMap' = 0
\* removeDetailMap: a view that asks keeps its hands off another view's map.
\* Owner 0 is a call without owner.
removeDetailMap(owner) ==
    IF owner # 0 /\ dvMap # 0 /\ dvMap # owner THEN UNCHANGED <<dvMaps, dvMap>> ELSE dvMaps' = dvMaps \ {dvMap} /\ dvMap' = 0
NewView == dvInst < MaxViews /\ dvInst' = dvInst + 1
asked(k, to, inst) == [key |-> k, to |-> to, inst |-> inst]
MaxAsked == 2           \* details under way at once
Room == Cardinality(dvReqs) < MaxAsked

\* destroy, and the init of another page or view.
openView(v, k) ==
    /\ NewView /\ dvView' = v /\ dvNode' = k /\ dvSel' = NoKey /\ dvMaps' = dvMaps \ {dvMap} /\ dvMap' = 0
    /\ dvPanel' = (IF v = "full" THEN "loading" ELSE "empty") /\ dvSlide' = "closed"
    /\ IF v = "full" THEN Room /\ dvReqs' = dvReqs \union {asked(k, "full", dvInst')} ELSE UNCHANGED dvReqs
    /\ UNCHANGED <<dvWide, dvIn>>
openListView == openView("list", NoKey)
openFull(k) == openView("full", k)
leaveViews ==
    /\ dvView # "none" /\ dvView' = "none" /\ dvSel' = NoKey /\ dvMaps' = dvMaps \ {dvMap} /\ dvMap' = 0
    /\ dvPanel' = "empty" /\ dvSlide' = "closed" /\ UNCHANGED <<dvNode, dvInst, dvWide, dvIn, dvReqs>>
\* selectNode.  Opening the slide-over closes the one that is open, whose
\* onClose forgets the selection just made.
selectNode(k) ==
    /\ dvView = "list" /\ Room
    /\ IF dvWide
       THEN /\ dvSel' = k /\ dvIn' = "panel" /\ dvPanel' = "loading" /\ removeDetailMap(0)
            /\ dvReqs' = dvReqs \union {asked(k, "panel", dvInst)} /\ UNCHANGED dvSlide
       ELSE /\ dvSel' = (IF dvSlide = "closed" THEN k ELSE NoKey) /\ dvIn' = "slide" /\ dvSlide' = "loading"
            /\ dvReqs' = dvReqs \union {asked(k, "slide", dvInst)} /\ UNCHANGED <<dvPanel, dvMaps, dvMap>>
    /\ UNCHANGED <<dvView, dvNode, dvInst, dvWide>>
\* Escape or the cross.
closePanel ==
    /\ dvView = "list" /\ dvPanel # "empty" /\ dvPanel' = "empty" /\ dvSel' = NoKey /\ removeDetailMap(0)
    /\ UNCHANGED <<dvView, dvNode, dvInst, dvWide, dvIn, dvSlide, dvReqs>>
closeSlide ==
    /\ dvSlide # "closed" /\ dvSlide' = "closed" /\ dvSel' = NoKey
    /\ UNCHANGED <<dvView, dvNode, dvInst, dvWide, dvIn, dvPanel, dvMaps, dvMap, dvReqs>>
\* A wider window closes the slide-over without onClose.
resizeViews ==
    /\ dvView = "list" /\ dvWide' = ~dvWide /\ dvSlide' = "closed"
    /\ UNCHANGED <<dvView, dvNode, dvInst, dvSel, dvIn, dvPanel, dvMaps, dvMap, dvReqs>>
\* theme-refresh.
themeDetails ==
    \/ dvView = "full" /\ Room /\ dvReqs' = dvReqs \union {asked(dvNode, "full", dvInst)}
       /\ UNCHANGED <<dvView, dvNode, dvInst, dvWide, dvSel, dvIn, dvSlide, dvPanel, dvMaps, dvMap>>
    \/ dvSel # NoKey /\ selectNode(dvSel)

connectedOnly(r) == r.inst = dvInst /\ dvView = "list"
\* The answer is for the selection and the panel is in the document.
panelAccepts(r) == dvSel = r.key /\ r.inst = dvInst /\ dvView = "list"
\* The map of a view that has just been filled with a located node.
showMap(k) ==
    IF k \in Located THEN dvMaps' = (IF dvMap \in {0, dvInst} THEN dvMaps \ {dvMap} ELSE dvMaps) \union {dvInst} /\ dvMap' = dvInst
    ELSE removeDetailMap(dvInst)
\* renderDetail.
panelArrives(r) ==
    /\ r.to = "panel" /\ dvReqs' = dvReqs \ {r}
    /\ IF ~panelAccepts(r) THEN UNCHANGED <<dvPanel, dvMaps, dvMap>> ELSE dvPanel' = r.key /\ showMap(r.key)
    /\ UNCHANGED <<dvView, dvNode, dvInst, dvWide, dvSel, dvIn, dvSlide>>
panelFails(r) ==
    /\ r.to = "panel" /\ dvReqs' = dvReqs \ {r} /\ dvPanel' = IF panelAccepts(r) THEN "error" ELSE dvPanel
    /\ UNCHANGED <<dvView, dvNode, dvInst, dvWide, dvSel, dvIn, dvSlide, dvMaps, dvMap>>
\* loadFullNode has no such test: a late answer fills elements that are no
\* longer in the document, and the map's constructor throws on them.
fullHere(r) == r.inst = dvInst /\ dvView = "full"
fullMap(k) ==
    IF k \in Located THEN dvMaps' = (dvMaps \ {dvMap}) \union {dvInst} /\ dvMap' = dvInst ELSE removeDetailMap(dvInst)
fullArrives(r) ==
    /\ r.to = "full" /\ dvReqs' = dvReqs \ {r}
    /\ IF fullHere(r) THEN dvPanel' = r.key /\ fullMap(r.key) ELSE removeDetailMap(r.inst) /\ UNCHANGED dvPanel
    /\ UNCHANGED <<dvView, dvNode, dvInst, dvWide, dvSel, dvIn, dvSlide>>
fullFails(r) ==
    /\ r.to = "full" /\ dvReqs' = dvReqs \ {r} /\ removeDetailMap(r.inst)
    /\ dvPanel' = IF fullHere(r) THEN "error" ELSE dvPanel
    /\ UNCHANGED <<dvView, dvNode, dvInst, dvWide, dvSel, dvIn, dvSlide>>
\* The button of the error.
retryFull ==
    /\ dvView = "full" /\ dvPanel = "error" /\ Room /\ dvPanel' = "loading" /\ dvReqs' = dvReqs \union {asked(dvNode, "full", dvInst)}
    /\ UNCHANGED <<dvView, dvNode, dvInst, dvWide, dvSel, dvIn, dvSlide, dvMaps, dvMap>>
\* A failure is written whether or not it is awaited any more.
slideArrives(r) ==
    /\ r.to = "slide" /\ dvReqs' = dvReqs \ {r}
    /\ \/ dvSlide' = IF dvSel = r.key /\ dvSlide # "closed" THEN r.key ELSE dvSlide
       \/ dvSlide' = IF dvSlide = "closed" THEN dvSlide ELSE "error"
    /\ UNCHANGED <<dvView, dvNode, dvInst, dvWide, dvSel, dvIn, dvPanel, dvMaps, dvMap>>

DetailsNext ==
    \/ openListView \/ leaveViews \/ closePanel \/ closeSlide \/ resizeViews \/ themeDetails
    \/ \E k \in NodeKeys : openFull(k) \/ selectNode(k)
    \/ retryFull
    \/ \E r \in dvReqs : panelArrives(r) \/ panelFails(r) \/ fullArrives(r) \/ fullFails(r) \/ slideArrives(r)

\* The panel shows the node that is selected and none asked for before it
\* (selectNode's test after its await).
PanelOfSelected == (dvView = "list" /\ dvIn = "panel" /\ dvPanel \in NodeKeys) => dvPanel = dvSel
\* One map at most is alive, and the node on the screen has it if it has a
\* position: an answer for a view that is gone neither takes it nor leaves
\* one behind (removeDetailMap's owner).
MapOfShown == dvMaps \subseteq {dvMap} /\ (dvPanel \in Located => dvMap = dvInst)
==============================================================================
