------------------------------ MODULE MCPages ------------------------------
(***************************************************************************)
(* The parts of the map and of the other pages for TLC, one at a time      *)
(* (part).                                                                 *)
(***************************************************************************)
EXTENDS RouteView, MapPage, AnalyticsPage, NodesPage, ReachPages, SmallPages, StatusPages

VARIABLE part

TileStyles ==
    [id \in {"carto-dark", "carto-light", "esri-dark", "stamen-dark", "osm"} |->
        [type |-> IF id \in {"carto-light", "osm"} THEN "light" ELSE "dark", invert |-> id = "stamen-dark"]]

pagesAllVars == <<rvVars, hdVars, mpVars, trVars, tlVars, nbVars, anVars, ngVars, rfVars, ndVars,
                    dvVars, rcVars, rxVars, obVars, cpVars, cmVars, hmVars, saVars, mqVars, pfVars, tpVars, ctVars, part>>

MCPagesInit ==
    /\ part \in {"route", "detail", "map", "top", "tile", "hood", "ana", "graph", "rfh", "nodes", "ndetail", "reach", "rx", "obs", "charts", "cmp", "home", "audit", "mqtt", "perf", "picker", "chtab"}
    /\ RouteInit
    /\ DetailInit
    /\ MapInit /\ (part # "map" => mpWindow = CHOOSE w \in Windows : TRUE) /\ (part # "map" => ~mpHeatBox)
    /\ TopInit
    /\ TileInit /\ (part # "tile" => ~tlDark /\ tlDarkProv = "esri" /\ tlLightProv = "esri")
    /\ NbInit /\ (part # "hood" => acWide)
    /\ AnaInit
    /\ GraphInit
    /\ RfInit
    /\ NodesInit
    /\ DetailsInit
    /\ ReachInit
    /\ RxInit
    /\ ObsInit
    /\ ChartPagesInit
    /\ CompareInit
    /\ HomeInit
    /\ AuditInit
    /\ MqttInit
    /\ PerfInit
    /\ PickerInit /\ (part # "picker" => tpStored = [t \in Themes |-> ""])
    /\ ChannelsTabInit /\ (part # "chtab" => ctKeys = {} /\ ctSaved = NoSort)

Rest(p) ==
    /\ UNCHANGED part
    /\ IF p = "route" THEN TRUE ELSE UNCHANGED rvVars
    /\ IF p = "detail" THEN TRUE ELSE UNCHANGED hdVars
    /\ IF p = "map" THEN TRUE ELSE UNCHANGED mpVars
    /\ IF p = "top" THEN TRUE ELSE UNCHANGED trVars
    /\ IF p = "tile" THEN TRUE ELSE UNCHANGED tlVars
    /\ IF p = "hood" THEN TRUE ELSE UNCHANGED nbVars
    /\ IF p = "ana" THEN TRUE ELSE UNCHANGED anVars
    /\ IF p = "graph" THEN TRUE ELSE UNCHANGED ngVars
    /\ IF p = "rfh" THEN TRUE ELSE UNCHANGED rfVars
    /\ IF p = "nodes" THEN TRUE ELSE UNCHANGED ndVars
    /\ IF p = "ndetail" THEN TRUE ELSE UNCHANGED dvVars
    /\ IF p = "reach" THEN TRUE ELSE UNCHANGED rcVars
    /\ IF p = "rx" THEN TRUE ELSE UNCHANGED rxVars
    /\ IF p = "obs" THEN TRUE ELSE UNCHANGED obVars
    /\ IF p = "charts" THEN TRUE ELSE UNCHANGED cpVars
    /\ IF p = "cmp" THEN TRUE ELSE UNCHANGED cmVars
    /\ IF p = "home" THEN TRUE ELSE UNCHANGED hmVars
    /\ IF p = "audit" THEN TRUE ELSE UNCHANGED saVars
    /\ IF p = "mqtt" THEN TRUE ELSE UNCHANGED mqVars
    /\ IF p = "perf" THEN TRUE ELSE UNCHANGED pfVars
    /\ IF p = "picker" THEN TRUE ELSE UNCHANGED tpVars
    /\ IF p = "chtab" THEN TRUE ELSE UNCHANGED ctVars

MCPagesNext ==
    \/ part = "route" /\ RouteNext /\ Rest("route")
    \/ part = "detail" /\ DetailNext /\ Rest("detail")
    \/ part = "map" /\ MapNext /\ Rest("map")
    \/ part = "top" /\ TopNext /\ Rest("top")
    \/ part = "tile" /\ TileNext /\ Rest("tile")
    \/ part = "hood" /\ NbNext /\ Rest("hood")
    \/ part = "ana" /\ AnaNext /\ Rest("ana")
    \/ part = "graph" /\ GraphNext /\ Rest("graph")
    \/ part = "rfh" /\ RfNext /\ Rest("rfh")
    \/ part = "nodes" /\ NodesNext /\ Rest("nodes")
    \/ part = "ndetail" /\ DetailsNext /\ Rest("ndetail")
    \/ part = "reach" /\ ReachNext /\ Rest("reach")
    \/ part = "rx" /\ RxNext /\ Rest("rx")
    \/ part = "obs" /\ ObsNext /\ Rest("obs")
    \/ part = "charts" /\ ChartPagesNext /\ Rest("charts")
    \/ part = "cmp" /\ CompareNext /\ Rest("cmp")
    \/ part = "home" /\ HomeNext /\ Rest("home")
    \/ part = "audit" /\ AuditNext /\ Rest("audit")
    \/ part = "mqtt" /\ MqttNext /\ Rest("mqtt")
    \/ part = "perf" /\ PerfNext /\ Rest("perf")
    \/ part = "picker" /\ PickerNext /\ Rest("picker")
    \/ part = "chtab" /\ ChannelsTabNext /\ Rest("chtab")

MCPagesSpec == MCPagesInit /\ [][MCPagesNext]_pagesAllVars
    /\ WF_anVars(part = "ana" /\ refreshTick("roles") /\ Rest("ana"))

(* Route overlays, markers, tiles and side panes are those of what was
   asked for last, and leaving takes them down. *)
MapConsistent ==
    /\ WayBackToMarkers
    /\ LeavingTakesItDown
    /\ OneListenerEach
    /\ OneOverlay
    /\ RowsAnswer
    /\ DetailBounded
    /\ OnePanelOpen
    /\ DrawnIsLoaded
    /\ PendingDrawnOnce
    /\ MapListensOnce
    /\ OneTopLayer
    /\ TopFollowsControls
    /\ TilesOfTheme
    /\ HoodOfReference
    /\ OneSectionOpen

(* The node list, its panel, the reach and the coverage pages show what the
   controls say, on one map each. *)
NodesConsistent ==
    /\ RowsFollowFilters
    /\ RowsOfRegion
    /\ PanelOfSelected
    /\ MapOfShown
    /\ ReachOneMap
    /\ CoverageAgrees
    /\ RxLinkReproduces
    /\ RxDrawsChoice

(* A late answer starts no interval that outlives its tab, a link reproduces
   the health view, and the observer list never goes back. *)
PagesProgress ==
    /\ LateIntervalEnds
    /\ LinkReproduces
    /\ ListGoesForward
============================================================================
