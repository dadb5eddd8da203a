--------------------------------- MODULE SmallPages ---------------------------------
(***************************************************************************)
(* The list of observers (public/observers.js), the pages of an observer   *)
(* and of a node with Chart.js charts (public/observer-detail.js,          *)
(* public/node-analytics.js) and the comparison of two observers           *)
(* (public/compare.js).                                                    *)
(***************************************************************************)
EXTENDS Integers, FiniteSets

CONSTANTS Observers,
          MaxObsLoads,  \* loads of the list in one behaviour
          MaxCharts,    \* loads of chart pages in one behaviour
          MaxRuns       \* comparisons in one behaviour

ASSUME ObserverPagesAssumption == MaxObsLoads \in Nat /\ MaxCharts \in Nat /\ MaxRuns \in Nat

(***************************************************************************)
(* The list.  A region is the set of its observers.                        *)
(***************************************************************************)
VARIABLES obOn, loadObserversReqId,
          obWait,       \* requests under way
          obData,       \* observers: [of, rows], of the request it came with
          obRegion,
          obShows,      \* "loading", "error", "empty" or "table"
          obListed, obBoxes,
          obCount       \* the number on the compare button

obVars == <<obOn, loadObserversReqId, obWait, obData, obRegion, obShows, obListed, obBoxes, obCount>>

NoData == [of |-> 0, rows |-> {}]
ObsInit ==
    /\ obOn = FALSE /\ loadObserversReqId = 0 /\ obWait = {} /\ obData = NoData /\ obRegion = Observers
    /\ obShows = "loading" /\ obListed = {} /\ obBoxes = {} /\ obCount = 0

\* render: a table of the region's observers, ticks kept, or the sentence
\* that there are none, which leaves the button as it is.
keepTicks(boxes, listed) == boxes \intersect listed
updateCompareSelectedState == obCount' = Cardinality(obBoxes')
renderUncounted(rows) ==
    LET filtered == rows \intersect obRegion' IN
    /\ obListed' = filtered /\ obBoxes' = keepTicks(obBoxes, filtered) /\ UNCHANGED obCount
    /\ obShows' = IF filtered = {} THEN "empty" ELSE "table"
renderObservers(rows) ==
    LET filtered == rows \intersect obRegion' IN
    /\ obListed' = filtered /\ obBoxes' = keepTicks(obBoxes, filtered)
    /\ IF filtered = {} THEN obShows' = "empty" /\ UNCHANGED obCount
       ELSE obShows' = "table" /\ updateCompareSelectedState

loadObservers ==
    /\ loadObserversReqId < MaxObsLoads
    /\ loadObserversReqId' = loadObserversReqId + 1 /\ obWait' = obWait \union {loadObserversReqId'}
initObservers ==
    /\ ~obOn /\ obOn' = TRUE /\ obShows' = "loading" /\ obListed' = {} /\ obBoxes' = {} /\ obCount' = 0
    /\ loadObservers /\ UNCHANGED <<obData, obRegion>>
\* The interval, a packet over the socket, the refresh button.
refreshObservers ==
    obOn /\ loadObservers /\ UNCHANGED <<obOn, obData, obRegion, obShows, obListed, obBoxes, obCount>>
anyRequest(id) == TRUE

newestRequest(id) == id = loadObserversReqId
observersArrive(id, rows) ==
    /\ id \in obWait /\ obWait' = obWait \ {id}
    /\ UNCHANGED <<obOn, loadObserversReqId, obRegion>>
    /\ IF ~newestRequest(id) THEN UNCHANGED <<obData, obShows, obListed, obBoxes, obCount>>
       ELSE /\ obData' = [of |-> id, rows |-> rows]
            /\ IF obOn THEN renderObservers(rows) ELSE UNCHANGED <<obShows, obListed, obBoxes, obCount>>
observersFail(id) ==
    /\ id \in obWait /\ obWait' = obWait \ {id}
    /\ IF newestRequest(id) /\ obOn THEN obShows' = "error" /\ obListed' = {} /\ obBoxes' = {}
       ELSE UNCHANGED <<obShows, obListed, obBoxes>>
    /\ UNCHANGED <<obOn, loadObserversReqId, obData, obRegion, obCount>>
regionOfObservers(r) ==
    /\ obOn /\ obRegion' = r /\ renderObservers(obData.rows)
    /\ UNCHANGED <<obOn, loadObserversReqId, obWait, obData>>
tick(o) ==
    /\ obOn /\ obShows = "table" /\ o \in obListed
    /\ obBoxes' = (obBoxes \ {o}) \union ({o} \ obBoxes)
    /\ updateCompareSelectedState
    /\ UNCHANGED <<obOn, loadObserversReqId, obWait, obData, obRegion, obShows, obListed>>
destroyObservers ==
    /\ obOn /\ obOn' = FALSE /\ obData' = NoData
    /\ UNCHANGED <<loadObserversReqId, obWait, obRegion, obShows, obListed, obBoxes, obCount>>

ObsNext ==
    \/ initObservers \/ refreshObservers \/ destroyObservers
    \/ \E id \in obWait, rows \in SUBSET Observers : observersArrive(id, rows)
    \/ \E id \in obWait : observersFail(id)
    \/ \E r \in {Observers, {}} \union {{o} : o \in Observers} : regionOfObservers(r)
    \/ \E o \in Observers : tick(o)

\* The list never goes back to an older answer while the page is open
\* (_loadObserversReqId), and while a table stays on the screen its refresh
\* takes no tick from an observer that is still listed.
ListGoesForward ==
    [][obOn /\ obOn' =>
        /\ obData'.of >= obData.of
        /\ (obShows = "table" /\ obShows' = "table" /\ obData' # obData) => obBoxes \intersect obListed' \subseteq obBoxes']_obVars

\* The compare button counts the ticks of the table that is shown: ticks go
\* with rows that leave, by a refresh or by the region.
CompareButtonAgrees == (obOn /\ obShows = "table") => obBoxes \subseteq obListed /\ obCount = Cardinality(obBoxes)

(***************************************************************************)
(* Pages with charts.                                                      *)
(***************************************************************************)
NoPage == "none"

VARIABLES cpPage,       \* the page that is open
          cpLoad,       \* number of the last load
          cpWaits,      \* [id, page, at]
          cpCanvas,     \* the load whose canvases are in the DOM, 0 for none
          cpAlive,      \* Chart.js objects: [what, of, canvas], the answer and the canvas
          cpCharts,     \* charts: those the page remembers
          cpLate        \* history: a load was started, or the page left, with an answer under way

cpVars == <<cpPage, cpLoad, cpWaits, cpCanvas, cpAlive, cpCharts, cpLate>>

ChartPagesInit == cpPage = NoPage /\ cpLoad = 0 /\ cpWaits = {} /\ cpCanvas = 0 /\ cpAlive = {} /\ cpCharts = {} /\ cpLate = FALSE

forgetCharts == UNCHANGED cpAlive /\ cpCharts' = {}

destroyCharts == cpAlive' = cpAlive \ cpCharts /\ cpCharts' = {}
\* A constructor, and push.
newCharts(cs) == cpAlive' = cpAlive \union cs /\ cpCharts' = cpCharts \union cs
chart(what, of, canvas) == [what |-> what, of |-> of, canvas |-> canvas]

asks(page) ==
    /\ cpLoad < MaxCharts /\ cpLoad' = cpLoad + 1
    /\ cpWaits' = cpWaits \union {[id |-> cpLoad', page |-> page, at |-> "data"]}
    /\ cpLate' = (cpLate \/ cpWaits # {})
\* loadAnalytics puts a line in the place of the canvases at once, loadDetail
\* leaves them until the answer.
loadAnalytics == asks("node") /\ destroyCharts /\ cpCanvas' = 0
loadDetail(canvas) == asks("observer") /\ destroyCharts /\ cpCanvas' = canvas
openNodeStats == cpPage = NoPage /\ cpPage' = "node" /\ loadAnalytics
openObserverDetail == cpPage = NoPage /\ cpPage' = "observer" /\ loadDetail(0)
changeNodeDays == cpPage = "node" /\ loadAnalytics /\ UNCHANGED cpPage
changeObserverDays == cpPage = "observer" /\ loadDetail(cpCanvas) /\ UNCHANGED cpPage
leaving ==
    /\ cpPage' = NoPage /\ destroyCharts /\ cpCanvas' = 0
    /\ cpLate' = (cpLate \/ cpWaits # {})
    /\ UNCHANGED <<cpLoad, cpWaits>>
leaveNodeStats == cpPage = "node" /\ leaving
leaveObserverDetail == cpPage = "observer" /\ leaving

buildActivityChart(id) == {chart("activity", id, id)}
buildSnrChart(id) == {chart("snr", id, id)}
buildPacketTypeChart(id) == {chart("types", id, id)}
buildObserverChart(id) == {chart("observers", id, id)}
buildHopChart(id) == {chart("hops", id, id)}
\* The node's page writes into its container wherever the user is; the
\* battery is asked for last.
analyticsArrive(w) ==
    /\ w.at = "data" /\ w.page = "node" /\ cpWaits' = (cpWaits \ {w}) \union {[w EXCEPT !.at = "battery"]}
    /\ cpCanvas' = w.id
    /\ newCharts(buildActivityChart(w.id) \union buildSnrChart(w.id) \union buildPacketTypeChart(w.id)
                 \union buildObserverChart(w.id) \union buildHopChart(w.id))
    /\ UNCHANGED <<cpPage, cpLoad, cpLate>>
analyticsFail(w) ==
    /\ w.at = "data" /\ w.page = "node" /\ cpWaits' = cpWaits \ {w} /\ cpCanvas' = 0
    /\ UNCHANGED <<cpPage, cpLoad, cpAlive, cpCharts, cpLate>>
\* loadBatteryChart finds its canvas by name, and stops without one.
loadBatteryChart(w, samples) ==
    /\ w.at = "battery" /\ cpWaits' = cpWaits \ {w}
    /\ IF cpCanvas = 0 \/ ~samples THEN UNCHANGED <<cpAlive, cpCharts>> ELSE newCharts({chart("battery", w.id, cpCanvas)})
    /\ UNCHANGED <<cpPage, cpLoad, cpCanvas, cpLate>>

renderTimelineChart(id) == {chart("timeline", id, id)}
renderTypeChart(id) == {chart("types", id, id)}
renderNodesChart(id) == {chart("nodes", id, id)}
renderSnrChart(id) == {chart("snr", id, id)}
\* The observer's page looks for its element; a chart without data is left out.
observerArrives(w, quiet) ==
    /\ w.at = "data" /\ w.page = "observer" /\ cpWaits' = cpWaits \ {w}
    /\ IF cpPage # "observer" THEN UNCHANGED <<cpCanvas, cpAlive, cpCharts>>
       ELSE /\ cpCanvas' = w.id
            /\ newCharts(renderTypeChart(w.id) \union (IF quiet THEN {} ELSE renderTimelineChart(w.id) \union renderNodesChart(w.id) \union renderSnrChart(w.id)))
    /\ UNCHANGED <<cpPage, cpLoad, cpLate>>
observerFails(w) ==
    /\ w.at = "data" /\ w.page = "observer" /\ cpWaits' = cpWaits \ {w}
    /\ cpCanvas' = IF cpPage # "observer" THEN cpCanvas ELSE 0
    /\ UNCHANGED <<cpPage, cpLoad, cpAlive, cpCharts, cpLate>>

ChartPagesNext ==
    \/ openNodeStats \/ openObserverDetail \/ changeNodeDays \/ changeObserverDays \/ leaveNodeStats \/ leaveObserverDetail
    \/ \E w \in cpWaits : \/ analyticsArrive(w) \/ analyticsFail(w) \/ observerFails(w)
                          \/ \E s \in BOOLEAN : loadBatteryChart(w, s) \/ observerArrives(w, s)

\* As long as the user waits for every answer, each Chart.js object alive
\* stands on a canvas of the page and shows that page's load: none is left
\* behind by a change of the window or of the page.
ChartsOnPage == ~cpLate => \A c \in cpAlive : c.canvas = cpCanvas /\ c.of = cpCanvas

(***************************************************************************)
(* The comparison of two observers.                                        *)
(***************************************************************************)
Routes == {"all", "flood"}
Nobody == "nobody"
Pair(a, b) == <<a, b>>
isComparisonReady(p) == p[1] # Nobody /\ p[2] # Nobody /\ p[1] # p[2]

VARIABLES cmOn, cmControls, \* the selectors are drawn
          cmPair,       \* selA and selB
          routeFilter,
          cmRuns,       \* [id, pair, route], route the filter when it was started
          cmStarted,    \* number of runs
          comparisonResult,     \* [pair, route] or NoResult
          cmShows,      \* "nothing", "fetching", "error", "result"
          cmOverlap     \* history: a run was started while another was under way

cmVars == <<cmOn, cmControls, cmPair, routeFilter, cmRuns, cmStarted, comparisonResult, cmShows, cmOverlap>>

NoResult == [pair |-> <<Nobody, Nobody>>, route |-> "none"]
CompareInit ==
    /\ cmOn = FALSE /\ cmControls = FALSE /\ cmPair = Pair(Nobody, Nobody) /\ routeFilter = "all" /\ cmRuns = {}
    /\ cmStarted = 0 /\ comparisonResult = NoResult /\ cmShows = "nothing" /\ cmOverlap = FALSE

Choosable == Observers \union {Nobody}
runComparison(pair, route) ==
    IF ~isComparisonReady(pair) THEN UNCHANGED <<cmRuns, cmStarted, cmShows, cmOverlap>>
    ELSE /\ cmStarted < MaxRuns /\ cmStarted' = cmStarted + 1
         /\ cmRuns' = cmRuns \union {[id |-> cmStarted', pair |-> pair, route |-> route]}
         /\ cmShows' = "fetching" /\ cmOverlap' = (cmOverlap \/ cmRuns # {})
openCompare(pair) ==
    /\ ~cmOn /\ cmOn' = TRUE /\ cmControls' = FALSE /\ cmPair' = pair /\ routeFilter' = "all"
    /\ comparisonResult' = NoResult /\ cmShows' = "nothing"
    /\ UNCHANGED <<cmRuns, cmStarted, cmOverlap>>
\* loadObservers: the selectors know the observers of the list, so a link
\* may name one that they do not offer.
observersListed(listed) ==
    /\ cmOn /\ ~cmControls /\ cmControls' = TRUE
    /\ cmPair' = [i \in 1..2 |-> IF cmPair[i] \in listed THEN cmPair[i] ELSE Nobody]
    /\ runComparison(cmPair', routeFilter)
    /\ UNCHANGED <<cmOn, routeFilter, comparisonResult>>
chooseObservers(pair) ==
    /\ cmControls /\ cmPair' = pair
    /\ runComparison(pair, routeFilter)
    /\ UNCHANGED <<cmOn, cmControls, routeFilter, comparisonResult>>
chooseRoute(route) ==
    /\ cmControls /\ routeFilter' = route
    /\ IF comparisonResult # NoResult THEN runComparison(cmPair, route)
       ELSE UNCHANGED <<cmRuns, cmStarted, cmShows, cmOverlap>>
    /\ UNCHANGED <<cmOn, cmControls, cmPair, comparisonResult>>
filterThen(r) == r.route

\* The packets are filtered when they are there, by the filter of that time.
filterFor(r) == routeFilter
packetsArrive(r) ==
    /\ cmRuns' = cmRuns \ {r}
    /\ comparisonResult' = [pair |-> r.pair, route |-> filterFor(r)]
    /\ cmShows' = IF cmOn THEN "result" ELSE cmShows
    /\ UNCHANGED <<cmOn, cmControls, cmPair, routeFilter, cmStarted, cmOverlap>>
packetsFail(r) ==
    /\ cmRuns' = cmRuns \ {r} /\ cmShows' = IF cmOn THEN "error" ELSE cmShows
    /\ UNCHANGED <<cmOn, cmControls, cmPair, routeFilter, cmStarted, comparisonResult, cmOverlap>>
leaveCompare ==
    /\ cmOn /\ cmOn' = FALSE /\ cmControls' = FALSE /\ cmPair' = Pair(Nobody, Nobody) /\ routeFilter' = "all"
    /\ comparisonResult' = NoResult /\ cmShows' = "nothing"
    /\ cmOverlap' = (cmOverlap \/ cmRuns # {})
    /\ UNCHANGED <<cmRuns, cmStarted>>

CompareNext ==
    \/ \E a, b \in Choosable : openCompare(Pair(a, b)) \/ chooseObservers(Pair(a, b))
    \/ \E listed \in SUBSET Observers : observersListed(listed)
    \/ \E route \in Routes : chooseRoute(route)
    \/ \E r \in cmRuns : packetsArrive(r) \/ packetsFail(r)
    \/ leaveCompare

\* A comparison on the screen is of the packets that the menu names and,
\* unless runs overlapped, of the observers that the selectors name: a
\* filter chosen while the packets are on their way is not lost.
ComparisonOfChosen ==
    (cmShows = "result" /\ isComparisonReady(cmPair)) =>
       /\ comparisonResult.route = routeFilter
       /\ ~cmOverlap => comparisonResult.pair = cmPair

------------------------------------------------------------------------------
(***************************************************************************)
(* The home page (public/home.js): the user's own nodes are kept in        *)
(* localStorage, their cards are rebuilt by loads that overlap; search,    *)
(* the health of one node and its small map.                               *)
(***************************************************************************)

CONSTANTS HomeKeys,     \* nodes that can be claimed
          HomePlaced,   \* those with a position
          MaxHome,      \* times the page is built
          MaxHomeLoads, \* loads of the cards under way at once
          MaxHealth     \* healths asked for at once; of searches one is

ASSUME HomeAssumption == HomePlaced \subseteq HomeKeys /\ MaxHome \in Nat /\ MaxHomeLoads \in Nat /\ MaxHealth \in Nat

VARIABLES hmView,       \* "off", "chooser" or "home"
          hmInst,       \* number of the markup that is shown
          hmLevel,      \* the preference, "" before the first choice
          hmMine,       \* claimed nodes in localStorage
          hmCards,      \* cards of the grid
          hmLoads,      \* loadMyNodes under way: [id, mine]
          hmClash,      \* history: two loads of this markup overlapped
          hmTimer,      \* the search field's timer
          hmSearching,  \* a search is under way
          hmSuggest,    \* suggestions are open
          hmHealth,     \* "none", "loading", "error" or a node
          hmAsks,       \* loadHealth under way: [key, inst]
          hmMaps,       \* Leaflet maps alive
          hmMini,       \* miniMap: one of them or 0
          hmClicks      \* listeners for clicks outside the search

hmVars == <<hmView, hmInst, hmLevel, hmMine, hmCards, hmLoads, hmClash, hmTimer, hmSearching, hmSuggest, hmHealth, hmAsks, hmMaps, hmMini, hmClicks>>
searchVars == <<hmTimer, hmSearching, hmSuggest>>
healthVars == <<hmHealth, hmAsks, hmMaps, hmMini>>

HomeInit ==
    /\ hmView = "off" /\ hmInst = 0 /\ hmLevel = "" /\ hmMine = {} /\ hmCards = {} /\ hmLoads = {} /\ hmClash = FALSE
    /\ hmTimer = FALSE /\ hmSearching = FALSE /\ hmSuggest = FALSE /\ hmHealth = "none" /\ hmAsks = {}
    /\ hmMaps = {} /\ hmMini = 0 /\ hmClicks = 0

FreeLoad(loads) == 1..MaxHomeLoads \ {l.id : l \in loads}
\* Without a grid nothing; without nodes an empty one; else their healths
\* are awaited together (a health that fails makes a card too).
loadMyNodes(mine, cards, loads) ==
    IF mine = {} THEN hmCards' = {} /\ hmLoads' = loads
    ELSE /\ FreeLoad(loads) # {} /\ hmCards' = cards
         /\ hmLoads' = loads \union {[id |-> CHOOSE i \in FreeLoad(loads) : TRUE, mine |-> mine]}
Clashes == hmClash' = (hmClash \/ hmLoads # {})

keepListening == hmClicks + 1
\* The old listener goes with its AbortController.
setupSearch == 1
\* New markup: search, statistics and cards start again; answers that are
\* under way for the old one fill elements nobody sees, and are left out.
\* The map's element is gone, the map is not.
renderHome ==
    /\ hmInst < MaxHome /\ hmInst' = hmInst + 1 /\ hmView' = "home" /\ hmClicks' = setupSearch
    /\ loadMyNodes(hmMine, {}, {}) /\ hmClash' = FALSE
    /\ hmSearching' = FALSE /\ hmSuggest' = FALSE /\ hmHealth' = "none" /\ UNCHANGED <<hmMine, hmTimer, hmAsks, hmMaps, hmMini>>
showChooser == hmView' = "chooser" /\ UNCHANGED <<hmInst, hmMine, hmCards, hmLoads, hmClash, hmTimer, hmSearching, hmSuggest, hmHealth, hmAsks, hmMaps, hmMini, hmClicks>>
initHome == hmView = "off" /\ (IF hmLevel = "" THEN showChooser ELSE renderHome) /\ UNCHANGED hmLevel
choose(level) == hmView = "chooser" /\ hmLevel' = level /\ renderHome
toggleLevel == hmView = "home" /\ hmLevel' = (IF hmLevel = "new" THEN "experienced" ELSE "new") /\ renderHome
themeHome == hmView # "off" /\ (IF hmLevel = "" THEN showChooser ELSE renderHome) /\ UNCHANGED hmLevel
destroyHome ==
    /\ hmView # "off" /\ hmView' = "off" /\ hmTimer' = FALSE /\ hmClicks' = 0 /\ hmMaps' = hmMaps \ {hmMini} /\ hmMini' = 0
    /\ hmCards' = {} /\ hmLoads' = {} /\ hmSearching' = FALSE /\ hmSuggest' = FALSE /\ hmHealth' = "none"
    /\ UNCHANGED <<hmInst, hmLevel, hmMine, hmClash, hmAsks>>

homeSearchInput ==
    /\ hmView = "home" /\ \/ hmTimer' = TRUE /\ UNCHANGED hmSuggest
                          \/ hmTimer' = FALSE /\ hmSuggest' = FALSE     \* an empty field
    /\ UNCHANGED <<hmView, hmInst, hmLevel, hmMine, hmCards, hmLoads, hmClash, hmSearching, healthVars, hmClicks>>
searchTimer ==
    /\ hmTimer /\ ~hmSearching /\ hmTimer' = FALSE /\ hmSearching' = TRUE
    /\ UNCHANGED <<hmView, hmInst, hmLevel, hmMine, hmCards, hmLoads, hmClash, hmSuggest, healthVars, hmClicks>>
searchAnswers ==
    /\ hmSearching /\ hmSearching' = FALSE /\ hmSuggest' \in BOOLEAN
    /\ UNCHANGED <<hmView, hmInst, hmLevel, hmMine, hmCards, hmLoads, hmClash, hmTimer, healthVars, hmClicks>>
handleOutsideClick ==
    /\ hmClicks > 0 /\ hmSuggest /\ hmSuggest' = FALSE
    /\ UNCHANGED <<hmView, hmInst, hmLevel, hmMine, hmCards, hmLoads, hmClash, hmTimer, hmSearching, healthVars, hmClicks>>

\* The button of a suggestion takes a node away or adds it.
claimSuggested(k) ==
    /\ hmSuggest /\ hmMine' = (IF k \in hmMine THEN hmMine \ {k} ELSE hmMine \union {k})
    /\ loadMyNodes(hmMine', hmCards, hmLoads) /\ Clashes /\ UNCHANGED <<hmView, hmInst, hmLevel, searchVars, healthVars, hmClicks>>
forgetReload(k) ==
    /\ k \in hmCards /\ hmMine' = hmMine \ {k}
    /\ Clashes /\ UNCHANGED <<hmView, hmInst, hmLevel, hmCards, hmLoads, searchVars, healthVars, hmClicks>>
removeMyNode(k) ==
    /\ k \in hmCards /\ hmMine' = hmMine \ {k}
    /\ loadMyNodes(hmMine', hmCards, hmLoads) /\ Clashes /\ UNCHANGED <<hmView, hmInst, hmLevel, searchVars, healthVars, hmClicks>>
cardsArrive(l) ==
    /\ hmLoads' = hmLoads \ {l} /\ hmCards' = l.mine
    /\ UNCHANGED <<hmView, hmInst, hmLevel, hmMine, hmClash, searchVars, healthVars, hmClicks>>

\* A card, or a suggestion, which closes the list.
loadHealth(k) ==
    /\ hmView = "home" /\ (k \in hmCards \/ hmSuggest) /\ Cardinality(hmAsks) < MaxHealth
    /\ hmHealth' = "loading" /\ hmAsks' = hmAsks \union {[key |-> k, inst |-> hmInst]}
    /\ hmSuggest' \in (IF hmSuggest THEN {FALSE} ELSE {hmSuggest})
    /\ UNCHANGED <<hmView, hmInst, hmLevel, hmMine, hmCards, hmLoads, hmClash, hmTimer, hmSearching, hmMaps, hmMini, hmClicks>>
leaveOld == hmMaps
dropOld == hmMaps \ {hmMini}
NewMap == CHOOSE m \in 1..MaxHomeLoads + 1 : m \notin hmMaps
\* The map's element is looked for in the document: a late answer finds none,
\* or that of another node.
miniMapFor(k, here) ==
    LET shows == here \/ (hmView = "home" /\ hmHealth \in HomePlaced) IN
    IF k \notin HomePlaced THEN UNCHANGED <<hmMaps, hmMini>>
    ELSE IF shows THEN hmMaps' = dropOld \union {NewMap} /\ hmMini' = NewMap
    ELSE hmMaps' = dropOld /\ hmMini' = 0
healthArrives(a) ==
    LET here == a.inst = hmInst /\ hmView = "home" IN
    /\ hmAsks' = hmAsks \ {a} /\ hmHealth' = (IF here THEN a.key ELSE hmHealth) /\ miniMapFor(a.key, here)
    /\ UNCHANGED <<hmView, hmInst, hmLevel, hmMine, hmCards, hmLoads, hmClash, searchVars, hmClicks>>
healthFails(a) ==
    /\ hmAsks' = hmAsks \ {a} /\ hmHealth' = (IF a.inst = hmInst /\ hmView = "home" THEN "error" ELSE hmHealth)
    /\ UNCHANGED <<hmView, hmInst, hmLevel, hmMine, hmCards, hmLoads, hmClash, searchVars, hmMaps, hmMini, hmClicks>>
\* The button of the health card, which is there once.
claimShown ==
    /\ hmHealth \in HomeKeys \ hmMine /\ hmMine' = hmMine \union {hmHealth}
    /\ loadMyNodes(hmMine', hmCards, hmLoads) /\ Clashes /\ UNCHANGED <<hmView, hmInst, hmLevel, searchVars, healthVars, hmClicks>>

HomeNext ==
    \/ initHome \/ (\E l \in {"new", "experienced"} : choose(l)) \/ toggleLevel \/ themeHome \/ destroyHome
    \/ homeSearchInput \/ searchTimer \/ searchAnswers \/ handleOutsideClick \/ claimShown
    \/ \E k \in HomeKeys : claimSuggested(k) \/ removeMyNode(k) \/ loadHealth(k)
    \/ \E l \in hmLoads : cardsArrive(l)
    \/ \E a \in hmAsks : healthArrives(a) \/ healthFails(a)

\* Once its loads are through and none of them overlapped with another, the
\* page has a card for each node in localStorage and for no other, whichever
\* of the four buttons changed them (loadMyNodes at every change).
CardsAreMine == (hmView = "home" /\ hmLoads = {} /\ ~hmClash) => hmCards = hmMine
\* However often the page is built again, one listener waits for clicks
\* outside its search, and none once it is left (searchAbort).
OneOutsideListener == hmClicks = (IF hmView = "home" THEN 1 ELSE 0)
\* One small map at most is alive, the one the page can still remove; leaving
\* removes it, and an answer that comes later starts none.
OneMiniMap == hmMaps \subseteq {hmMini} /\ (hmView = "off" => hmMaps = {})

(* The observer, comparison and home pages show the chosen ones. *)
SmallPagesConsistent ==
    /\ CompareButtonAgrees
    /\ ChartsOnPage
    /\ ComparisonOfChosen
    /\ CardsAreMine
    /\ OneOutsideListener
    /\ OneMiniMap
==============================================================================
