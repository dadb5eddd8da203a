------------------------------ MODULE ReachPages ------------------------------
(***************************************************************************)
(* The page of a node's reach (public/node-reach.js, node-reach-map.js,    *)
(* node-reach-coverage.js) and the page of the mobile clients' coverage    *)
(* (public/rx-coverage.js): answers, Leaflet maps and layers that must not *)
(* outlive what asked for them.                                            *)
(***************************************************************************)
EXTENDS Integers, FiniteSets

CONSTANTS ReachKeys,    \* nodes whose reach is opened
          MaxReach,     \* loads of one behaviour
          Receivers,    \* mobile observers of the coverage page
          MaxRx         \* its requests under way at once

ASSUME ReachAssumption == MaxReach \in Nat /\ MaxRx \in Nat

(***************************************************************************)
(* The reach of a node.                                                    *)
(***************************************************************************)
Days == {1, 7}
DEFAULT_DAYS == 7
Closed == [what |-> "closed"]
Loading == [what |-> "loading"]
Page(what, key, days) == [what |-> what, key |-> key, days |-> days]
Question(key, days) == [key |-> key, days |-> days]

VARIABLES rcAsked,      \* history: the node and window asked for last, Closed when left
          loadGen,
          rcLoads,      \* [gen, key, days, first, at]
          rcShows,      \* what the container shows
          qmap,         \* the load whose map it is, 0 for none
          rcMaps,       \* Leaflet maps alive
          covHandle,    \* the map that has the coverage layer, 0 for none
          rcLayers,     \* coverage layers alive
          coverageOn, rcBox, rcLines,
          rcUrl         \* the link says coverage=1

rcVars == <<rcAsked, loadGen, rcLoads, rcShows, qmap, rcMaps, covHandle, rcLayers, coverageOn, rcBox, rcLines, rcUrl>>

ReachInit ==
    /\ rcAsked = Closed /\ loadGen = 0 /\ rcLoads = {} /\ rcShows = Closed /\ qmap = 0 /\ rcMaps = {}
    /\ covHandle = 0 /\ rcLayers = {} /\ coverageOn = FALSE /\ rcBox = FALSE /\ rcLines = FALSE /\ rcUrl = FALSE

reachLoad(key, days, first) ==
    /\ loadGen < MaxReach
    /\ loadGen' = loadGen + 1
    /\ rcLoads' = rcLoads \union {[gen |-> loadGen', key |-> key, days |-> days, first |-> first, at |-> "config"]}
    /\ rcAsked' = Question(key, days)

openReach(key) ==
    /\ rcAsked = Closed
    /\ rcUrl' \in BOOLEAN
    /\ reachLoad(key, DEFAULT_DAYS, TRUE)
    /\ UNCHANGED <<rcShows, qmap, rcMaps, covHandle, rcLayers, coverageOn, rcBox, rcLines>>

\* wireTimeRange: the buttons of the page that is shown.
chooseDays(days) ==
    /\ rcShows.what \in {"report", "bare"}
    /\ reachLoad(rcShows.key, days, FALSE)
    /\ UNCHANGED <<rcShows, qmap, rcMaps, covHandle, rcLayers, coverageOn, rcBox, rcLines, rcUrl>>

keepMap ==
    /\ qmap' = 0 /\ covHandle' = 0 /\ UNCHANGED <<rcMaps, rcLayers>>

dropMap ==
    /\ qmap' = 0 /\ rcMaps' = rcMaps \ {qmap} /\ covHandle' = 0 /\ rcLayers' = rcLayers \ {covHandle}

\* Past MeshConfigReady: the old map goes, the old page stays but for a
\* first load.
configReady(l) ==
    /\ l.at = "config"
    /\ IF l.gen # loadGen
       THEN rcLoads' = rcLoads \ {l} /\ UNCHANGED <<rcShows, qmap, rcMaps, covHandle, rcLayers, coverageOn>>
       ELSE /\ rcLoads' = (rcLoads \ {l}) \union {[l EXCEPT !.at = "data"]}
            /\ coverageOn' = rcUrl
            /\ dropMap
            /\ rcShows' = IF l.first THEN Loading ELSE rcShows
    /\ UNCHANGED <<rcAsked, loadGen, rcBox, rcLines, rcUrl>>

\* applyCoverage, after the table has been painted.
applyCoverage(on, map) ==
    /\ covHandle' = IF on THEN map ELSE 0
    /\ rcLayers' = IF on /\ map # 0 THEN rcLayers \union {map} ELSE rcLayers \ {covHandle}
    /\ rcLines' = (map # 0 /\ ~on)

acceptsAny(l) == TRUE

accepts(l) == l.gen = loadGen

\* A node that no prefix identifies, or without links, has a page without
\* map; so has one without position.
dataArrives(l, what, placed) ==
    /\ l.at = "data" /\ rcLoads' = rcLoads \ {l}
    /\ IF ~accepts(l) THEN UNCHANGED <<rcShows, qmap, rcMaps, covHandle, rcLayers, rcBox, rcLines>>
       ELSE /\ rcShows' = Page(what, l.key, l.days)
            /\ IF what = "report"
               THEN /\ qmap' = IF placed THEN l.gen ELSE qmap
                    /\ rcMaps' = IF placed THEN rcMaps \union {l.gen} ELSE rcMaps
                    /\ rcBox' = coverageOn
                    /\ applyCoverage(coverageOn, qmap')
               ELSE UNCHANGED <<qmap, rcMaps, covHandle, rcLayers, rcBox, rcLines>>
    /\ UNCHANGED <<rcAsked, loadGen, coverageOn, rcUrl>>
dataFails(l) ==
    /\ l.at = "data" /\ rcLoads' = rcLoads \ {l}
    /\ rcShows' = IF accepts(l) THEN Page("error", l.key, l.days) ELSE rcShows
    /\ UNCHANGED <<rcAsked, loadGen, qmap, rcMaps, covHandle, rcLayers, coverageOn, rcBox, rcLines, rcUrl>>

keepHash(on) == UNCHANGED rcUrl

setCoverageHash(on) == rcUrl' = on
coverageBox ==
    /\ rcShows.what = "report"
    /\ rcBox' = ~rcBox /\ coverageOn' = rcBox'
    /\ setCoverageHash(coverageOn')
    /\ applyCoverage(coverageOn', qmap)
    /\ UNCHANGED <<rcAsked, loadGen, rcLoads, rcShows, qmap, rcMaps>>

destroyReach ==
    /\ rcAsked # Closed /\ loadGen < MaxReach
    /\ loadGen' = loadGen + 1
    /\ dropMap
    /\ rcAsked' = Closed /\ rcShows' = Closed /\ rcUrl' = FALSE
    /\ UNCHANGED <<rcLoads, coverageOn, rcBox, rcLines>>

ReachNext ==
    \/ \E k \in ReachKeys : openReach(k)
    \/ \E d \in Days : chooseDays(d)
    \/ \E l \in rcLoads :
          \/ configReady(l)
          \/ \E what \in {"report", "bare"}, placed \in BOOLEAN : dataArrives(l, what, placed)
          \/ dataFails(l)
    \/ coverageBox
    \/ destroyReach
ReachSpec == ReachInit /\ [][ReachNext]_rcVars

\* No Leaflet map or coverage layer
\* outlives it: load and destroy take down what the one before has built,
\* and no answer builds for a load that is not the newest.
ReachOneMap ==
    /\ rcMaps = {qmap} \ {0} /\ rcLayers = {covHandle} \ {0} /\ rcLayers \subseteq rcMaps
    /\ rcAsked = Closed => rcMaps = {}

\* Box, link and map agree on the coverage: links are drawn or cells are,
\* also after a reload that reads the choice back from the link.
CoverageAgrees ==
    rcShows.what = "report" =>
       /\ rcBox = coverageOn /\ rcUrl = coverageOn
       /\ qmap # 0 => /\ rcLines = ~coverageOn
                      /\ (covHandle = qmap) = coverageOn

\* The page implements NewestAnswer.
NR == INSTANCE NewestAnswer WITH
        Questions <- {Question(k, d) : k \in ReachKeys, d \in Days},
        None <- Closed,
        wanted <- rcAsked,
        shown <- IF rcShows.what \in {"report", "bare", "error"} THEN Question(rcShows.key, rcShows.days) ELSE Closed
\* Whatever loads overlap, load and destroy of the reach page let only the
\* newest answer through (loadGen).
ReachNewest == NR!Spec

(***************************************************************************)
(* Coverage of the mobile clients.                                         *)
(***************************************************************************)
NoReceiver == "all"
Choice(days, rx) == [days |-> days, rx |-> rx]

VARIABLES rxOn,         \* not destroyed
          rxConfig,     \* MeshConfigReady
          rxInits,      \* inits that wait for it
          rxStarted,    \* map # null
          rxChoice,     \* days and selectedRx
          rxUrl,
          rxTimer,      \* start's timer
          rxReqs,       \* [id, kind, choice]
          rxSeen        \* history: choices drawn, or failed to draw, since the last change

rxVars == <<rxOn, rxConfig, rxInits, rxStarted, rxChoice, rxUrl, rxTimer, rxReqs, rxSeen>>

RxInit ==
    /\ rxOn = FALSE /\ rxConfig = FALSE /\ rxInits = 0 /\ rxStarted = FALSE /\ rxChoice = Choice(DEFAULT_DAYS, NoReceiver)
    /\ rxUrl = rxChoice /\ rxTimer = FALSE /\ rxReqs = {} /\ rxSeen = {}

RxSlots(reqs) == 1..MaxRx \ {r.id : r \in reqs}
request(kind, choice, reqs) ==
    /\ RxSlots(reqs) # {}
    /\ rxReqs' = reqs \union {[id |-> CHOOSE i \in RxSlots(reqs) : TRUE, kind |-> kind, choice |-> choice]}
drawCoverage(choice, reqs) == IF rxStarted /\ rxOn THEN request("draw", choice, reqs) ELSE rxReqs' = reqs

\* start, for each init that waited: the choice is read from the link.
start ==
    /\ rxStarted' = TRUE /\ rxChoice' = rxUrl /\ rxTimer' = TRUE /\ rxSeen' = {}
initRx(choice) ==
    /\ ~rxOn /\ rxInits < 2
    /\ rxOn' = TRUE /\ rxUrl' = choice
    /\ IF rxConfig THEN rxStarted' = TRUE /\ rxChoice' = choice /\ rxTimer' = TRUE /\ rxSeen' = {} /\ UNCHANGED rxInits
       ELSE rxInits' = rxInits + 1 /\ UNCHANGED <<rxStarted, rxChoice, rxTimer, rxSeen>>
    /\ UNCHANGED <<rxConfig, rxReqs>>
configRx ==
    /\ ~rxConfig /\ rxConfig' = TRUE /\ rxInits' = 0
    /\ IF rxOn /\ rxInits > 0 THEN start ELSE UNCHANGED <<rxStarted, rxChoice, rxTimer, rxSeen>>
    /\ UNCHANGED <<rxOn, rxUrl, rxReqs>>
leaveRx ==
    /\ rxOn
    /\ rxOn' = FALSE /\ rxStarted' = FALSE
    /\ UNCHANGED <<rxConfig, rxInits, rxChoice, rxUrl, rxTimer, rxReqs, rxSeen>>

fitToObserver(choice, reqs) == request("extent", choice, reqs)
rxTimerFires ==
    /\ rxTimer /\ rxTimer' = FALSE
    /\ IF ~rxOn \/ ~rxStarted THEN UNCHANGED rxReqs
       ELSE IF rxChoice.rx # NoReceiver THEN fitToObserver(rxChoice, rxReqs) ELSE drawCoverage(rxChoice, rxReqs)
    /\ UNCHANGED <<rxOn, rxConfig, rxInits, rxStarted, rxChoice, rxUrl, rxSeen>>
skipSync == UNCHANGED rxUrl

syncHash == rxUrl' = rxChoice'
activate(rx) ==
    /\ rxStarted /\ rxChoice' = [rxChoice EXCEPT !.rx = rx] /\ rxSeen' = {}
    /\ fitToObserver(rxChoice', rxReqs) /\ syncHash
    /\ UNCHANGED <<rxOn, rxConfig, rxInits, rxStarted, rxTimer>>
showAll ==
    /\ rxStarted /\ rxChoice.rx # NoReceiver
    /\ rxChoice' = [rxChoice EXCEPT !.rx = NoReceiver] /\ rxSeen' = {}
    /\ drawCoverage(rxChoice', rxReqs) /\ syncHash
    /\ UNCHANGED <<rxOn, rxConfig, rxInits, rxStarted, rxTimer>>
setDays(d) ==
    /\ rxStarted /\ rxChoice' = [rxChoice EXCEPT !.days = d] /\ rxSeen' = {}
    /\ drawCoverage(rxChoice', rxReqs) /\ syncHash
    /\ UNCHANGED <<rxOn, rxConfig, rxInits, rxStarted, rxTimer>>
\* moveend and zoomend.
moveRxMap ==
    /\ rxStarted /\ drawCoverage(rxChoice, rxReqs)
    /\ UNCHANGED <<rxOn, rxConfig, rxInits, rxStarted, rxChoice, rxUrl, rxTimer, rxSeen>>

\* An answer, or its failure, which leaves the layer as it is.
coverageAnswers(r) ==
    /\ r.kind = "draw" /\ rxReqs' = rxReqs \ {r}
    /\ rxSeen' = IF rxOn /\ rxStarted THEN rxSeen \union {r.choice} ELSE rxSeen
    /\ UNCHANGED <<rxOn, rxConfig, rxInits, rxStarted, rxChoice, rxUrl, rxTimer>>
drawIfAny(any, reqs) == IF any THEN drawCoverage(rxChoice, reqs) ELSE rxReqs' = reqs

\* The cells are drawn whether the extent is known, empty or failed.
drawAfterExtent(any, reqs) == drawCoverage(rxChoice, reqs)
extentAnswers(r, any) ==
    /\ r.kind = "extent"
    /\ IF ~rxOn \/ ~rxStarted THEN rxReqs' = rxReqs \ {r} ELSE drawAfterExtent(any, rxReqs \ {r})
    /\ UNCHANGED <<rxOn, rxConfig, rxInits, rxStarted, rxChoice, rxUrl, rxTimer, rxSeen>>

RxNext ==
    \/ \E d \in Days, rx \in Receivers \union {NoReceiver} : initRx(Choice(d, rx))
    \/ configRx \/ leaveRx \/ rxTimerFires \/ showAll \/ moveRxMap
    \/ \E rx \in Receivers : activate(rx)
    \/ \E d \in Days : setDays(d)
    \/ \E r \in rxReqs : coverageAnswers(r) \/ \E any \in BOOLEAN : extentAnswers(r, any)

\* The link opens the page as it stands: every change of the window or of
\* the observer is followed by syncHash.
RxLinkReproduces == rxStarted => rxUrl = rxChoice

\* A choice is drawn: when nothing is under way, the cells of the choice
\* have been asked for and answered since it was made, also when the
\* observer's extent is empty or cannot be had.
RxDrawsChoice == (rxOn /\ rxStarted /\ ~rxTimer /\ rxReqs = {}) => rxChoice \in rxSeen
================================================================================
