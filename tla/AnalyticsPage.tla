----------------------------- MODULE AnalyticsPage -----------------------------
(***************************************************************************)
(* The analytics page (public/analytics.js) where its handlers meet: the   *)
(* tabs with the intervals that refresh two of them, the neighbour graph   *)
(* with its animation loop, and the RF health tab with the link that       *)
(* reproduces it.  The three parts share no state but the tab.             *)
(***************************************************************************)
EXTENDS Integers, FiniteSetsExt

CONSTANTS MaxIv,        \* bound on the intervals alive at once
          MaxWaits,     \* bound on the requests under way
          MaxFrames     \* bound on the animation frames asked for

ASSUME AnalyticsAssumption == MaxIv \in Nat /\ MaxWaits \in Nat /\ MaxFrames \in Nat

AnTabs == {"overview", "roles", "scopes"}

-----------------------------------------------------------------------------
\* Tabs and refresh intervals.  A tab's interval is known by the variable
\* that was given it last (0: none); one that is not is never cleared.
VARIABLES anOn,         \* the page is mounted
          anTab,        \* _currentTab: survives a visit
          anLoads,      \* loadAnalytics under way
          anRoleWait,   \* renderRolesTab waiting for its first answer
          anIv,         \* tab -> live intervals
          anVar         \* tab -> the interval its variable holds

anVars == <<anOn, anTab, anLoads, anRoleWait, anIv, anVar>>
Refreshed == {"roles", "scopes"}

AnaInit ==
    /\ anOn = FALSE /\ anTab = "overview" /\ anLoads = 0 /\ anRoleWait = 0
    /\ anIv = [t \in Refreshed |-> {}] /\ anVar = [t \in Refreshed |-> 0]

\* _stopRolesRefresh, _stopScopesRefresh: for the tabs of S.
stopIv(S, iv) == [t \in Refreshed |-> IF t \in S THEN iv[t] \ {anVar[t]} ELSE iv[t]]
stopVar(S) == [t \in Refreshed |-> IF t \in S THEN 0 ELSE anVar[t]]

startOnly(t, others) ==
    LET iv == stopIv(others, anIv)
        new == Min(1..MaxIv \ iv[t])
    IN  /\ Cardinality(iv[t]) < MaxIv
        /\ anIv' = [iv EXCEPT ![t] = @ \union {new}]
        /\ anVar' = [stopVar(others) EXCEPT ![t] = new]

\* Stop the tab's interval and start one; others are tabs left just before.
restart(t, others) ==
    LET iv == stopIv(others \union {t}, anIv)
        new == Min(1..MaxIv \ iv[t])
    IN  /\ Cardinality(iv[t]) < MaxIv
        /\ anIv' = [iv EXCEPT ![t] = @ \union {new}]
        /\ anVar' = [stopVar(others) EXCEPT ![t] = new]

\* Scopes starts its interval at once, roles after the first answer.
renderTab(t, others) ==
    CASE t = "roles" -> /\ anRoleWait < MaxWaits /\ anRoleWait' = anRoleWait + 1
                        /\ anIv' = stopIv(others, anIv) /\ anVar' = stopVar(others)
      [] t = "scopes" -> restart("scopes", others) /\ UNCHANGED anRoleWait
      [] OTHER -> anIv' = stopIv(others, anIv) /\ anVar' = stopVar(others) /\ UNCHANGED anRoleWait

\* A deep link names the tab; without one the last visit's stays.
openAnalytics ==
    /\ ~anOn /\ anOn' = TRUE
    /\ anTab' \in {anTab} \union AnTabs
    /\ anLoads < MaxWaits /\ anLoads' = anLoads + 1
    /\ UNCHANGED <<anRoleWait, anIv, anVar>>
clickTab ==
    \E t \in AnTabs :
       /\ anOn /\ anTab' = t
       /\ renderTab(t, Refreshed \ {t})
       /\ UNCHANGED <<anOn, anLoads>>
\* Region, area or window: everything is fetched again.
reloadAnalytics == anOn /\ anLoads < MaxWaits /\ anLoads' = anLoads + 1 /\ UNCHANGED <<anOn, anTab, anRoleWait, anIv, anVar>>
\* An answer that finds no page ends in an error nobody sees.
analyticsLoaded ==
    /\ anLoads > 0 /\ anLoads' = anLoads - 1
    /\ IF anOn THEN renderTab(anTab, {}) ELSE UNCHANGED <<anRoleWait, anIv, anVar>>
    /\ UNCHANGED <<anOn, anTab>>
themeRefresh == anOn /\ renderTab(anTab, {}) /\ UNCHANGED <<anOn, anTab, anLoads>>
rolesArrive ==
    /\ anRoleWait > 0 /\ anRoleWait' = anRoleWait - 1
    /\ restart("roles", {})
    /\ UNCHANGED <<anOn, anTab, anLoads>>
tickOnWrongTab(t) == anIv[t] # {} /\ UNCHANGED anVars

\* The interval gives up on another tab, or when the content is gone.
refreshTick(t) ==
    /\ anIv[t] # {}
    /\ IF anTab # t \/ ~anOn THEN anIv' = stopIv({t}, anIv) /\ anVar' = stopVar({t}) ELSE UNCHANGED <<anIv, anVar>>
    /\ UNCHANGED <<anOn, anTab, anLoads, anRoleWait>>
destroyAnalytics ==
    /\ anOn /\ anOn' = FALSE
    /\ anIv' = stopIv(Refreshed, anIv) /\ anVar' = stopVar(Refreshed)
    /\ UNCHANGED <<anTab, anLoads, anRoleWait>>

AnaNext ==
    \/ openAnalytics \/ clickTab \/ reloadAnalytics \/ analyticsLoaded \/ themeRefresh
    \/ rolesArrive \/ destroyAnalytics \/ \E t \in Refreshed : refreshTick(t)

\* Whatever is rendered twice or late, a tab has one interval at most, and
\* the variable holds it, so that the next switch can stop it.
OneRefresher == \A t \in Refreshed : anIv[t] \subseteq {anVar[t]}
\* The interval of an answer that comes after its tab or its page was left
\* does not outlive its first tick.
LateIntervalEnds == (anTab # "roles" \/ ~anOn) ~> (anIv["roles"] = {} \/ (anOn /\ anTab = "roles"))

-----------------------------------------------------------------------------
\* The neighbour graph.  Three nodes stand for the graph, one of them an
\* observer; over the limit the simulation is skipped.  A frame belongs to
\* the run (epoch) of the state that asked for it.
VARIABLES ngBoxes,      \* roles checked in the DOM
          ngScore,      \* the slider in the DOM: is it high?
          ngDom,        \* the tab's markup is there
          ngWaits,      \* renderings that wait for the graph
          ngId,         \* which state object _ngState is, 0: null
          ngEpoch,      \* its _runEpoch
          ngAnim,       \* its animId: the frame it could cancel, or NoFrame
          ngShown,      \* nodes displayed
          ngDebounce,   \* the slider's timer is running
          ngFrames,     \* frames asked for: [id, epoch]
          ngUser        \* history: the roles the user has chosen on this tab

ngVars == <<ngBoxes, ngScore, ngDom, ngWaits, ngId, ngEpoch, ngAnim, ngShown, ngDebounce, ngFrames, ngUser>>
NgRoles == {"repeater", "companion", "observer"}
NgDefault == NgRoles \ {"observer"}
NgLimit == 2            \* NODE_LIMIT: the whole graph is over it
NoFrame == [id |-> 0, epoch |-> 0]

GraphInit ==
    /\ ngBoxes = NgDefault /\ ngScore = FALSE /\ ngDom = FALSE /\ ngWaits = 0 /\ ngId = 0 /\ ngEpoch = 0
    /\ ngAnim = NoFrame /\ ngShown = {} /\ ngDebounce = FALSE /\ ngFrames = {} /\ ngUser = NgDefault

\* Edges repeater-companion (weak) and repeater-observer (strong): an edge
\* needs both ends, a node needs an edge.
ngEdges(boxes, high) == {e \in {{"repeater", "companion"}, {"repeater", "observer"}} : e \subseteq boxes /\ (high => "observer" \in e)}
ngFilter(boxes, high) == UNION ngEdges(boxes, high)

startKeepsRun(id, epoch, anim, shown) ==
    LET f == [id |-> id, epoch |-> 1]
    IN  /\ Cardinality(ngFrames) < MaxFrames /\ epoch < MaxFrames
        /\ ngEpoch' = 1
        /\ IF Cardinality(shown) > NgLimit THEN ngAnim' = NoFrame /\ ngFrames' = ngFrames ELSE ngAnim' = f /\ ngFrames' = ngFrames \union {f}

\* startGraphRenderer: cancel the frame, bump the epoch, and ask for a frame
\* unless the displayed set is too large.
startGraphRenderer(id, epoch, anim, shown) ==
    LET f == [id |-> id, epoch |-> epoch + 1]
        kept == ngFrames \ {anim}
    IN  /\ Cardinality(kept) < MaxFrames /\ epoch < MaxFrames
        /\ ngEpoch' = epoch + 1
        /\ IF Cardinality(shown) > NgLimit
           THEN ngAnim' = NoFrame /\ ngFrames' = kept
           ELSE ngAnim' = f /\ ngFrames' = kept \union {f}
applyNGFilters(id, epoch, anim) ==
    /\ ngShown' = ngFilter(ngBoxes, ngScore)
    /\ startGraphRenderer(id, epoch, anim, ngFilter(ngBoxes, ngScore))

\* The markup is written before the graph is asked for: boxes are back at
\* their defaults, the old state and its loop live on until the answer.
renderGraph ==
    /\ ngWaits < MaxWaits /\ ngWaits' = ngWaits + 1 /\ ngDom' = TRUE
    /\ ngBoxes' = NgDefault /\ ngScore' = FALSE
    /\ UNCHANGED <<ngId, ngEpoch, ngAnim, ngShown, ngDebounce, ngFrames>>
openGraph == renderGraph /\ ngUser' = NgDefault
\* Without the markup the filters cannot be read: the state is left with all
\* nodes and no loop.
graphArrives ==
    /\ ngWaits > 0 /\ ngWaits' = ngWaits - 1
    /\ ngId < MaxFrames /\ ngId' = ngId + 1
    /\ IF ngDom THEN applyNGFilters(ngId + 1, 0, NoFrame)
       ELSE ngShown' = NgRoles /\ ngEpoch' = 0 /\ ngAnim' = NoFrame /\ UNCHANGED ngFrames
    /\ UNCHANGED <<ngBoxes, ngScore, ngDom, ngDebounce, ngUser>>
otherTab == ngDom /\ ngDom' = FALSE /\ UNCHANGED <<ngBoxes, ngScore, ngWaits, ngId, ngEpoch, ngAnim, ngShown, ngDebounce, ngFrames, ngUser>>
roleBoxOnly(r) ==
    /\ ngDom
    /\ ngBoxes' = (ngBoxes \ {r}) \union ({r} \ ngBoxes) /\ ngUser' = (ngUser \ {r}) \union ({r} \ ngUser)
    /\ UNCHANGED <<ngScore, ngDom, ngWaits, ngId, ngEpoch, ngAnim, ngShown, ngDebounce, ngFrames>>

\* The handlers are those of the last rendering: none before it has ended.
roleBox(r) ==
    /\ ngDom
    /\ ngBoxes' = (ngBoxes \ {r}) \union ({r} \ ngBoxes) /\ ngUser' = (ngUser \ {r}) \union ({r} \ ngUser)
    /\ IF ngWaits = 0 /\ ngId # 0
       THEN /\ ngShown' = ngFilter(ngBoxes', ngScore)
            /\ startGraphRenderer(ngId, ngEpoch, ngAnim, ngFilter(ngBoxes', ngScore))
       ELSE UNCHANGED <<ngEpoch, ngAnim, ngShown, ngFrames>>
    /\ UNCHANGED <<ngScore, ngDom, ngWaits, ngId, ngDebounce>>
scoreInput ==
    /\ ngDom /\ ngWaits = 0 /\ ngId # 0
    /\ ngScore' = ~ngScore /\ ngDebounce' = TRUE
    /\ UNCHANGED <<ngBoxes, ngDom, ngWaits, ngId, ngEpoch, ngAnim, ngShown, ngFrames, ngUser>>
scoreTimer ==
    /\ ngDebounce /\ ngDebounce' = FALSE
    /\ IF ngId # 0 /\ ngDom THEN applyNGFilters(ngId, ngEpoch, ngAnim) ELSE UNCHANGED <<ngEpoch, ngAnim, ngShown, ngFrames>>
    /\ UNCHANGED <<ngBoxes, ngScore, ngDom, ngWaits, ngId, ngUser>>
themeRebuilds == ngDom /\ renderGraph /\ UNCHANGED ngUser

\* #1925: a theme change restarts the loop of a graph that is there, and
\* renders the tab anew only if there is none.
themeChange ==
    /\ ngDom
    /\ IF ngId = 0 THEN openGraph
       ELSE startGraphRenderer(ngId, ngEpoch, ngAnim, ngShown) /\ UNCHANGED <<ngBoxes, ngScore, ngDom, ngWaits, ngId, ngShown, ngDebounce, ngUser>>
\* tick: a frame whose epoch is not the current one's is the last of its
\* run; the state it draws is the current one.
graphTick ==
    \E f \in ngFrames :
       /\ IF ~ngDom THEN ngFrames' = ngFrames \ {f} /\ ngAnim' = NoFrame
          ELSE IF f.epoch # ngEpoch THEN ngFrames' = ngFrames \ {f} /\ UNCHANGED ngAnim ELSE ngAnim' = f /\ UNCHANGED ngFrames
       /\ UNCHANGED <<ngBoxes, ngScore, ngDom, ngWaits, ngId, ngEpoch, ngShown, ngDebounce, ngUser>>

GraphNext ==
    \/ openGraph \/ graphArrives \/ (\E r \in NgRoles : roleBox(r)) \/ scoreInput \/ scoreTimer \/ otherTab \/ themeChange \/ graphTick

\* With nothing under way the graph shows what the boxes and the slider say.
GraphMatchesBoxes == (ngDom /\ ngId # 0 /\ ngWaits = 0 /\ ~ngDebounce) => ngShown = ngFilter(ngBoxes, ngScore)
\* However often the filters restart it, a graph has one loop at most; while
\* it is too large to draw it has none.
OneLoopPerGraph ==
    LET running == {f \in ngFrames : f.id = ngId /\ f.epoch = ngEpoch}
    IN  /\ Cardinality(running) <= 1
        /\ Cardinality(ngShown) > NgLimit => running = {}
\* No theme change takes back what the user has filtered since the tab was
\* rendered (one before the first answer starts the tab anew).
FiltersAreUsers == ngDom => ngBoxes = ngUser

-----------------------------------------------------------------------------
\* RF health: what is chosen, and the link that should reproduce it.
VARIABLES rfState,      \* [range, observer, from]
          rfUrl         \* parameters of the hash, "" for one that is not there

rfVars == <<rfState, rfUrl>>
RfRanges == {"24h", "7d", "custom"}
RfBlank == [range |-> "", observer |-> "", from |-> ""]
RfFresh == [range |-> "24h", observer |-> "", from |-> ""]
RfInit == rfState = RfFresh /\ rfUrl = RfBlank

rfHashOfRange(s) == [range |-> IF s.range = "24h" THEN "" ELSE s.range, observer |-> s.observer, from |-> s.from]

\* The default range is left out, the dates go with the custom one only.
rfHealthUpdateHash(s) ==
    [range |-> IF s.range = "24h" THEN "" ELSE s.range, observer |-> s.observer, from |-> IF s.range = "custom" THEN s.from ELSE ""]
\* What is not in the link stays as it was.
restoreFrom(u, s) ==
    [range |-> IF u.from # "" THEN "custom" ELSE IF u.range # "" THEN u.range ELSE s.range,
     observer |-> IF u.observer # "" THEN u.observer ELSE s.observer,
     from |-> IF u.from # "" THEN u.from ELSE s.from]
renderRFHealthTab == rfState' = restoreFrom(rfUrl, rfState) /\ UNCHANGED rfUrl
chooseRange ==
    \E r \in RfRanges :
       /\ rfState' = [rfState EXCEPT !.range = r]
       /\ IF r # "custom" THEN rfUrl' = rfHealthUpdateHash(rfState') ELSE UNCHANGED rfUrl
\* Apply belongs to the inputs the custom range shows.
applyCustom ==
    \E d \in {"", "d1", "d2"} :
       /\ rfState.range = "custom"
       /\ rfState' = [rfState EXCEPT !.from = d] /\ rfUrl' = rfHealthUpdateHash(rfState')
chooseObserver == \E o \in {"o1", "o2", ""} : rfState' = [rfState EXCEPT !.observer = o] /\ rfUrl' = rfHealthUpdateHash(rfState')
\* Another tab: its link has none of these keys.
leaveRFHealth == rfUrl' = RfBlank /\ UNCHANGED rfState
\* A link opened afresh: a new document.
openRfLink == rfState' = restoreFrom(rfUrl, RfFresh) /\ UNCHANGED rfUrl
RfNext == renderRFHealthTab \/ chooseRange \/ applyCustom \/ chooseObserver \/ leaveRFHealth \/ openRfLink

RfSeen(s) == [s EXCEPT !.from = IF s.range = "custom" THEN @ ELSE ""]
\* A link written by the tab, opened in a new window, shows what this one
\* shows: range, dates and observer.
LinkReproduces == [][rfUrl' \notin {rfUrl, RfBlank} => RfSeen(restoreFrom(rfUrl', RfFresh)) = RfSeen(rfState')]_rfVars

(* One refresher and one loop per graph, and the graph is that of its boxes. *)
AnalyticsConsistent ==
    /\ OneRefresher
    /\ GraphMatchesBoxes
    /\ OneLoopPerGraph
    /\ FiltersAreUsers
================================================================================
