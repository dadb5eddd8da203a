----------------------------- MODULE StatusPages -----------------------------
(***************************************************************************)
(* The audit of scopes (public/scope-audit.js), the panel of the MQTT      *)
(* sources (public/mqtt-status-panel.js), the performance page             *)
(* (public/perf.js), the choice of the map's tiles                         *)
(* (public/map-tile-providers.js) and the table of channels on the         *)
(* analytics page (public/analytics.js).                                   *)
(***************************************************************************)
EXTENDS Integers, FiniteSets

CONSTANTS SaWindows,    \* WINDOWS of the audit
          SaTexts,      \* texts typed into its search, "" among them
          MaxSa,        \* loads of the audit in one behaviour
          MaxMq,        \* mounts of the MQTT panel
          MaxPf,        \* refreshes of the performance page under way
          TpStyles,     \* BASE_STYLES: id -> [type, invert]
          MaxTp,        \* choices of tiles
          MaxCt         \* renders of the channel table

ASSUME StatusAssumption ==
    /\ {MaxSa, MaxMq, MaxPf, MaxTp, MaxCt} \subseteq Nat /\ "" \in SaTexts
    /\ "auto" \notin DOMAIN TpStyles    \* the id of the control's own group

-----------------------------------------------------------------------------
(* The audit of scopes. *)
VARIABLES saOn, saVisit,   \* the page is shown; number of the visit
          saWin, saGen,    \* win, loadGen
          saPend,          \* loads under way: [gen, win]
          saBody,          \* [kind, win, q]: "loading", "rows" filtered by q, "empty", "failed", "gone"
          saPressed, saUrl,
          saQuery, saInput, saTimers   \* searchQuery; text of the input; debounces [visit, text]

saVars == <<saOn, saVisit, saWin, saGen, saPend, saBody, saPressed, saUrl, saQuery, saInput, saTimers>>
Elsewhere == "elsewhere"
SaKind(k) == [kind |-> k, win |-> "", q |-> ""]
AuditInit ==
    /\ saOn = FALSE /\ saVisit = 0 /\ saWin = CHOOSE w \in SaWindows : TRUE
    /\ saGen = 0 /\ saPend = {} /\ saBody = SaKind("gone") /\ saPressed = "" /\ saUrl = Elsewhere
    /\ saQuery = "" /\ saInput = "" /\ saTimers = {}

loadAudit(w) ==
    /\ saGen < MaxSa /\ saGen' = saGen + 1 /\ saWin' = w /\ saPressed' = w
    /\ saPend' = saPend \union {[gen |-> saGen + 1, win |-> w]} /\ saBody' = SaKind("loading")

initAudit(w) ==
    /\ ~saOn /\ saOn' = TRUE /\ saVisit' = saVisit + 1 /\ saQuery' = "" /\ saInput' = "" /\ loadAudit(w)
    /\ saUrl' = w /\ UNCHANGED saTimers

auditWindow(w) == saOn /\ loadAudit(w) /\ UNCHANGED <<saOn, saVisit, saUrl, saQuery, saInput, saTimers>>

renderBodyUnfiltered(w, some) ==
    saBody' = IF ~saOn THEN saBody ELSE IF some THEN [kind |-> "rows", win |-> w, q |-> ""] ELSE SaKind("empty")

\* applyFilter at the end of renderBody puts the search back on the new rows.
renderBody(w, some) ==
    saBody' = IF ~saOn THEN saBody ELSE IF some THEN [kind |-> "rows", win |-> w, q |-> saQuery] ELSE SaKind("empty")

syncAuditHash == saUrl' = saWin

auditAnyAnswer(l, some) ==
    /\ saPend' = saPend \ {l} /\ renderBody(l.win, some) /\ syncAuditHash
    /\ UNCHANGED <<saOn, saVisit, saWin, saGen, saPressed, saQuery, saInput, saTimers>>

auditAnswers(l, some) ==
    /\ saPend' = saPend \ {l}
    /\ IF l.gen # saGen THEN UNCHANGED <<saBody, saUrl>> ELSE renderBody(l.win, some) /\ syncAuditHash
    /\ UNCHANGED <<saOn, saVisit, saWin, saGen, saPressed, saQuery, saInput, saTimers>>

auditFails(l) ==
    /\ saPend' = saPend \ {l}
    /\ saBody' = (IF l.gen # saGen THEN saBody ELSE SaKind("failed"))
    /\ UNCHANGED <<saOn, saVisit, saWin, saGen, saPressed, saUrl, saQuery, saInput, saTimers>>

\* One debounce per visit; it reads the input it was attached to.
auditTypes(t) ==
    /\ saOn /\ t # saInput /\ saInput' = t
    /\ saTimers' = {x \in saTimers : x.visit # saVisit} \union {[visit |-> saVisit, text |-> t]}
    /\ UNCHANGED <<saOn, saVisit, saWin, saGen, saPend, saBody, saPressed, saUrl, saQuery>>

\* The debounce of an earlier visit is not cancelled: it filters the new table.
applyFilter(x) ==
    /\ saTimers' = saTimers \ {x} /\ saQuery' = x.text
    /\ saBody' = IF saBody.kind = "rows" THEN [saBody EXCEPT !.q = x.text] ELSE saBody
    /\ UNCHANGED <<saOn, saVisit, saWin, saGen, saPend, saPressed, saUrl, saInput>>

destroyAudit ==
    /\ saOn /\ saGen < MaxSa /\ saOn' = FALSE /\ saGen' = saGen + 1 /\ saBody' = SaKind("gone") /\ saUrl' = Elsewhere
    /\ UNCHANGED <<saVisit, saWin, saPend, saPressed, saQuery, saInput, saTimers>>

AuditNext ==
    \/ \E w \in SaWindows : initAudit(w) \/ auditWindow(w)
    \/ \E l \in saPend : auditFails(l) \/ \E some \in BOOLEAN : auditAnswers(l, some)
    \/ \E t \in SaTexts : auditTypes(t)
    \/ \E x \in saTimers : applyFilter(x)
    \/ destroyAudit

\* Rows of the audit are those of the window that is chosen, marked and in
\* the link, filtered by the query; nothing of it is left after leaving.
AuditShowsChosen ==
    /\ saBody.kind = "rows" =>
        saBody.win = saWin /\ saWin = saPressed /\ saWin = saUrl /\ saBody.q = saQuery
    /\ ~saOn => saBody.kind = "gone" /\ saUrl = Elsewhere

-----------------------------------------------------------------------------
(* The MQTT panel: _active is what the resize handler draws again. *)
VARIABLES mqMade, mqLive, mqPend, mqActive,  \* containers: made, not stopped, with a tick under way, in _active
          mqNarrow, mqBucket, mqTimer,       \* the window; _lastBucket and "unbound"; _resizeTimer
          mqLay                              \* container -> layout drawn

mqVars == <<mqMade, mqLive, mqPend, mqActive, mqNarrow, mqBucket, mqTimer, mqLay>>
currentBucket == IF mqNarrow THEN "mobile" ELSE "desktop"
MqttInit ==
    /\ mqMade = 0 /\ mqLive = {} /\ mqPend = {} /\ mqActive = {} /\ mqNarrow = FALSE /\ mqBucket = "unbound"
    /\ mqTimer = FALSE /\ mqLay = [c \in 1..MaxMq |-> "none"]

mountMqtt ==
    /\ mqMade < MaxMq /\ mqMade' = mqMade + 1 /\ mqLive' = mqLive \union {mqMade + 1} /\ mqPend' = mqPend \union {mqMade + 1}
    /\ UNCHANGED <<mqActive, mqNarrow, mqBucket, mqTimer, mqLay>>
mqTick(c) ==
    /\ c \in mqLive \ mqPend /\ mqPend' = mqPend \union {c}
    /\ UNCHANGED <<mqMade, mqLive, mqActive, mqNarrow, mqBucket, mqTimer, mqLay>>

bindResizeOnce == mqBucket' = IF mqBucket = "unbound" THEN currentBucket ELSE mqBucket
renderPanel(c, some) ==
    /\ mqActive' = mqActive \union {c} /\ bindResizeOnce
    /\ mqLay' = [mqLay EXCEPT ![c] = IF some THEN currentBucket ELSE "empty"]
tickAlwaysDraws(c, some) ==
    /\ c \in mqPend /\ mqPend' = mqPend \ {c} /\ renderPanel(c, some) /\ UNCHANGED <<mqMade, mqLive, mqNarrow, mqTimer>>

tickAnswers(c, some) ==
    /\ c \in mqPend /\ mqPend' = mqPend \ {c}
    /\ IF c \in mqLive THEN renderPanel(c, some) ELSE UNCHANGED <<mqActive, mqBucket, mqLay>>
    /\ UNCHANGED <<mqMade, mqLive, mqNarrow, mqTimer>>
tickFails(c) ==
    /\ c \in mqPend /\ mqPend' = mqPend \ {c}
    /\ UNCHANGED <<mqMade, mqLive, mqActive, mqNarrow, mqBucket, mqTimer, mqLay>>
teardown(c) ==
    /\ c \in mqLive /\ mqLive' = mqLive \ {c} /\ mqActive' = mqActive \ {c}
    /\ UNCHANGED <<mqMade, mqPend, mqNarrow, mqBucket, mqTimer, mqLay>>
mqResize ==
    /\ mqNarrow' = ~mqNarrow /\ mqTimer' = (mqTimer \/ mqBucket # "unbound")
    /\ UNCHANGED <<mqMade, mqLive, mqPend, mqActive, mqBucket, mqLay>>
\* Only a flip of the bucket draws again.
resizeSettles ==
    /\ mqTimer /\ mqTimer' = FALSE /\ mqBucket' = currentBucket
    /\ mqLay' = IF mqBucket = currentBucket THEN mqLay
                ELSE [c \in DOMAIN mqLay |-> IF c \in mqActive /\ mqLay[c] # "empty" THEN currentBucket ELSE mqLay[c]]
    /\ UNCHANGED <<mqMade, mqLive, mqPend, mqActive, mqNarrow>>
MqttNext ==
    \/ mountMqtt \/ mqResize \/ resizeSettles
    \/ \E c \in 1..mqMade : mqTick(c) \/ tickFails(c) \/ teardown(c) \/ \E some \in BOOLEAN : tickAnswers(c, some)

\* What is drawn again on a resize is still on its page, and once the window
\* rests the remembered bucket is the window's, so that no flip is missed.
MqttOnlyLive ==
    /\ mqActive \subseteq mqLive
    /\ ~mqTimer => mqBucket \in {"unbound", currentBucket}

-----------------------------------------------------------------------------
(* The performance page refreshes every five seconds while it is seen. *)
VARIABLES pfOn, pfSeen,          \* the page is shown; the browser's tab is
          pfInterval, pfVis,     \* intervals and visibility listeners alive
          pfPend                 \* refreshes under way

pfVars == <<pfOn, pfSeen, pfInterval, pfVis, pfPend>>
PerfInit == pfOn = FALSE /\ pfSeen = TRUE /\ pfInterval = 0 /\ pfVis = 0 /\ pfPend = 0
refresh(on) == pfPend' = IF on /\ pfPend < MaxPf THEN pfPend + 1 ELSE pfPend
initPerf == ~pfOn /\ pfOn' = TRUE /\ pfInterval' = pfInterval + 1 /\ pfVis' = pfVis + 1 /\ refresh(TRUE) /\ UNCHANGED pfSeen
perfTick == pfInterval > 0 /\ pfSeen /\ pfPend < MaxPf /\ refresh(pfOn) /\ UNCHANGED <<pfOn, pfSeen, pfInterval, pfVis>>
perfVisibility ==
    /\ pfSeen' = ~pfSeen /\ IF pfSeen' /\ pfVis > 0 THEN refresh(pfOn) ELSE UNCHANGED pfPend
    /\ UNCHANGED <<pfOn, pfInterval, pfVis>>
perfAnswers == pfPend > 0 /\ pfPend' = pfPend - 1 /\ UNCHANGED <<pfOn, pfSeen, pfInterval, pfVis>>
destroyPerf == pfOn /\ pfOn' = FALSE /\ pfInterval' = pfInterval - 1 /\ pfVis' = pfVis - 1 /\ UNCHANGED <<pfSeen, pfPend>>
PerfNext == initPerf \/ perfTick \/ perfVisibility \/ perfAnswers \/ destroyPerf

\* The page has one interval and one listener, and neither is left after
\* leaving.
PerfStops == pfInterval = (IF pfOn THEN 1 ELSE 0) /\ pfVis = pfInterval

-----------------------------------------------------------------------------
(* The tiles: Auto follows the theme; a layer picked on the map overrides  *)
(* it.  The filter of the tile pane inverts the light tiles of a dark      *)
(* provider.                                                               *)
VARIABLES tpReg,               \* REGISTRY: ids of the enabled styles
          tpDark,              \* the theme
          tpStored,            \* theme -> id kept in localStorage, "" for none
          tpServer,            \* theme -> default the server named
          tpAuto, tpOver,      \* _isAuto; theme -> _overrideDarkId, _overrideLightId
          tpLayer, tpTiles,    \* "auto" or the explicit layer on the map; provider of the auto tiles
          tpLocked, tpFilter,  \* data-explicit-layer; the pane is inverted
          nTp

tpVars == <<tpReg, tpDark, tpStored, tpServer, tpAuto, tpOver, tpLayer, tpTiles, tpLocked, tpFilter, nTp>>
Themes == {"dark", "light"}
ThemeNow(dark) == IF dark THEN "dark" ELSE "light"
Shipped == [dark |-> "carto-dark", light |-> "carto-light"]
OfType(t) == {id \in DOMAIN TpStyles : TpStyles[id].type = t}
ActiveId(reg, stored, server, t) ==
    IF stored[t] \in reg \intersect OfType(t) THEN stored[t]
    ELSE IF server[t] \in reg THEN server[t] ELSE Shipped[t]
Inverts(reg, id) == id \in reg /\ TpStyles[id].invert

applyTileFilterAlways(reg, dark, stored, server, locked, filter) ==
    dark /\ Inverts(reg, ActiveId(reg, stored, server, ThemeNow(dark)))

\* An explicit layer locks the pane's filter.
applyTileFilter(reg, dark, stored, server, locked, filter) ==
    IF locked THEN filter ELSE dark /\ Inverts(reg, ActiveId(reg, stored, server, ThemeNow(dark)))

\* The listener of map.js and live.js sets the tiles of the auto group.
syncTiles(reg, dark, stored, server) == tpTiles' = ActiveId(reg, stored, server, ThemeNow(dark))

TpAct == nTp < MaxTp /\ nTp' = nTp + 1
PickerInit ==
    /\ tpReg = {"carto-dark", "carto-light", "esri-dark"} /\ tpDark = FALSE
    /\ tpStored \in [Themes -> {"", "stamen-dark", "osm"}] /\ tpServer = [t \in Themes |-> ""]
    /\ tpAuto = TRUE /\ tpOver = [t \in Themes |-> ""] /\ tpLayer = "auto" /\ tpLocked = FALSE
    /\ tpTiles = ActiveId(tpReg, tpStored, tpServer, "light")
    /\ tpFilter = FALSE /\ nTp = 0

\* _activateAuto: the group is put back and its filter computed anew.
activateAuto(reg, server) ==
    /\ tpAuto' = TRUE /\ tpLayer' = "auto" /\ tpLocked' = FALSE
    /\ tpFilter' = applyTileFilter(reg, tpDark, tpStored, server, FALSE, tpFilter) /\ syncTiles(reg, tpDark, tpStored, server)

\* The layer's own add handler locks the pane and sets its filter.
addLayer(reg, id) == tpLayer' = id /\ tpLocked' = TRUE /\ tpFilter' = Inverts(reg, id)

pickLayer(id) ==
    /\ TpAct /\ id \in tpReg /\ tpLayer # id /\ addLayer(tpReg, id)
    /\ tpAuto' = FALSE /\ tpOver' = [tpOver EXCEPT ![TpStyles[id].type] = id]
    /\ UNCHANGED <<tpReg, tpDark, tpStored, tpServer, tpTiles>>
pickAuto == TpAct /\ tpLayer # "auto" /\ activateAuto(tpReg, tpServer) /\ UNCHANGED <<tpReg, tpDark, tpStored, tpServer, tpOver>>

\* After the server's configuration arrived the control is built anew: the
\* explicit choice of the theme's kind comes back, if it is still enabled.
_buildControl(reg, server) ==
    LET t == ThemeNow(tpDark)
        prev == IF tpOver[t] # "" THEN tpOver[t] ELSE ActiveId(reg, tpStored, server, t)
    IN IF ~tpAuto /\ prev \in reg THEN addLayer(reg, prev) /\ UNCHANGED tpAuto /\ syncTiles(reg, tpDark, tpStored, server)
       ELSE activateAuto(reg, server)

MC_initTileRegistry(reg, dd) ==
    /\ TpAct /\ tpReg' = reg /\ tpServer' = [tpServer EXCEPT !.dark = IF dd \in reg THEN dd ELSE @]
    /\ _buildControl(reg, tpServer') /\ UNCHANGED <<tpDark, tpStored, tpOver>>

MC_themeFlip ==
    /\ TpAct /\ tpDark' = ~tpDark
    /\ tpFilter' = applyTileFilter(tpReg, ~tpDark, tpStored, tpServer, tpLocked, tpFilter)
    /\ syncTiles(tpReg, ~tpDark, tpStored, tpServer)
    /\ UNCHANGED <<tpReg, tpStored, tpServer, tpAuto, tpOver, tpLayer, tpLocked>>

\* setActive from the customizer, or another tab's choice.
setActive(id, t) ==
    /\ TpAct /\ id \in tpReg \intersect OfType(t) /\ tpStored' = [tpStored EXCEPT ![t] = id]
    /\ tpFilter' = applyTileFilter(tpReg, tpDark, tpStored', tpServer, tpLocked, tpFilter)
    /\ syncTiles(tpReg, tpDark, tpStored', tpServer)
    /\ UNCHANGED <<tpReg, tpDark, tpServer, tpAuto, tpOver, tpLayer, tpLocked>>
tileStorage(id, t) ==
    /\ TpAct /\ tpStored' = [tpStored EXCEPT ![t] = id]
    /\ IF id \notin tpReg THEN UNCHANGED <<tpFilter, tpTiles>>
       ELSE /\ tpFilter' = applyTileFilter(tpReg, tpDark, tpStored', tpServer, tpLocked, tpFilter)
            /\ syncTiles(tpReg, tpDark, tpStored', tpServer)
    /\ UNCHANGED <<tpReg, tpDark, tpServer, tpAuto, tpOver, tpLayer, tpLocked>>
PickerNext ==
    \/ pickAuto \/ MC_themeFlip
    \/ \E id \in DOMAIN TpStyles : pickLayer(id) \/ setActive(id, TpStyles[id].type) \/ tileStorage(id, TpStyles[id].type)
    \/ \E reg \in SUBSET DOMAIN TpStyles, dd \in {"", "stamen-dark"} : "esri-dark" \in reg /\ MC_initTileRegistry(reg, dd)

\* The pane is inverted exactly when the layer it shows wants it, and it is
\* locked exactly while an explicit layer is shown.
FilterFitsLayer ==
    /\ tpLocked <=> tpLayer # "auto"
    /\ tpFilter = IF tpLayer # "auto" THEN Inverts(tpReg, tpLayer)
                  ELSE tpDark /\ Inverts(tpReg, tpTiles)

-----------------------------------------------------------------------------
(* The channels tab: drawn at once without keys, then again when the hash  *)
(* bytes of the stored keys are known.                                     *)
VARIABLES ctGen, ctPend,    \* _channelRenderGen; renders whose keys are computed: [gen, keys, i]
          ctKeys,           \* stored keys: name -> hash byte, as a set of names
          ctData, ctTable,  \* render and keys of _channelData; the same and the sort of the table
          ctSort, ctSaved   \* _channelSortState; localStorage

ctVars == <<ctGen, ctPend, ctKeys, ctData, ctTable, ctSort, ctSaved>>
CtCols == {"name", "messages"}
CtSorts == [col : CtCols, dir : {"asc", "desc"}]
NoSort == [col |-> "", dir |-> ""]
CtNone == [gen |-> 0, keys |-> {}]
ChannelsTabInit ==
    /\ ctGen = 0 /\ ctPend = {} /\ ctKeys \in SUBSET {"k1", "k2"} /\ ctData = CtNone
    /\ ctTable = [of |-> CtNone, sort |-> NoSort] /\ ctSort = NoSort
    /\ ctSaved \in {NoSort, [col |-> "name", dir |-> "desc"]}

loadChannelSort == IF ctSort # NoSort THEN ctSort ELSE IF ctSaved # NoSort THEN ctSaved ELSE [col |-> "messages", dir |-> "desc"]
renderChannels ==
    /\ ctGen < MaxCt /\ ctGen' = ctGen + 1 /\ ctSort' = loadChannelSort
    /\ ctData' = [gen |-> ctGen + 1, keys |-> {}] /\ ctTable' = [of |-> ctData', sort |-> ctSort']
    /\ ctPend' = ctPend \union {[gen |-> ctGen + 1, keys |-> ctKeys]} /\ UNCHANGED <<ctKeys, ctSaved>>

updateChannelTable(data, sort) == ctTable' = [of |-> data, sort |-> sort]
keysAlwaysApply(p) ==
    ctPend' = ctPend \ {p} /\ ctData' = p /\ updateChannelTable(p, ctSort) /\ UNCHANGED <<ctGen, ctKeys, ctSort, ctSaved>>

buildHashKeyMap(p) ==
    /\ ctPend' = ctPend \ {p}
    /\ IF p.gen # ctGen THEN UNCHANGED <<ctData, ctTable>> ELSE ctData' = p /\ updateChannelTable(p, ctSort)
    /\ UNCHANGED <<ctGen, ctKeys, ctSort, ctSaved>>

channelSortClick(c) ==
    /\ ctGen > 0
    /\ ctSort' = [col |-> c, dir |-> IF ctSort.col = c THEN (IF ctSort.dir = "asc" THEN "desc" ELSE "asc")
                                     ELSE IF c = "name" THEN "asc" ELSE "desc"]
    /\ ctSaved' = ctSort' /\ UNCHANGED ctData /\ updateChannelTable(ctData, ctSort') /\ UNCHANGED <<ctGen, ctPend, ctKeys>>
keyStored(k) == ctKeys' = (ctKeys \ {k}) \union ({k} \ ctKeys) /\ UNCHANGED <<ctGen, ctPend, ctData, ctTable, ctSort, ctSaved>>
ChannelsTabNext ==
    \/ renderChannels \/ \E p \in ctPend : buildHashKeyMap(p)
    \/ \E c \in CtCols : channelSortClick(c)
    \/ \E k \in {"k1", "k2"} : keyStored(k)

\* The table shows the channels of the newest render in the order its header
\* names, which is the one kept once the user chose, and no older render's
\* keys decorate it.
TabShowsNewest ==
    /\ ctTable.of = ctData /\ ctData.gen = ctGen /\ ctTable.sort = ctSort
    /\ ctSaved \notin {NoSort} => ctSort \in {NoSort, ctSaved}

-----------------------------------------------------------------------------
(* The status pages and pickers show what was chosen last, and what they
   leave behind when the user goes does not act on the next page. *)
StatusConsistent ==
    /\ AuditShowsChosen
    /\ MqttOnlyLive
    /\ PerfStops
    /\ FilterFitsLayer
    /\ TabShowsNewest
==============================================================================
