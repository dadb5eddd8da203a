----------------------------- MODULE Pages_proof -----------------------------
(***************************************************************************)
(* The map and the other pages: what they show is what was asked for last, *)
(* whatever overlaps and however often they are left and entered.          *)
(***************************************************************************)
EXTENDS MCPages, FiniteSetTheorems, SequenceTheorems, TLAPS

(* One element at most. *)
LEMMA OneAtMost ==
  ASSUME NEW S, NEW x, S \subseteq {x}
  PROVE  Cardinality(S) <= 1
<1>1. S = {} \/ S = {x}
  OBVIOUS
<1>2. CASE S = {}
  BY <1>2, FS_EmptySet
<1>3. CASE S = {x}
  <2>1. Cardinality({x}) = 1
    BY FS_Singleton
  <2> QED BY <1>3, <2>1
<1> QED BY <1>1, <1>2, <1>3

------------------------------------------------------------------------------
(* The audit of scopes.  Loads are numbered; the newest one's window is    *)
(* the chosen one, and it belongs to a page that is shown.                 *)
AuditInv ==
    /\ saOn \in BOOLEAN /\ saGen \in Nat
    /\ \A l \in saPend : l.gen \in 1..saGen /\ (l.gen = saGen => saOn /\ l.win = saWin)
    /\ saOn => saPressed = saWin
    /\ saBody.kind = "rows" =>
         saOn /\ saUrl = saWin /\ saBody = [kind |-> "rows", win |-> saWin, q |-> saQuery]
    /\ ~saOn => saBody.kind = "gone" /\ saUrl = Elsewhere

LEMMA AuditInvInit == AuditInit => AuditInv
<1> SUFFICES ASSUME AuditInit PROVE AuditInv
  OBVIOUS
<1>1. saOn = FALSE /\ saOn \in BOOLEAN
  BY Zenon DEF AuditInit
<1> QED BY <1>1 DEF AuditInit, AuditInv, SaKind

LEMMA LoadAuditKeeps ==
  ASSUME AuditInv, NEW w, loadAudit(w), saOn' = TRUE
  PROVE  AuditInv'
<1>1. saGen' = saGen + 1 /\ saGen' \in Nat /\ saWin' = w /\ saPressed' = w
  BY DEF loadAudit, AuditInv
<1>2. saBody'.kind = "loading"
  BY DEF loadAudit, SaKind
<1>3. \A l \in saPend' : l.gen \in 1..saGen' /\ (l.gen = saGen' => l.win = saWin')
  BY <1>1 DEF loadAudit, AuditInv
<1>4. saOn' \in BOOLEAN
  BY Zenon
<1> QED BY <1>1, <1>2, <1>3, <1>4 DEF AuditInv

LEMMA AuditInvNext == AuditInv /\ [AuditNext]_saVars => AuditInv'
<1> SUFFICES ASSUME AuditInv, [AuditNext]_saVars PROVE AuditInv'
  OBVIOUS
<1>1. ASSUME NEW w \in SaWindows, initAudit(w) PROVE AuditInv'
  BY <1>1, LoadAuditKeeps DEF initAudit
<1>2. ASSUME NEW w \in SaWindows, auditWindow(w) PROVE AuditInv'
  BY <1>2, LoadAuditKeeps DEF auditWindow, AuditInv
<1>3. ASSUME NEW l \in saPend, auditFails(l) PROVE AuditInv'
  BY <1>3 DEF auditFails, AuditInv, SaKind
<1>4. ASSUME NEW l \in saPend, NEW some \in BOOLEAN, auditAnswers(l, some) PROVE AuditInv'
  <2>1. CASE l.gen # saGen
    BY <1>4, <2>1 DEF auditAnswers, AuditInv
  <2>2. CASE l.gen = saGen
    <3>1. saOn /\ l.win = saWin /\ saPressed = saWin
      BY <2>2 DEF AuditInv
    <3>2. saBody' = [kind |-> "rows", win |-> saWin, q |-> saQuery] \/ saBody' = SaKind("empty")
      BY <1>4, <2>2, <3>1 DEF auditAnswers, renderBody
    <3>3. saUrl' = saWin /\ UNCHANGED <<saOn, saWin, saGen, saPressed, saQuery>> /\ saPend' = saPend \ {l}
      BY <1>4, <2>2 DEF auditAnswers, syncAuditHash
    <3>4. saBody'.kind = "rows" => saBody' = [kind |-> "rows", win |-> saWin, q |-> saQuery]
      <4>1. SaKind("empty").kind # "rows"
        BY DEF SaKind
      <4> QED BY <3>2, <4>1, Zenon
    <3> QED BY <3>1, <3>3, <3>4 DEF AuditInv
  <2> QED BY <2>1, <2>2
<1>5. ASSUME NEW t \in SaTexts, auditTypes(t) PROVE AuditInv'
  BY <1>5 DEF auditTypes, AuditInv
<1>6. ASSUME NEW x \in saTimers, applyFilter(x) PROVE AuditInv'
  <2>1. CASE saBody.kind = "rows"
    <3>1. saBody' = [kind |-> "rows", win |-> saWin, q |-> x.text]
      BY <1>6, <2>1 DEF applyFilter, AuditInv
    <3> QED BY <1>6, <2>1, <3>1 DEF applyFilter, AuditInv
  <2>2. CASE saBody.kind # "rows"
    BY <1>6, <2>2 DEF applyFilter, AuditInv
  <2> QED BY <2>1, <2>2
<1>7. CASE destroyAudit
  <2>1. ~saOn' /\ saOn' \in BOOLEAN
    BY <1>7, Zenon DEF destroyAudit
  <2>2. saGen' = saGen + 1 /\ saPend' = saPend /\ saUrl' = Elsewhere /\ saBody'.kind = "gone"
    BY <1>7 DEF destroyAudit, SaKind
  <2> QED BY <2>1, <2>2 DEF AuditInv
<1>8. CASE UNCHANGED saVars
  BY <1>8 DEF saVars, AuditInv
<1> QED BY <1>1, <1>2, <1>3, <1>4, <1>5, <1>6, <1>7, <1>8 DEF AuditNext

(* Rows of the audit are those of the window that is chosen, marked and in *)
(* the link, filtered by the query (scope-audit.js, load and applyFilter). *)
THEOREM AuditThm == AuditInit /\ [][AuditNext]_saVars => []AuditShowsChosen
<1>1. AuditInv => AuditShowsChosen
  BY DEF AuditInv, AuditShowsChosen
<1> QED BY <1>1, AuditInvInit, AuditInvNext, PTL

------------------------------------------------------------------------------
(* The MQTT panel. *)
MqttInv == mqTimer \in BOOLEAN /\ mqNarrow \in BOOLEAN /\ MqttOnlyLive

LEMMA MqttInvNext == MqttInv /\ [MqttNext]_mqVars => MqttInv'
<1> SUFFICES ASSUME MqttInv, [MqttNext]_mqVars PROVE MqttInv'
  OBVIOUS
<1>1. CASE mountMqtt
  BY <1>1, Zenon DEF mountMqtt, MqttInv, MqttOnlyLive, currentBucket
<1>2. CASE mqResize
  BY <1>2, Zenon DEF mqResize, MqttInv, MqttOnlyLive, currentBucket
<1>3. CASE resizeSettles
  BY <1>3, Zenon DEF resizeSettles, MqttInv, MqttOnlyLive, currentBucket
<1>4. ASSUME NEW c \in 1..mqMade, mqTick(c) PROVE MqttInv'
  BY <1>4, Zenon DEF mqTick, MqttInv, MqttOnlyLive, currentBucket
<1>5. ASSUME NEW c \in 1..mqMade, tickFails(c) PROVE MqttInv'
  BY <1>5, Zenon DEF tickFails, MqttInv, MqttOnlyLive, currentBucket
<1>6. ASSUME NEW c \in 1..mqMade, teardown(c) PROVE MqttInv'
  BY <1>6, Zenon DEF teardown, MqttInv, MqttOnlyLive, currentBucket
<1>7. ASSUME NEW c \in 1..mqMade, NEW some \in BOOLEAN, tickAnswers(c, some) PROVE MqttInv'
  <2>1. CASE c \in mqLive
    BY <1>7, <2>1 DEF tickAnswers, renderPanel, bindResizeOnce, MqttInv, MqttOnlyLive, currentBucket
  <2>2. CASE c \notin mqLive
    BY <1>7, <2>2, Zenon DEF tickAnswers, MqttInv, MqttOnlyLive, currentBucket
  <2> QED BY <2>1, <2>2
<1>8. CASE UNCHANGED mqVars
  BY <1>8, Zenon DEF mqVars, MqttInv, MqttOnlyLive, currentBucket
<1> QED BY <1>1, <1>2, <1>3, <1>4, <1>5, <1>6, <1>7, <1>8 DEF MqttNext

(* A panel that was torn down is never drawn again by a resize, and no     *)
(* flip of the layout is missed (mqtt-status-panel.js, _active and         *)
(* _lastBucket).                                                           *)
THEOREM MqttThm == MqttInit /\ [][MqttNext]_mqVars => []MqttOnlyLive
<1>1. MqttInit => MqttInv
  BY Zenon DEF MqttInit, MqttInv, MqttOnlyLive
<1>2. MqttInv => MqttOnlyLive
  BY DEF MqttInv
<1> QED BY <1>1, <1>2, MqttInvNext, PTL

------------------------------------------------------------------------------
(* The performance page. *)
PerfInv == pfOn \in BOOLEAN /\ PerfStops

(* One interval and one listener while the page is shown, none after       *)
(* (perf.js, init and destroy).                                            *)
THEOREM PerfThm == PerfInit /\ [][PerfNext]_pfVars => []PerfStops
<1>1. PerfInit => PerfInv
  <2> SUFFICES ASSUME PerfInit PROVE PerfInv
    OBVIOUS
  <2>1. pfOn \in BOOLEAN
    BY Zenon DEF PerfInit
  <2> QED BY <2>1 DEF PerfInit, PerfInv, PerfStops
<1>2. PerfInv /\ [PerfNext]_pfVars => PerfInv'
  <2> SUFFICES ASSUME PerfInv, [PerfNext]_pfVars PROVE PerfInv'
    OBVIOUS
  <2>1. CASE initPerf
    <3>1. ~pfOn /\ pfOn' /\ pfOn' \in BOOLEAN
      BY <2>1, Zenon DEF initPerf
    <3> QED BY <2>1, <3>1 DEF initPerf, PerfInv, PerfStops
  <2>2. CASE destroyPerf
    <3>1. pfOn /\ ~pfOn' /\ pfOn' \in BOOLEAN
      BY <2>2, Zenon DEF destroyPerf
    <3> QED BY <2>2, <3>1 DEF destroyPerf, PerfInv, PerfStops
  <2>3. ASSUME UNCHANGED <<pfOn, pfInterval, pfVis>> PROVE PerfInv'
    BY <2>3 DEF PerfInv, PerfStops
  <2> QED BY <2>1, <2>2, <2>3 DEF PerfNext, pfVars, perfTick, perfVisibility, perfAnswers
<1>3. PerfInv => PerfStops
  BY DEF PerfInv
<1> QED BY <1>1, <1>2, <1>3, PTL

------------------------------------------------------------------------------
(* The tiles. *)
LEMMA PickerNextKeeps == FilterFitsLayer /\ [PickerNext]_tpVars => FilterFitsLayer'
<1> SUFFICES ASSUME FilterFitsLayer, [PickerNext]_tpVars PROVE FilterFitsLayer'
  OBVIOUS
<1>1. ASSUME NEW reg, NEW id, id # "auto", addLayer(reg, id), tpReg' = reg PROVE FilterFitsLayer'
  BY <1>1, Zenon DEF addLayer, FilterFitsLayer
<1>2. ASSUME NEW reg, NEW server, activateAuto(reg, server), tpReg' = reg, tpDark' = tpDark
      PROVE  FilterFitsLayer'
  BY <1>2, Zenon DEF activateAuto, applyTileFilter, syncTiles, FilterFitsLayer
<1>3. CASE pickAuto
  BY <1>2, <1>3, Zenon DEF pickAuto
<1>4. ASSUME NEW dark, NEW stored, tpDark' = dark, tpReg' = tpReg, tpLayer' = tpLayer, tpLocked' = tpLocked,
             tpFilter' = applyTileFilter(tpReg, dark, stored, tpServer, tpLocked, tpFilter),
             syncTiles(tpReg, dark, stored, tpServer)
      PROVE  FilterFitsLayer'
  BY <1>4, Zenon DEF applyTileFilter, syncTiles, FilterFitsLayer
<1>5. CASE MC_themeFlip
  BY <1>4, <1>5, Zenon DEF MC_themeFlip
<1>6. ASSUME NEW id \in DOMAIN TpStyles, pickLayer(id) PROVE FilterFitsLayer'
  <2>1. id # "auto"
    BY StatusAssumption
  <2> QED BY <1>1, <1>6, <2>1, Zenon DEF pickLayer
<1>7. ASSUME NEW id, NEW t, setActive(id, t) PROVE FilterFitsLayer'
  BY <1>4, <1>7, Zenon DEF setActive
<1>8. ASSUME NEW id, NEW t, tileStorage(id, t) PROVE FilterFitsLayer'
  <2>1. CASE id \in tpReg
    BY <1>4, <1>8, <2>1, Zenon DEF tileStorage
  <2>2. CASE id \notin tpReg
    BY <1>8, <2>2, Zenon DEF tileStorage, FilterFitsLayer
  <2> QED BY <2>1, <2>2
<1>9. ASSUME NEW reg \in SUBSET DOMAIN TpStyles, NEW dd, MC_initTileRegistry(reg, dd) PROVE FilterFitsLayer'
  <2> DEFINE prev == IF tpOver[ThemeNow(tpDark)] # "" THEN tpOver[ThemeNow(tpDark)]
                     ELSE ActiveId(reg, tpStored, tpServer', ThemeNow(tpDark))
  <2>1. tpReg' = reg /\ tpDark' = tpDark /\ _buildControl(reg, tpServer')
    BY <1>9, Zenon DEF MC_initTileRegistry
  <2>2. CASE ~tpAuto /\ prev \in reg
    <3>1. prev # "auto"
      BY <2>2, StatusAssumption
    <3>2. addLayer(reg, prev)
      BY <2>1, <2>2, Zenon DEF _buildControl
    <3> QED BY <1>1, <2>1, <3>1, <3>2, Zenon
  <2>3. CASE ~(~tpAuto /\ prev \in reg)
    BY <1>2, <2>1, <2>3, Zenon DEF _buildControl
  <2> QED BY <2>2, <2>3
<1>10. CASE UNCHANGED tpVars
  BY <1>10, Zenon DEF tpVars, FilterFitsLayer
<1> QED BY <1>3, <1>5, <1>6, <1>7, <1>8, <1>9, <1>10, Zenon DEF PickerNext

(* The pane of tiles is inverted exactly when the layer it shows wants it  *)
(* (map-tile-providers.js, applyTileFilter).                               *)
THEOREM PickerThm == PickerInit /\ [][PickerNext]_tpVars => []FilterFitsLayer
<1>1. PickerInit => FilterFitsLayer
  BY Zenon DEF PickerInit, FilterFitsLayer
<1> QED BY <1>1, PickerNextKeeps, PTL

------------------------------------------------------------------------------
(* The channels tab. *)
LEMMA ChannelsTabKeeps == TabShowsNewest /\ [ChannelsTabNext]_ctVars => TabShowsNewest'
<1> SUFFICES ASSUME TabShowsNewest, [ChannelsTabNext]_ctVars PROVE TabShowsNewest'
  OBVIOUS
<1>1. CASE renderChannels
  BY <1>1 DEF renderChannels, loadChannelSort, TabShowsNewest
<1>2. ASSUME NEW p \in ctPend, buildHashKeyMap(p) PROVE TabShowsNewest'
  BY <1>2 DEF buildHashKeyMap, updateChannelTable, TabShowsNewest
<1>3. ASSUME NEW c \in CtCols, channelSortClick(c) PROVE TabShowsNewest'
  BY <1>3 DEF channelSortClick, updateChannelTable, TabShowsNewest
<1>4. ASSUME NEW k, keyStored(k) PROVE TabShowsNewest'
  BY <1>4 DEF keyStored, TabShowsNewest
<1>5. CASE UNCHANGED ctVars
  BY <1>5 DEF ctVars, TabShowsNewest
<1> QED BY <1>1, <1>2, <1>3, <1>4, <1>5 DEF ChannelsTabNext

(* The table of channels is that of the newest render, and no older        *)
(* render's keys decorate it (analytics.js, _channelRenderGen).            *)
THEOREM ChannelsTabThm == ChannelsTabInit /\ [][ChannelsTabNext]_ctVars => []TabShowsNewest
<1>1. ChannelsTabInit => TabShowsNewest
  BY DEF ChannelsTabInit, TabShowsNewest, CtNone
<1> QED BY <1>1, ChannelsTabKeeps, PTL

(* The five parts side by side, each moving on its own. *)
StatusSpec ==
    /\ AuditInit /\ [][AuditNext]_saVars
    /\ MqttInit /\ [][MqttNext]_mqVars
    /\ PerfInit /\ [][PerfNext]_pfVars
    /\ PickerInit /\ [][PickerNext]_tpVars
    /\ ChannelsTabInit /\ [][ChannelsTabNext]_ctVars

(* The status pages and pickers show what was chosen last, and nothing     *)
(* they leave behind acts on the next page.                                *)
THEOREM StatusConsistentThm == StatusSpec => []StatusConsistent
<1>1. AuditShowsChosen /\ MqttOnlyLive /\ PerfStops /\ FilterFitsLayer /\ TabShowsNewest => StatusConsistent
  BY DEF StatusConsistent
<1> QED BY <1>1, AuditThm, MqttThm, PerfThm, PickerThm, ChannelsTabThm, PTL DEF StatusSpec

------------------------------------------------------------------------------
(* The reach of a node.  Loads are numbered; the newest one is of what was *)
(* asked for last, and from its configuration on no map of an older one is *)
(* left and the choice of coverage is the link's.                          *)
Asks == {Question(k, d) : k \in ReachKeys, d \in Days}
ShowsPage == rcShows.what \in {"report", "bare", "error"}

ReachLoad == [gen : Nat, key : ReachKeys, days : Days, first : BOOLEAN, at : {"config", "data"}]

ReachLoads ==
    /\ \A l \in rcLoads :
          /\ l.gen \in 1..loadGen /\ l.key \in ReachKeys /\ l.days \in Days /\ l.at \in {"config", "data"}
          /\ l.gen = loadGen => rcAsked = Question(l.key, l.days)
          /\ l.gen = loadGen /\ l.at = "data" => qmap = 0 /\ covHandle = 0 /\ rcUrl = coverageOn
    /\ \A l, m \in rcLoads : l.gen = m.gen => l = m
    /\ \A l \in rcLoads : l \in ReachLoad

ReachShown ==
    /\ loadGen \in Nat /\ qmap \in 0..loadGen
    /\ rcAsked # Closed => rcAsked \in Asks
    /\ rcAsked = Closed => rcShows = Closed
    /\ ShowsPage => rcShows.key \in ReachKeys /\ rcShows.days \in Days

ReachInv == ReachLoads /\ ReachShown /\ ReachOneMap /\ CoverageAgrees
            /\ coverageOn \in BOOLEAN /\ rcBox \in BOOLEAN /\ rcLines \in BOOLEAN /\ rcUrl \in BOOLEAN

LEMMA PagesDiffer ==
  /\ \A k, d : Question(k, d) # Closed
  /\ Closed.what = "closed" /\ Loading.what = "loading"
  /\ \A w, k, d : Page(w, k, d).what = w /\ Page(w, k, d).key = k /\ Page(w, k, d).days = d
<1>1. ASSUME NEW k, NEW d PROVE Question(k, d) # Closed
  <2>1. DOMAIN Question(k, d) # DOMAIN Closed
    BY DEF Question, Closed
  <2> QED BY <2>1
<1> QED BY <1>1 DEF Closed, Loading, Page

LEMMA ReachInvInit == ReachInit => ReachInv
<1> SUFFICES ASSUME ReachInit PROVE ReachInv
  OBVIOUS
<1>1. coverageOn \in BOOLEAN /\ rcBox \in BOOLEAN /\ rcLines \in BOOLEAN /\ rcUrl \in BOOLEAN
  BY Zenon DEF ReachInit
<1>2. ReachLoads /\ ReachShown
  BY PagesDiffer DEF ReachInit, ReachLoads, ReachShown, ShowsPage
<1>3. ReachOneMap /\ CoverageAgrees
  BY PagesDiffer DEF ReachInit, ReachOneMap, CoverageAgrees
<1> QED BY <1>1, <1>2, <1>3 DEF ReachInv

(* What is known of a load. *)
LEMMA LoadTyped ==
  ASSUME ReachInv, NEW l \in rcLoads
  PROVE  /\ l.gen \in 1..loadGen /\ l.key \in ReachKeys /\ l.days \in Days /\ l.at \in {"config", "data"}
         /\ l \in ReachLoad
         /\ l.gen = loadGen => rcAsked = Question(l.key, l.days) /\ rcAsked # Closed
         /\ l.gen = loadGen /\ l.at = "data" => qmap = 0 /\ covHandle = 0 /\ rcUrl = coverageOn
         /\ \A m \in rcLoads : l.gen = m.gen => l = m
<1>1. ReachLoads
  BY DEF ReachInv
<1>2. /\ l.gen \in 1..loadGen /\ l.key \in ReachKeys /\ l.days \in Days /\ l.at \in {"config", "data"}
      /\ l \in ReachLoad
  BY <1>1, Zenon DEF ReachLoads
<1>3. l.gen = loadGen => rcAsked = Question(l.key, l.days)
  BY <1>1, Zenon DEF ReachLoads
<1>4. l.gen = loadGen /\ l.at = "data" => qmap = 0 /\ covHandle = 0 /\ rcUrl = coverageOn
  BY <1>1, Zenon DEF ReachLoads
<1>5. \A m \in rcLoads : l.gen = m.gen => l = m
  BY <1>1, Zenon DEF ReachLoads
<1>6. Question(l.key, l.days) # Closed
  BY PagesDiffer
<1> QED BY <1>2, <1>3, <1>4, <1>5, <1>6, Zenon

(* A new load: the page that is shown is not touched. *)
LEMMA ReachLoadKeeps ==
  ASSUME ReachInv, NEW key \in ReachKeys, NEW days \in Days, NEW first \in BOOLEAN, reachLoad(key, days, first),
         UNCHANGED <<rcShows, qmap, rcMaps, covHandle, rcLayers, coverageOn, rcBox, rcLines>>,
         rcUrl' \in BOOLEAN, rcShows.what = "report" => rcUrl' = rcUrl
  PROVE  ReachInv'
<1> DEFINE n == [gen |-> loadGen + 1, key |-> key, days |-> days, first |-> first, at |-> "config"]
<1>1. /\ loadGen' = loadGen + 1 /\ rcAsked' = Question(key, days) /\ rcLoads' = rcLoads \union {n}
      /\ loadGen \in Nat /\ loadGen' \in Nat
  BY DEF reachLoad, ReachInv, ReachShown
<1>2. n \in ReachLoad
  <2>1. loadGen + 1 \in Nat /\ "config" \in {"config", "data"}
    BY <1>1
  <2> QED BY <2>1, Zenon DEF ReachLoad
<1>3. n.gen = loadGen + 1 /\ n.key = key /\ n.days = days /\ n.at = "config"
  OBVIOUS
<1> HIDE DEF n
<1>4. ReachLoads'
  <2>1. /\ \A l \in rcLoads : l.gen \in 1..loadGen /\ l.key \in ReachKeys /\ l.days \in Days
                              /\ l.at \in {"config", "data"} /\ l \in ReachLoad
        /\ \A l, m \in rcLoads : l.gen = m.gen => l = m
    BY LoadTyped
  <2>2. \A l \in rcLoads' : l.gen \in 1..loadGen' /\ l.key \in ReachKeys /\ l.days \in Days
                            /\ l.at \in {"config", "data"}
    BY <1>1, <1>3, <2>1
  <2>3. \A l \in rcLoads' : l.gen = loadGen' => l = n
    BY <1>1, <2>1
  <2>4. \A l, m \in rcLoads' : l.gen = m.gen => l = m
    BY <1>1, <1>3, <2>1
  <2>5. \A l \in rcLoads' : l \in ReachLoad
    BY <1>1, <1>2, <2>1, Zenon
  <2>6. \A l \in rcLoads' : l.gen = loadGen' => rcAsked' = Question(l.key, l.days) /\ l.at # "data"
    BY <1>1, <1>3, <2>3
  <2> QED BY <2>2, <2>4, <2>5, <2>6 DEF ReachLoads
<1>5. ReachShown'
  <2>1. Question(key, days) # Closed /\ Question(key, days) \in Asks
    BY PagesDiffer DEF Asks
  <2> QED BY <1>1, <2>1 DEF ReachInv, ReachShown, ShowsPage
<1>6. ReachOneMap'
  BY <1>1, PagesDiffer DEF ReachInv, ReachOneMap
<1>7. CoverageAgrees'
  BY Zenon DEF ReachInv, CoverageAgrees
<1>8. coverageOn' \in BOOLEAN /\ rcBox' \in BOOLEAN /\ rcLines' \in BOOLEAN /\ rcUrl' \in BOOLEAN
  BY Zenon DEF ReachInv
<1> QED BY <1>4, <1>5, <1>6, <1>7, <1>8 DEF ReachInv

LEMMA OpenKeeps ==
  ASSUME ReachInv, NEW key \in ReachKeys, openReach(key)
  PROVE  ReachInv'
<1>1. rcShows.what # "report"
  BY PagesDiffer DEF openReach, ReachInv, ReachShown
<1>2. DEFAULT_DAYS \in Days /\ TRUE \in BOOLEAN
  BY DEF DEFAULT_DAYS, Days
<1> QED BY <1>1, <1>2, ReachLoadKeeps, Zenon DEF openReach

LEMMA ChooseKeeps ==
  ASSUME ReachInv, NEW days \in Days, chooseDays(days)
  PROVE  ReachInv'
<1>1. rcShows.key \in ReachKeys /\ FALSE \in BOOLEAN
  BY DEF chooseDays, ReachInv, ReachShown, ShowsPage
<1>2. rcUrl' \in BOOLEAN /\ rcUrl' = rcUrl
  BY Zenon DEF chooseDays, ReachInv
<1> QED BY <1>1, <1>2, ReachLoadKeeps, Zenon DEF chooseDays

(* Taking down the map leaves none. *)
LEMMA DropMapLeavesNone ==
  ASSUME ReachInv, dropMap
  PROVE  qmap' = 0 /\ covHandle' = 0 /\ rcMaps' = {} /\ rcLayers' = {}
BY DEF dropMap, ReachInv, ReachOneMap

(* A load that settled, or was dropped, is no longer under way. *)
LEMMA SettledLoads ==
  ASSUME ReachInv, NEW l \in rcLoads, rcLoads' = rcLoads \ {l}, rcAsked' = rcAsked, loadGen' = loadGen,
         l.gen = loadGen \/ UNCHANGED <<qmap, covHandle, rcUrl, coverageOn>>
  PROVE  ReachLoads'
<1>1. CASE l.gen = loadGen
  <2>1. \A m \in rcLoads' : m.gen # loadGen'
    BY <1>1, LoadTyped
  <2> QED BY <2>1, Zenon DEF ReachInv, ReachLoads
<1>2. CASE UNCHANGED <<qmap, covHandle, rcUrl, coverageOn>>
  BY <1>2, Zenon DEF ReachInv, ReachLoads
<1> QED BY <1>1, <1>2

LEMMA ConfigKeeps ==
  ASSUME ReachInv, NEW l \in rcLoads, configReady(l)
  PROVE  ReachInv'
<1>1. CASE l.gen # loadGen
  <2>1. UNCHANGED <<rcShows, qmap, rcMaps, covHandle, rcLayers, coverageOn, rcAsked, loadGen, rcBox, rcLines, rcUrl>>
        /\ rcLoads' = rcLoads \ {l}
    BY <1>1, Zenon DEF configReady
  <2>2. ReachLoads'
    BY <2>1, SettledLoads
  <2> QED BY <2>1, <2>2, Zenon DEF ReachInv, ReachShown, ShowsPage, ReachOneMap, CoverageAgrees
<1>2. CASE l.gen = loadGen
  <2> DEFINE n == [l EXCEPT !.at = "data"]
  <2>1. /\ rcLoads' = (rcLoads \ {l}) \union {n} /\ coverageOn' = rcUrl /\ dropMap
        /\ rcShows' = (IF l.first THEN Loading ELSE rcShows)
        /\ UNCHANGED <<rcAsked, loadGen, rcBox, rcLines, rcUrl>> /\ l.at = "config"
    BY <1>2 DEF configReady
  <2>2. qmap' = 0 /\ covHandle' = 0 /\ rcMaps' = {} /\ rcLayers' = {}
    BY <2>1, DropMapLeavesNone
  <2>3. l \in ReachLoad
    BY DEF ReachInv, ReachLoads
  <2>4. /\ n \in ReachLoad
        /\ n.gen = l.gen /\ n.key = l.key /\ n.days = l.days /\ n.at = "data"
    <3>1. "data" \in {"config", "data"}
      OBVIOUS
    <3> QED BY <2>3, <3>1, Zenon DEF ReachLoad
  <2> HIDE DEF n
  <2>5. ReachLoads'
    <3>1. \A m \in rcLoads' : m = n \/ (m \in rcLoads /\ m.gen # loadGen)
      BY <1>2, <2>1, LoadTyped
    <3>2. n.gen \in 1..loadGen /\ n.key \in ReachKeys /\ n.days \in Days /\ n.at \in {"config", "data"}
          /\ rcAsked = Question(n.key, n.days)
      BY <1>2, <2>4, LoadTyped
    <3>3. \A m \in rcLoads' :
             /\ m.gen \in 1..loadGen' /\ m.key \in ReachKeys /\ m.days \in Days /\ m.at \in {"config", "data"}
             /\ m.gen = loadGen' => rcAsked' = Question(m.key, m.days)
             /\ m \in ReachLoad
      <4>1. \A m \in rcLoads : m \in ReachLoad
        BY DEF ReachInv, ReachLoads
      <4>2. \A m \in rcLoads : m.gen \in 1..loadGen /\ m.key \in ReachKeys /\ m.days \in Days
                              /\ m.at \in {"config", "data"}
        BY LoadTyped
      <4> QED BY <2>1, <2>4, <3>1, <3>2, <4>1, <4>2, Zenon
    <3>4. \A m, o \in rcLoads' : m.gen = o.gen => m = o
      BY <1>2, <2>4, <3>1, Zenon DEF ReachInv, ReachLoads
    <3> QED BY <2>1, <2>2, <3>3, <3>4, Zenon DEF ReachLoads
  <2>6. ReachShown'
    <3>1. rcAsked # Closed /\ loadGen \in Nat
      BY <1>2, LoadTyped DEF ReachInv, ReachShown
    <3> QED BY <2>1, <2>2, <3>1, PagesDiffer DEF ReachInv, ReachShown, ShowsPage
  <2>7. ReachOneMap'
    BY <2>2 DEF ReachOneMap
  <2>8. CoverageAgrees'
    <3>1. rcShows'.what = "report" => rcShows' = rcShows
      BY <2>1, PagesDiffer
    <3> QED BY <2>1, <2>2, <3>1, Zenon DEF ReachInv, CoverageAgrees
  <2> QED BY <2>1, <2>5, <2>6, <2>7, <2>8, Zenon DEF ReachInv
<1> QED BY <1>1, <1>2

(* The layer of the coverage is on the one map there is. *)
LEMMA CoverageOnTheMap ==
  ASSUME NEW on \in BOOLEAN, NEW map \in Nat, applyCoverage(on, map),
         rcMaps' = {map} \ {0}, rcLayers = {covHandle} \ {0}, rcLayers \subseteq rcMaps'
  PROVE  /\ rcLayers' = {covHandle'} \ {0} /\ rcLayers' \subseteq rcMaps' /\ covHandle' \in {0, map}
         /\ map # 0 => rcLines' = ~on /\ (covHandle' = map) = on
         /\ rcLines' \in BOOLEAN
<1>1. CASE on
  <2>1. covHandle' = map /\ rcLines' = (map # 0 /\ ~on)
        /\ rcLayers' = IF map # 0 THEN rcLayers \union {map} ELSE rcLayers \ {covHandle}
    BY <1>1, Zenon DEF applyCoverage
  <2>2. ~rcLines' /\ rcLines' \in BOOLEAN
    BY <1>1, <2>1, Zenon
  <2> QED BY <1>1, <2>1, <2>2
<1>2. CASE ~on
  <2>1. covHandle' = 0 /\ rcLines' = (map # 0 /\ ~on) /\ rcLayers' = rcLayers \ {covHandle}
    BY <1>2, Zenon DEF applyCoverage
  <2>2. (rcLines' <=> map # 0) /\ rcLines' \in BOOLEAN
    BY <1>2, <2>1, Zenon
  <2> QED BY <1>2, <2>1, <2>2
<1> QED BY <1>1, <1>2

LEMMA DataKeeps ==
  ASSUME ReachInv, NEW l \in rcLoads, NEW what \in {"report", "bare"}, NEW placed \in BOOLEAN,
         dataArrives(l, what, placed)
  PROVE  ReachInv'
<1>1. CASE l.gen # loadGen
  <2>1. UNCHANGED <<rcShows, qmap, rcMaps, covHandle, rcLayers, coverageOn, rcAsked, loadGen, rcBox, rcLines, rcUrl>>
        /\ rcLoads' = rcLoads \ {l}
    BY <1>1, Zenon DEF dataArrives, accepts
  <2>2. ReachLoads'
    BY <2>1, SettledLoads
  <2> QED BY <2>1, <2>2, Zenon DEF ReachInv, ReachShown, ShowsPage, ReachOneMap, CoverageAgrees
<1>2. CASE l.gen = loadGen
  <2>1. /\ rcAsked = Question(l.key, l.days) /\ rcAsked # Closed /\ qmap = 0 /\ covHandle = 0 /\ rcUrl = coverageOn
        /\ rcMaps = {} /\ rcLayers = {} /\ l.gen # 0 /\ loadGen \in Nat /\ l.key \in ReachKeys /\ l.days \in Days
    BY <1>2, LoadTyped DEF dataArrives, ReachInv, ReachOneMap, ReachShown
  <2>2. /\ rcLoads' = rcLoads \ {l} /\ rcShows' = Page(what, l.key, l.days)
        /\ UNCHANGED <<rcAsked, loadGen, coverageOn, rcUrl>>
    BY <1>2, Zenon DEF dataArrives, accepts
  <2>3. ReachLoads'
    BY <1>2, <2>2, SettledLoads
  <2>4. rcShows' # Closed /\ rcShows'.what = what /\ rcShows'.key = l.key /\ rcShows'.days = l.days
    BY <2>2, PagesDiffer
  <2>5. CASE what = "report"
    <3>1. /\ qmap' = (IF placed THEN l.gen ELSE 0) /\ rcMaps' = (IF placed THEN {l.gen} ELSE {})
          /\ rcBox' = coverageOn /\ applyCoverage(coverageOn, qmap')
      BY <1>2, <2>1, <2>5 DEF dataArrives, accepts
    <3>2. qmap' \in 0..loadGen /\ qmap' \in Nat /\ rcMaps' = {qmap'} \ {0} /\ coverageOn \in BOOLEAN
      BY <1>2, <2>1, <3>1 DEF ReachInv
    <3>3. /\ rcLayers' = {covHandle'} \ {0} /\ rcLayers' \subseteq rcMaps'
          /\ qmap' # 0 => rcLines' = ~coverageOn /\ (covHandle' = qmap') = coverageOn
          /\ rcLines' \in BOOLEAN
      BY <2>1, <3>1, <3>2, CoverageOnTheMap
    <3>4. ReachShown'
      BY <2>1, <2>2, <2>4, <3>2 DEF ReachInv, ReachShown, ShowsPage
    <3>5. ReachOneMap'
      BY <2>1, <2>2, <3>2, <3>3, Zenon DEF ReachOneMap
    <3>6. CoverageAgrees'
      BY <2>1, <2>2, <3>1, <3>3, Zenon DEF CoverageAgrees
    <3> QED BY <2>2, <2>3, <3>1, <3>3, <3>4, <3>5, <3>6, Zenon DEF ReachInv
  <2>6. CASE what = "bare"
    <3>1. UNCHANGED <<qmap, rcMaps, covHandle, rcLayers, rcBox, rcLines>>
      BY <1>2, <2>6, Zenon DEF dataArrives, accepts
    <3>2. ReachShown'
      BY <2>1, <2>2, <2>4, <3>1 DEF ReachInv, ReachShown, ShowsPage
    <3>3. ReachOneMap' /\ CoverageAgrees'
      BY <2>1, <2>2, <2>4, <2>6, <3>1 DEF ReachInv, ReachOneMap, CoverageAgrees
    <3> QED BY <2>2, <2>3, <3>1, <3>2, <3>3, Zenon DEF ReachInv
  <2> QED BY <2>5, <2>6
<1> QED BY <1>1, <1>2

LEMMA FailsKeeps ==
  ASSUME ReachInv, NEW l \in rcLoads, dataFails(l)
  PROVE  ReachInv'
<1>1. /\ rcLoads' = rcLoads \ {l}
      /\ UNCHANGED <<rcAsked, loadGen, qmap, rcMaps, covHandle, rcLayers, coverageOn, rcBox, rcLines, rcUrl>>
      /\ rcShows' = (IF l.gen = loadGen THEN Page("error", l.key, l.days) ELSE rcShows)
  BY Zenon DEF dataFails, accepts
<1>2. ReachLoads'
  BY <1>1, SettledLoads
<1>3. l.key \in ReachKeys /\ l.days \in Days /\ (l.gen = loadGen => rcAsked # Closed)
  BY LoadTyped
<1>4. ReachShown' /\ CoverageAgrees'
  <2>1. CASE l.gen = loadGen
    BY <1>1, <1>3, <2>1, PagesDiffer DEF ReachInv, ReachShown, ShowsPage, CoverageAgrees
  <2>2. CASE l.gen # loadGen
    BY <1>1, <2>2, Zenon DEF ReachInv, ReachShown, ShowsPage, CoverageAgrees
  <2> QED BY <2>1, <2>2
<1> QED BY <1>1, <1>2, <1>4, Zenon DEF ReachInv, ReachOneMap

LEMMA BoxKeeps ==
  ASSUME ReachInv, coverageBox
  PROVE  ReachInv'
<1>1. /\ rcShows.what = "report" /\ rcBox' = ~rcBox /\ coverageOn' = rcBox' /\ rcUrl' = coverageOn'
      /\ applyCoverage(coverageOn', qmap) /\ UNCHANGED <<rcAsked, loadGen, rcLoads, rcShows, qmap, rcMaps>>
  BY DEF coverageBox, setCoverageHash
<1>2. rcBox' \in BOOLEAN /\ coverageOn' \in BOOLEAN /\ rcUrl' \in BOOLEAN
  BY <1>1, Zenon
<1>3. qmap \in Nat /\ rcMaps' = {qmap} \ {0} /\ rcLayers = {covHandle} \ {0} /\ rcLayers \subseteq rcMaps'
  BY <1>1 DEF ReachInv, ReachShown, ReachOneMap
<1>4. /\ rcLayers' = {covHandle'} \ {0} /\ rcLayers' \subseteq rcMaps' /\ covHandle' \in {0, qmap}
      /\ qmap # 0 => rcLines' = ~coverageOn' /\ (covHandle' = qmap) = coverageOn'
      /\ rcLines' \in BOOLEAN
  BY <1>1, <1>2, <1>3, CoverageOnTheMap
<1>5. ReachLoads'
  <2>1. ASSUME NEW l \in rcLoads, l.gen = loadGen, l.at = "data"
        PROVE  qmap' = 0 /\ covHandle' = 0 /\ rcUrl' = coverageOn'
    BY <1>1, <1>4, <2>1, LoadTyped
  <2> QED BY <1>1, <2>1, Zenon DEF ReachInv, ReachLoads
<1>6. ReachShown'
  BY <1>1, Zenon DEF ReachInv, ReachShown, ShowsPage
<1>7. ReachOneMap'
  BY <1>1, <1>3, <1>4, Zenon DEF ReachInv, ReachOneMap
<1>8. CoverageAgrees'
  BY <1>1, <1>4, Zenon DEF CoverageAgrees
<1> QED BY <1>2, <1>4, <1>5, <1>6, <1>7, <1>8, Zenon DEF ReachInv

LEMMA DestroyReachKeeps ==
  ASSUME ReachInv, destroyReach
  PROVE  ReachInv'
<1>1. /\ loadGen' = loadGen + 1 /\ dropMap /\ rcAsked' = Closed /\ rcShows' = Closed
      /\ UNCHANGED <<rcLoads, coverageOn, rcBox, rcLines>> /\ loadGen \in Nat
  BY DEF destroyReach, ReachInv, ReachShown
<1>2. qmap' = 0 /\ covHandle' = 0 /\ rcMaps' = {} /\ rcLayers' = {}
  BY <1>1, DropMapLeavesNone
<1>3. rcUrl' \in BOOLEAN
  BY Zenon DEF destroyReach
<1>4. ReachLoads'
  <2>1. \A l \in rcLoads : l.gen \in 1..loadGen' /\ l.gen # loadGen' /\ l.key \in ReachKeys /\ l.days \in Days
                          /\ l.at \in {"config", "data"} /\ l \in ReachLoad
    BY <1>1, LoadTyped
  <2>2. \A l, m \in rcLoads : l.gen = m.gen => l = m
    BY LoadTyped
  <2> QED BY <1>1, <2>1, <2>2, Zenon DEF ReachLoads
<1>5. ReachShown'
  BY <1>1, <1>2, PagesDiffer DEF ReachShown, ShowsPage
<1>6. ReachOneMap' /\ CoverageAgrees'
  BY <1>1, <1>2, PagesDiffer DEF ReachOneMap, CoverageAgrees
<1> QED BY <1>1, <1>3, <1>4, <1>5, <1>6, Zenon DEF ReachInv

LEMMA ReachInvNext == ReachInv /\ [ReachNext]_rcVars => ReachInv'
<1> SUFFICES ASSUME ReachInv, [ReachNext]_rcVars PROVE ReachInv'
  OBVIOUS
<1>1. CASE UNCHANGED rcVars
  BY <1>1, Zenon DEF rcVars, ReachInv, ReachLoads, ReachShown, ShowsPage, ReachOneMap, CoverageAgrees
<1>2. CASE ReachNext
  BY <1>2, OpenKeeps, ChooseKeeps, ConfigKeeps, DataKeeps, FailsKeeps, BoxKeeps, DestroyReachKeeps, Zenon
     DEF ReachNext
<1> QED BY <1>1, <1>2

(* One map and one coverage layer at most, those of the page that is shown *)
(* (node-reach.js, load and destroy).                                      *)
THEOREM ReachOneMapThm == ReachSpec => []ReachOneMap
<1>1. ReachInv => ReachOneMap
  BY DEF ReachInv
<1> QED BY <1>1, ReachInvInit, ReachInvNext, PTL DEF ReachSpec

(* Box, link and map agree on the coverage, whatever loads overlap.        *)
THEOREM CoverageAgreesThm == ReachSpec => []CoverageAgrees
<1>1. ReachInv => CoverageAgrees
  BY DEF ReachInv
<1> QED BY <1>1, ReachInvInit, ReachInvNext, PTL DEF ReachSpec

(* The page implements NewestAnswer: opening and choosing a window ask, an *)
(* accepted answer or failure shows what was asked for last, a first load  *)
(* that is configured blanks the page, leaving closes it, and everything   *)
(* else is a stutter.                                                      *)
ShownQuestion == IF ShowsPage THEN Question(rcShows.key, rcShows.days) ELSE Closed

LEMMA ReachStep == ReachInv /\ [ReachNext]_rcVars => [NR!Next]_<<rcAsked, ShownQuestion>>
<1> SUFFICES ASSUME ReachInv, [ReachNext]_rcVars PROVE [NR!Next]_<<rcAsked, ShownQuestion>>
  OBVIOUS
<1>1. ASSUME rcShows' = rcShows, rcAsked' = rcAsked PROVE [NR!Next]_<<rcAsked, ShownQuestion>>
  BY <1>1, Zenon DEF ShownQuestion, ShowsPage
<1>2. ASSUME rcShows' = rcShows, NEW k \in ReachKeys, NEW d \in Days, rcAsked' = Question(k, d)
      PROVE  [NR!Next]_<<rcAsked, ShownQuestion>>
  <2>1. NR!Want(Question(k, d))
    BY <1>2 DEF NR!Want
  <2>2. Question(k, d) \in {Question(kk, dd) : kk \in ReachKeys, dd \in Days}
    BY <1>2
  <2> QED BY <2>1, <2>2 DEF NR!Next
<1>3. ASSUME NEW k \in ReachKeys, openReach(k) PROVE [NR!Next]_<<rcAsked, ShownQuestion>>
  <2>1. rcShows' = rcShows /\ rcAsked' = Question(k, DEFAULT_DAYS) /\ DEFAULT_DAYS \in Days
    BY <1>3 DEF openReach, reachLoad, DEFAULT_DAYS, Days
  <2> QED BY <1>2, <2>1
<1>4. ASSUME NEW d \in Days, chooseDays(d) PROVE [NR!Next]_<<rcAsked, ShownQuestion>>
  <2>1. rcShows' = rcShows /\ rcAsked' = Question(rcShows.key, d) /\ rcShows.key \in ReachKeys
    BY <1>4 DEF chooseDays, reachLoad, ReachInv, ReachShown, ShowsPage
  <2> QED BY <1>2, <2>1
<1>5. ASSUME NEW l \in rcLoads, NEW what \in {"report", "bare", "error"}, l.gen = loadGen,
             rcShows' = Page(what, l.key, l.days), rcAsked' = rcAsked
      PROVE  [NR!Next]_<<rcAsked, ShownQuestion>>
  <2>1. rcAsked = Question(l.key, l.days) /\ rcAsked # Closed
    BY <1>5, LoadTyped
  <2>2. ShowsPage' /\ rcShows'.key = l.key /\ rcShows'.days = l.days
    BY <1>5, PagesDiffer DEF ShowsPage
  <2>3. ShownQuestion' = rcAsked
    BY <2>1, <2>2, Zenon DEF ShownQuestion
  <2>4. NR!Show
    BY <1>5, <2>1, <2>3 DEF NR!Show, ShownQuestion, ShowsPage
  <2> QED BY <2>4 DEF NR!Next
<1>6. ASSUME NEW l \in rcLoads, configReady(l) PROVE [NR!Next]_<<rcAsked, ShownQuestion>>
  <2>1. rcAsked' = rcAsked /\ (rcShows' = rcShows \/ rcShows' = Loading)
    BY <1>6, Zenon DEF configReady
  <2>2. CASE rcShows' = Loading
    <3>1. ShownQuestion' = Closed
      BY <2>2, PagesDiffer DEF ShownQuestion, ShowsPage
    <3>2. NR!Blank
      BY <2>1, <3>1 DEF NR!Blank, ShownQuestion, ShowsPage
    <3> QED BY <3>2 DEF NR!Next
  <2> QED BY <1>1, <2>1, <2>2
<1>7. ASSUME NEW l \in rcLoads, NEW what \in {"report", "bare"}, NEW placed \in BOOLEAN,
             dataArrives(l, what, placed)
      PROVE  [NR!Next]_<<rcAsked, ShownQuestion>>
  BY <1>1, <1>5, <1>7, Zenon DEF dataArrives, accepts
<1>8. ASSUME NEW l \in rcLoads, dataFails(l) PROVE [NR!Next]_<<rcAsked, ShownQuestion>>
  BY <1>1, <1>5, <1>8, Zenon DEF dataFails, accepts
<1>9. CASE coverageBox
  BY <1>1, <1>9, Zenon DEF coverageBox
<1>10. CASE destroyReach
  <2>1. rcAsked' = Closed /\ rcShows' = Closed
    BY <1>10 DEF destroyReach
  <2>2. ShownQuestion' = Closed
    BY <2>1, PagesDiffer DEF ShownQuestion, ShowsPage
  <2>3. NR!Leave
    BY <2>1, <2>2 DEF NR!Leave, ShownQuestion, ShowsPage
  <2> QED BY <2>3 DEF NR!Next
<1>11. CASE UNCHANGED rcVars
  BY <1>1, <1>11, Zenon DEF rcVars
<1> QED BY <1>3, <1>4, <1>6, <1>7, <1>8, <1>9, <1>10, <1>11, Zenon DEF ReachNext

(* Whatever loads overlap, only the answer to the newest question is put   *)
(* on the page, and none after it was left (node-reach.js, loadGen).       *)
THEOREM ReachNewestThm == ReachSpec => ReachNewest
<1>1. ReachInit => NR!Init
  BY PagesDiffer DEF ReachInit, NR!Init
<1>2. ReachInv /\ [ReachNext]_rcVars =>
        [NR!Next]_<<rcAsked, IF rcShows.what \in {"report", "bare", "error"}
                             THEN Question(rcShows.key, rcShows.days) ELSE Closed>>
  BY ReachStep DEF ShownQuestion, ShowsPage
<1> QED BY <1>1, <1>2, ReachInvInit, ReachInvNext, PTL DEF ReachSpec, ReachNewest, NR!Spec

------------------------------------------------------------------------------
(* Coverage of the mobile clients: until the choice has been drawn, a      *)
(* timer, an extent or a request for it is under way.                      *)
RxOwed == \E r \in rxReqs : r.kind = "extent" \/ (r.kind = "draw" /\ r.choice = rxChoice)

RxInv ==
    /\ rxOn \in BOOLEAN /\ rxConfig \in BOOLEAN /\ rxStarted \in BOOLEAN /\ rxTimer \in BOOLEAN
    /\ rxStarted => rxOn /\ RxLinkReproduces
    /\ rxStarted => rxTimer \/ rxChoice \in rxSeen \/ RxOwed

LEMMA RequestIsMade ==
  ASSUME NEW kind, NEW choice, NEW reqs, request(kind, choice, reqs)
  PROVE  /\ reqs \subseteq rxReqs'
         /\ \E r \in rxReqs' : r.kind = kind /\ r.choice = choice
<1> DEFINE n == [id |-> CHOOSE i \in RxSlots(reqs) : TRUE, kind |-> kind, choice |-> choice]
<1>1. n.kind = kind /\ n.choice = choice
  OBVIOUS
<1>2. rxReqs' = reqs \union {n}
  BY DEF request
<1> HIDE DEF n
<1> QED BY <1>1, <1>2

LEMMA DrawIsOwed ==
  ASSUME NEW choice, NEW reqs, drawCoverage(choice, reqs), rxChoice' = choice
  PROVE  /\ reqs \subseteq rxReqs'
         /\ rxStarted /\ rxOn => RxOwed'
<1>1. CASE rxStarted /\ rxOn
  BY <1>1, RequestIsMade DEF drawCoverage, RxOwed
<1>2. CASE ~(rxStarted /\ rxOn)
  BY <1>2 DEF drawCoverage
<1> QED BY <1>1, <1>2

LEMMA RxInvNext == RxInv /\ [RxNext]_rxVars => RxInv'
<1> SUFFICES ASSUME RxInv, [RxNext]_rxVars PROVE RxInv'
  OBVIOUS
<1>1. ASSUME NEW choice, initRx(choice) PROVE RxInv'
  <2>1. ~rxStarted
    BY <1>1, Zenon DEF initRx, RxInv
  <2> QED BY <1>1, <2>1, Zenon DEF initRx, RxInv, RxLinkReproduces
<1>2. CASE configRx
  <2>1. CASE rxOn /\ rxInits > 0
    BY <1>2, <2>1, Zenon DEF configRx, start, RxInv, RxLinkReproduces
  <2>2. CASE ~(rxOn /\ rxInits > 0)
    <3>1. UNCHANGED <<rxOn, rxStarted, rxChoice, rxTimer, rxSeen, rxUrl, rxReqs>> /\ rxConfig' \in BOOLEAN
      BY <1>2, <2>2, Zenon DEF configRx
    <3> QED BY <3>1, Zenon DEF RxInv, RxLinkReproduces, RxOwed
  <2> QED BY <2>1, <2>2
<1>3. CASE leaveRx
  BY <1>3, Zenon DEF leaveRx, RxInv
<1>4. CASE rxTimerFires
  <2>1. UNCHANGED <<rxOn, rxConfig, rxStarted, rxChoice, rxUrl, rxSeen>> /\ rxTimer' \in BOOLEAN
    BY <1>4, Zenon DEF rxTimerFires
  <2>2. rxStarted => RxOwed'
    <3>1. CASE rxStarted /\ rxOn /\ rxChoice.rx # NoReceiver
      BY <1>4, <3>1, RequestIsMade, Zenon DEF rxTimerFires, fitToObserver, RxOwed
    <3>2. CASE rxStarted /\ rxOn /\ rxChoice.rx = NoReceiver
      BY <1>4, <2>1, <3>2, DrawIsOwed, Zenon DEF rxTimerFires
    <3> QED BY <3>1, <3>2, Zenon DEF RxInv
  <2> QED BY <2>1, <2>2, Zenon DEF RxInv, RxLinkReproduces
<1>5. ASSUME NEW rx, activate(rx) PROVE RxInv'
  <2>1. UNCHANGED <<rxOn, rxConfig, rxStarted, rxTimer>> /\ rxUrl' = rxChoice' /\ RxOwed'
    BY <1>5, RequestIsMade, Zenon DEF activate, fitToObserver, syncHash, RxOwed
  <2> QED BY <2>1, Zenon DEF RxInv, RxLinkReproduces
<1>6. CASE showAll
  <2>1. UNCHANGED <<rxOn, rxConfig, rxStarted, rxTimer>> /\ rxUrl' = rxChoice' /\ (rxOn => RxOwed')
    BY <1>6, DrawIsOwed, Zenon DEF showAll, syncHash
  <2> QED BY <2>1, Zenon DEF RxInv, RxLinkReproduces
<1>7. ASSUME NEW d, setDays(d) PROVE RxInv'
  <2>1. UNCHANGED <<rxOn, rxConfig, rxStarted, rxTimer>> /\ rxUrl' = rxChoice' /\ (rxOn => RxOwed')
    BY <1>7, DrawIsOwed, Zenon DEF setDays, syncHash
  <2> QED BY <2>1, Zenon DEF RxInv, RxLinkReproduces
<1>8. CASE moveRxMap
  <2>1. UNCHANGED <<rxOn, rxConfig, rxStarted, rxTimer, rxChoice, rxUrl, rxSeen>> /\ (rxOn => RxOwed')
    BY <1>8, DrawIsOwed, Zenon DEF moveRxMap
  <2> QED BY <2>1, Zenon DEF RxInv, RxLinkReproduces
<1>9. ASSUME NEW r \in rxReqs, coverageAnswers(r) PROVE RxInv'
  <2>1. UNCHANGED <<rxOn, rxConfig, rxStarted, rxTimer, rxChoice, rxUrl>> /\ rxReqs' = rxReqs \ {r} /\ r.kind = "draw"
        /\ rxSeen' = (IF rxOn /\ rxStarted THEN rxSeen \union {r.choice} ELSE rxSeen)
    BY <1>9, Zenon DEF coverageAnswers
  <2>2. rxStarted /\ RxOwed => RxOwed' \/ rxChoice \in rxSeen'
    <3> SUFFICES ASSUME rxStarted, RxOwed PROVE RxOwed' \/ rxChoice \in rxSeen'
      OBVIOUS
    <3>1. rxSeen' = rxSeen \union {r.choice}
      BY <2>1, Zenon DEF RxInv
    <3>2. PICK x \in rxReqs : x.kind = "extent" \/ (x.kind = "draw" /\ x.choice = rxChoice)
      BY DEF RxOwed
    <3>3. CASE x = r
      BY <2>1, <3>1, <3>2, <3>3
    <3>4. CASE x # r
      BY <2>1, <3>2, <3>4 DEF RxOwed
    <3> QED BY <3>3, <3>4
  <2>3. rxSeen \subseteq rxSeen'
    BY <2>1
  <2> QED BY <2>1, <2>2, <2>3, Zenon DEF RxInv, RxLinkReproduces
<1>10. ASSUME NEW r \in rxReqs, NEW any, extentAnswers(r, any) PROVE RxInv'
  <2>1. UNCHANGED <<rxOn, rxConfig, rxStarted, rxTimer, rxChoice, rxUrl, rxSeen>> /\ (rxOn /\ rxStarted => RxOwed')
    BY <1>10, DrawIsOwed, Zenon DEF extentAnswers, drawAfterExtent
  <2> QED BY <2>1, Zenon DEF RxInv, RxLinkReproduces
<1>11. CASE UNCHANGED rxVars
  BY <1>11, Zenon DEF rxVars, RxInv, RxLinkReproduces, RxOwed
<1> QED BY <1>1, <1>2, <1>3, <1>4, <1>5, <1>6, <1>7, <1>8, <1>9, <1>10, <1>11, Zenon DEF RxNext

LEMMA RxInvInit == RxInit => RxInv
BY Zenon DEF RxInit, RxInv

(* The link reproduces the page, and the choice is drawn once nothing is   *)
(* under way (rx-coverage.js, syncHash and fitToObserver).                 *)
THEOREM RxThm == RxInit /\ [][RxNext]_rxVars => [](RxLinkReproduces /\ RxDrawsChoice)
<1>1. RxInv => RxLinkReproduces /\ RxDrawsChoice
  BY DEF RxInv, RxLinkReproduces, RxDrawsChoice, RxOwed
<1> QED BY <1>1, RxInvInit, RxInvNext, PTL

------------------------------------------------------------------------------
(* The node list.  Unless the list is gone or a load will filter it again, *)
(* the filtered nodes are those of the list and the filters in force;      *)
(* unless a load is under way the rows are the filtered nodes; and while   *)
(* no two loads overlapped, what is fetched is of the chosen region.       *)
NdLoad == [id : 1..MaxNdLoads, at : {"pages", "skew", "claimed"}, region : Regions, refresh : BOOLEAN]

NodesFiltered == ndAll = NoList \/ ndNodes = Listed(ndAll, ndFilter) \/ \E l \in ndLoads : l.at = "skew"
RowsDrawn == ndLoads # {} \/ ndRows = ErrorRow \/ ndRows = ndNodes
RegionFetched == ndAll \in {NoList, ndRegion} /\ \A l \in ndLoads : l.at = "pages" => l.region = ndRegion

NodesInv ==
    /\ ndOn \in BOOLEAN /\ ndTable \in BOOLEAN /\ ndOverlap \in BOOLEAN
    /\ ndLoads \subseteq NdLoad /\ ndRegion \in Regions
    /\ ndOn => NodesFiltered
    /\ ndOn /\ ndTable => RowsDrawn
    /\ ~ndOverlap => RegionFetched

LEMMA FilterAndDraw ==
  ASSUME NEW l \in NdLoad, NEW all, NEW filter, NEW others \in SUBSET NdLoad, NEW table \in BOOLEAN,
         NEW on \in BOOLEAN, filterAndDraw(l, all, filter, others, table, on)
  PROVE  /\ ndLoads' \subseteq NdLoad /\ ndTable' \in BOOLEAN
         /\ \A m \in ndLoads' : m \in others \/ m.at # "pages"
         /\ all = NoList \/ ndNodes' = Listed(all, filter)
         /\ ndTable' => RowsDrawn'
<1>1. CASE all = NoList
  <2>1. ndLoads' = others /\ ndTable' = table /\ ndRows' = (IF table THEN ErrorRow ELSE ndRows)
    BY <1>1, Zenon DEF filterAndDraw
  <2> QED BY <1>1, <2>1, Zenon DEF RowsDrawn
<1>2. CASE all # NoList /\ ndLoads' = others /\ draw(l.refresh, on, table, ndNodes')
  <2>1. l.refresh \in BOOLEAN
    BY DEF NdLoad
  <2>2. ndTable' \in BOOLEAN /\ ndRows' = (IF ndTable' THEN ndNodes' ELSE ndRows)
    BY <1>2, <2>1, Zenon DEF draw
  <2>3. ndNodes' = Listed(all, filter)
    BY <1>2, Zenon DEF filterAndDraw
  <2> QED BY <1>2, <2>2, <2>3, Zenon DEF RowsDrawn
<1>3. CASE all # NoList /\ ndLoads' = others \union {[l EXCEPT !.at = "claimed"]} /\ ndTable' = table
  <2> DEFINE c == [l EXCEPT !.at = "claimed"]
  <2>1. c \in NdLoad /\ c.at = "claimed"
    <3>1. "claimed" \in {"pages", "skew", "claimed"}
      OBVIOUS
    <3> QED BY <3>1, Zenon DEF NdLoad
  <2> HIDE DEF c
  <2>2. ndLoads' = others \union {c}
    BY <1>3 DEF c
  <2>3. ndNodes' = Listed(all, filter)
    BY <1>3, Zenon DEF filterAndDraw
  <2> QED BY <1>3, <2>1, <2>2, <2>3 DEF RowsDrawn
<1> QED BY <1>1, <1>2, <1>3, Zenon DEF filterAndDraw

(* A load begins with the list taken away or filtered. *)
LEMMA BeginsToLoad ==
  ASSUME NodesInv, Slots # {}, NEW l, NEW again \in BOOLEAN, NEW region \in Regions,
         l = [id |-> Slot, at |-> "pages", region |-> region, refresh |-> again],
         ndLoads' = ndLoads \union {l}
  PROVE  /\ ndLoads' \subseteq NdLoad /\ ndLoads' # {} /\ l \in NdLoad /\ l.at = "pages" /\ l.region = region
<1>1. Slot \in 1..MaxNdLoads
  BY DEF Slot, Slots
<1>2. l \in NdLoad
  <2>1. "pages" \in {"pages", "skew", "claimed"}
    OBVIOUS
  <2> QED BY <1>1, <2>1, Zenon DEF NdLoad
<1> QED BY <1>2 DEF NodesInv

LEMMA LoadsKeep ==
  ASSUME NodesInv, NEW again \in BOOLEAN, ndAll' \in {ndAll, NoList}, ndRegion' \in Regions,
         ndRegion' = ndRegion \/ ndAll' = NoList,
         loadNodes(again, ndAll', ndRegion', ndFilter', ndTable), ndOn' = ndOn
  PROVE  NodesInv'
<1> DEFINE l == [id |-> Slot, at |-> "pages", region |-> ndRegion', refresh |-> again]
<1>1. ndOn' \in BOOLEAN
  BY Zenon DEF NodesInv
<1>2. CASE ndAll' = NoList
  <2>1. /\ Slots # {} /\ ndLoads' = ndLoads \union {l} /\ ndTable' = ndTable
        /\ ndOverlap' = (ndOverlap \/ \E m \in ndLoads : m.at = "pages")
    BY <1>2, Zenon DEF loadNodes
  <2>2. ndLoads' \subseteq NdLoad /\ ndLoads' # {} /\ l.region = ndRegion'
    BY <2>1, BeginsToLoad
  <2>3. ndOverlap' \in BOOLEAN /\ ndTable' \in BOOLEAN
    BY <2>1, Zenon DEF NodesInv
  <2>4. ~ndOverlap' => RegionFetched'
    <3> HIDE DEF l
    <3> SUFFICES ASSUME ~ndOverlap', NEW m \in ndLoads', m.at = "pages" PROVE m.region = ndRegion'
      BY <1>2, Zenon DEF RegionFetched
    <3>1. m \notin ndLoads
      BY <2>1, Zenon
    <3> QED BY <2>1, <2>2, <3>1
  <2> QED BY <1>1, <1>2, <2>2, <2>3, <2>4, Zenon DEF NodesInv, NodesFiltered, RowsDrawn
<1>3. CASE ndAll' # NoList
  <2>1. /\ Slots # {} /\ filterAndDraw(l, ndAll', ndFilter', ndLoads, ndTable, ndOn) /\ ndOverlap' = ndOverlap
        /\ ndRegion' = ndRegion /\ ndAll' = ndAll
    BY <1>3, Zenon DEF loadNodes
  <2>2. l \in NdLoad
    <3>1. Slot \in 1..MaxNdLoads /\ "pages" \in {"pages", "skew", "claimed"}
      BY <2>1 DEF Slot, Slots
    <3> QED BY <3>1, Zenon DEF NdLoad
  <2> HIDE DEF l
  <2>3. ndLoads \in SUBSET NdLoad /\ ndTable \in BOOLEAN /\ ndOn \in BOOLEAN
    BY Zenon DEF NodesInv
  <2>4. /\ ndLoads' \subseteq NdLoad /\ ndTable' \in BOOLEAN
        /\ \A m \in ndLoads' : m \in ndLoads \/ m.at # "pages"
        /\ ndNodes' = Listed(ndAll', ndFilter')
        /\ ndTable' => RowsDrawn'
    BY <1>3, <2>1, <2>2, <2>3, FilterAndDraw
  <2>5. ~ndOverlap' => RegionFetched'
    BY <2>1, <2>4, Zenon DEF NodesInv, RegionFetched
  <2>6. ndOverlap' \in BOOLEAN
    BY <2>1, Zenon DEF NodesInv
  <2> QED BY <1>1, <2>4, <2>5, <2>6, Zenon DEF NodesInv, NodesFiltered
<1> QED BY <1>2, <1>3

LEMMA OpenNodesKeeps ==
  ASSUME NodesInv, openNodes
  PROVE  NodesInv'
<1> DEFINE l == [id |-> Slot, at |-> "pages", region |-> ndRegion, refresh |-> FALSE]
<1>1. ndOn' \in BOOLEAN /\ ndRegion' \in Regions /\ Slots # {} /\ ndAll' = ndAll /\ ndRegion' = ndRegion
  BY Zenon DEF NodesInv, openNodes
<1>2. CASE ndAll = NoList
  <2>1. /\ ndLoads' = ndLoads \union {l} /\ ndTable' = FALSE
        /\ ndOverlap' = (ndOverlap \/ \E m \in ndLoads : m.at = "pages")
    BY <1>2, Zenon DEF openNodes
  <2>2. ndLoads' \subseteq NdLoad /\ ndLoads' # {} /\ l.region = ndRegion
    BY <1>1, <2>1, BeginsToLoad
  <2>3. ndOverlap' \in BOOLEAN /\ ndTable' \in BOOLEAN
    BY <2>1, Zenon DEF NodesInv
  <2>4. ~ndOverlap' => RegionFetched'
    <3> HIDE DEF l
    <3> SUFFICES ASSUME ~ndOverlap', NEW m \in ndLoads', m.at = "pages" PROVE m.region = ndRegion'
      BY <1>1, <1>2, Zenon DEF RegionFetched
    <3>1. m \notin ndLoads
      BY <2>1, Zenon
    <3> QED BY <1>1, <2>1, <2>2, <3>1
  <2> QED BY <1>1, <1>2, <2>2, <2>3, <2>4, Zenon DEF NodesInv, NodesFiltered, RowsDrawn
<1>3. CASE ndAll # NoList
  <2>1. filterAndDraw(l, ndAll, ndFilter', ndLoads, FALSE, TRUE) /\ ndOverlap' = ndOverlap
    BY <1>3, Zenon DEF openNodes
  <2>2. l \in NdLoad
    <3>1. Slot \in 1..MaxNdLoads /\ "pages" \in {"pages", "skew", "claimed"}
      BY <1>1 DEF Slot, Slots
    <3> QED BY <1>1, <3>1, Zenon DEF NdLoad
  <2> HIDE DEF l
  <2>3. ndLoads \in SUBSET NdLoad /\ TRUE \in BOOLEAN /\ FALSE \in BOOLEAN
    BY Zenon DEF NodesInv
  <2>4. /\ ndLoads' \subseteq NdLoad /\ ndTable' \in BOOLEAN
        /\ \A m \in ndLoads' : m \in ndLoads \/ m.at # "pages"
        /\ ndNodes' = Listed(ndAll, ndFilter')
        /\ ndTable' => RowsDrawn'
    BY <1>3, <2>1, <2>2, <2>3, FilterAndDraw
  <2>5. ~ndOverlap' => RegionFetched'
    BY <1>1, <2>1, <2>4, Zenon DEF NodesInv, RegionFetched
  <2>6. ndOverlap' \in BOOLEAN
    BY <2>1, Zenon DEF NodesInv
  <2> QED BY <1>1, <2>4, <2>5, <2>6, Zenon DEF NodesInv, NodesFiltered
<1> QED BY <1>2, <1>3

LEMMA PagesArriveKeeps ==
  ASSUME NodesInv, NEW l \in ndLoads, pagesArrive(l)
  PROVE  NodesInv'
<1> DEFINE c == [l EXCEPT !.at = "skew"]
<1>1. l \in NdLoad /\ l.at = "pages" /\ ndAll' = l.region
  BY DEF NodesInv, pagesArrive
<1>2. c \in NdLoad /\ c.at = "skew"
  <2>1. "skew" \in {"pages", "skew", "claimed"}
    OBVIOUS
  <2> QED BY <1>1, <2>1, Zenon DEF NdLoad
<1> HIDE DEF c
<1>3. ndLoads' = (ndLoads \ {l}) \union {c} /\ UNCHANGED <<ndOn, ndRegion, ndTable, ndOverlap>>
  BY DEF pagesArrive, c
<1>4. ndLoads' \subseteq NdLoad /\ c \in ndLoads'
  BY <1>2, <1>3 DEF NodesInv
<1>5. ~ndOverlap' => RegionFetched'
  BY <1>1, <1>2, <1>3 DEF NodesInv, RegionFetched
<1> QED BY <1>2, <1>3, <1>4, <1>5, Zenon DEF NodesInv, NodesFiltered, RowsDrawn

LEMMA NodesInvNext == NodesInv /\ [NodesNext]_ndVars => NodesInv'
<1> SUFFICES ASSUME NodesInv, [NodesNext]_ndVars PROVE NodesInv'
  OBVIOUS
<1>1. CASE openNodes
  BY <1>1, OpenNodesKeeps
<1>2. CASE nodesFilterChange
  <2>1. /\ loadNodes(FALSE, ndAll', ndRegion', ndFilter', ndTable) /\ UNCHANGED <<ndOn, ndRegion, ndAll>>
        /\ FALSE \in BOOLEAN /\ ndRegion' \in Regions
    BY <1>2, Zenon DEF nodesFilterChange, NodesInv
  <2> QED BY <2>1, LoadsKeep
<1>3. CASE searchInput
  BY <1>3, Zenon DEF searchInput, NodesInv, NodesFiltered, RowsDrawn, RegionFetched
<1>4. CASE searchFires
  <2>1. /\ loadNodes(FALSE, ndAll', ndRegion', ndFilter', ndTable) /\ UNCHANGED <<ndOn, ndRegion, ndAll>>
        /\ FALSE \in BOOLEAN /\ ndRegion' \in Regions
    BY <1>4, Zenon DEF searchFires, NodesInv
  <2> QED BY <2>1, LoadsKeep
<1>5. CASE regionChange
  <2>1. /\ loadNodes(FALSE, ndAll', ndRegion', ndFilter', ndTable) /\ ndOn' = ndOn /\ ndAll' = NoList
        /\ FALSE \in BOOLEAN /\ ndRegion' \in Regions
    BY <1>5, Zenon DEF regionChange, dropsList, NodesInv
  <2> QED BY <2>1, LoadsKeep
<1>6. CASE advertOnNodes
  <2>1. /\ loadNodes(TRUE, ndAll', ndRegion', ndFilter', ndTable) /\ UNCHANGED <<ndOn, ndRegion>>
        /\ ndAll' \in {ndAll, NoList} /\ TRUE \in BOOLEAN /\ ndRegion' \in Regions
    BY <1>6, Zenon DEF advertOnNodes, NodesInv
  <2> QED BY <2>1, LoadsKeep
<1>7. CASE themeRows
  BY <1>7, Zenon DEF themeRows, NodesInv, NodesFiltered, RowsDrawn, RegionFetched
<1>8. CASE leaveNodes
  BY <1>8, Zenon DEF leaveNodes, NodesInv, RegionFetched
<1>9. ASSUME NEW l \in ndLoads, pagesArrive(l) PROVE NodesInv'
  BY <1>9, PagesArriveKeeps
<1>10. ASSUME NEW l \in ndLoads, pagesFail(l) PROVE NodesInv'
  <2>1. /\ ndLoads' = ndLoads \ {l} /\ l.at = "pages" /\ ndRows' = (IF ndTable THEN ErrorRow ELSE ndRows)
        /\ UNCHANGED <<ndOn, ndRegion, ndFilter, ndAll, ndNodes, ndTable, ndOverlap>>
    BY <1>10, Zenon DEF pagesFail
  <2>2. NodesFiltered => NodesFiltered'
    BY <2>1 DEF NodesFiltered
  <2>3. ndTable => RowsDrawn'
    BY <2>1, Zenon DEF RowsDrawn
  <2>4. ndLoads' \subseteq ndLoads
    BY <2>1
  <2>5. RegionFetched => RegionFetched'
    BY <2>1, <2>4, Zenon DEF RegionFetched
  <2> QED BY <2>1, <2>2, <2>3, <2>4, <2>5, Zenon DEF NodesInv
<1>11. ASSUME NEW l \in ndLoads, skewArrives(l) PROVE NodesInv'
  <2>1. /\ filterAndDraw(l, ndAll, ndFilter, ndLoads \ {l}, ndTable, ndOn)
        /\ UNCHANGED <<ndOn, ndRegion, ndFilter, ndAll, ndOverlap>>
    BY <1>11, Zenon DEF skewArrives
  <2>2. l \in NdLoad /\ ndLoads \ {l} \in SUBSET NdLoad /\ ndTable \in BOOLEAN /\ ndOn \in BOOLEAN
    BY Zenon DEF NodesInv
  <2>3. /\ ndLoads' \subseteq NdLoad /\ ndTable' \in BOOLEAN
        /\ \A m \in ndLoads' : m \in ndLoads \ {l} \/ m.at # "pages"
        /\ ndAll = NoList \/ ndNodes' = Listed(ndAll, ndFilter)
        /\ ndTable' => RowsDrawn'
    BY <2>1, <2>2, FilterAndDraw
  <2>4. RegionFetched => RegionFetched'
    BY <2>1, <2>3, Zenon DEF RegionFetched
  <2> QED BY <2>1, <2>3, <2>4, Zenon DEF NodesInv, NodesFiltered
<1>12. ASSUME NEW l \in ndLoads, claimedArrive(l) PROVE NodesInv'
  <2>1. /\ ndLoads' = ndLoads \ {l} /\ l.at = "claimed" /\ draw(l.refresh, ndOn, ndTable, ndNodes)
        /\ UNCHANGED <<ndOn, ndRegion, ndFilter, ndAll, ndNodes, ndOverlap>>
    BY <1>12, Zenon DEF claimedArrive
  <2>2. l.refresh \in BOOLEAN
    BY DEF NodesInv, NdLoad
  <2>3. ndTable' \in BOOLEAN /\ (ndTable' => RowsDrawn')
    BY <2>1, <2>2, Zenon DEF draw, NodesInv, RowsDrawn
  <2>4. NodesFiltered => NodesFiltered'
    BY <2>1 DEF NodesFiltered
  <2>5. ndLoads' \subseteq ndLoads
    BY <2>1
  <2>6. RegionFetched => RegionFetched'
    BY <2>1, <2>5, Zenon DEF RegionFetched
  <2> QED BY <2>1, <2>3, <2>4, <2>5, <2>6, Zenon DEF NodesInv
<1>13. CASE UNCHANGED ndVars
  BY <1>13, Zenon DEF ndVars, NodesInv, NodesFiltered, RowsDrawn, RegionFetched
<1> QED BY <1>1, <1>2, <1>3, <1>4, <1>5, <1>6, <1>7, <1>8, <1>9, <1>10, <1>11, <1>12, <1>13, Zenon DEF NodesNext

LEMMA NodesInvInit == NodesInit => NodesInv
<1> SUFFICES ASSUME NodesInit PROVE NodesInv
  OBVIOUS
<1>1. ndRegion \in Regions
  BY DEF NodesInit, Regions
<1> QED BY <1>1, Zenon DEF NodesInit, NodesInv, RegionFetched

(* Once every load is through the rows are the list in memory under the    *)
(* filters in force, and of the chosen region if no two loads overlapped   *)
(* (nodes.js, loadNodes and regionChangeHandler).                          *)
THEOREM NodeRowsThm == NodesInit /\ [][NodesNext]_ndVars => [](RowsFollowFilters /\ RowsOfRegion)
<1>1. NodesInv => RowsFollowFilters /\ RowsOfRegion
  BY Zenon DEF NodesInv, NodesFiltered, RowsDrawn, RegionFetched, RowsFollowFilters, RowsOfRegion, Settled
<1> QED BY <1>1, NodesInvInit, NodesInvNext, PTL

------------------------------------------------------------------------------
(* The details of a node.  A panel never shares the page with a slide-over *)
(* of its selection, a full view's request is not answered in a list of    *)
(* the same number, and the one map is the view's own.                     *)
DetailsFit ==
    /\ dvInst \in Nat /\ dvView \in {"none", "list", "full"} /\ (dvView # "none" => dvInst >= 1)
    /\ dvView = "full" => dvNode \in NodeKeys
    /\ dvSel \in NodeKeys \union {NoKey}
    /\ dvView = "none" => dvPanel = "empty"
    /\ \A r \in dvReqs : r.key \in NodeKeys /\ r.inst \in 1..dvInst
                         /\ (r.to = "full" /\ r.inst = dvInst => dvView # "list")

SlideApart == (dvWide => dvSlide = "closed") /\ (dvIn = "panel" => dvSlide = "closed") /\ dvWide \in BOOLEAN

MapsFit ==
    /\ dvMap \in {0, dvInst} /\ dvMaps \subseteq {dvMap}
    /\ dvPanel \in Located => dvMap = dvInst /\ dvInst >= 1

DetailsInv == DetailsFit /\ SlideApart /\ MapsFit /\ PanelOfSelected

LEMMA KeysDiffer ==
  /\ \A k \in NodeKeys : k \notin {NoKey, "empty", "loading", "error"}
  /\ \A k \in Located : k \in NodeKeys
BY NodesPageAssumption DEF NoKey

LEMMA AskedFor ==
  ASSUME NEW k, NEW to, NEW inst
  PROVE  asked(k, to, inst).key = k /\ asked(k, to, inst).to = to /\ asked(k, to, inst).inst = inst
BY DEF asked

LEMMA OpenViewKeeps ==
  ASSUME DetailsInv, NEW v \in {"list", "full"}, NEW k, v = "full" => k \in NodeKeys, openView(v, k)
  PROVE  DetailsInv'
<1>1. /\ dvInst' = dvInst + 1 /\ dvView' = v /\ dvNode' = k /\ dvSel' = NoKey /\ dvMaps' = dvMaps \ {dvMap}
      /\ dvMap' = 0 /\ dvSlide' = "closed" /\ UNCHANGED <<dvWide, dvIn>> /\ dvInst \in Nat
      /\ dvPanel' \in {"loading", "empty"}
  BY DEF openView, NewView, DetailsInv, DetailsFit
<1>2. dvPanel' \notin NodeKeys /\ dvPanel' \notin Located
  BY <1>1, KeysDiffer
<1>3. MapsFit' /\ PanelOfSelected'
  BY <1>1, <1>2 DEF DetailsInv, MapsFit, PanelOfSelected
<1>4. SlideApart'
  BY <1>1, Zenon DEF DetailsInv, SlideApart
<1>5. ASSUME NEW r \in dvReqs'
      PROVE  r.key \in NodeKeys /\ r.inst \in 1..dvInst' /\ (r.to = "full" /\ r.inst = dvInst' => dvView' # "list")
  <2>1. CASE r \in dvReqs
    BY <1>1, <2>1 DEF DetailsInv, DetailsFit
  <2>2. CASE r \notin dvReqs
    <3>1. r = asked(k, "full", dvInst') /\ v = "full"
      BY <1>5, <2>2, Zenon DEF openView
    <3> QED BY <1>1, <3>1, AskedFor
  <2> QED BY <2>1, <2>2
<1>6. DetailsFit'
  BY <1>1, <1>5 DEF DetailsFit
<1> QED BY <1>3, <1>4, <1>6 DEF DetailsInv

LEMMA SelectKeeps ==
  ASSUME DetailsInv, NEW k \in NodeKeys, selectNode(k)
  PROVE  DetailsInv'
<1>1. /\ dvView = "list" /\ UNCHANGED <<dvView, dvNode, dvInst, dvWide>> /\ dvInst \in Nat /\ dvInst >= 1
  BY DEF selectNode, DetailsInv, DetailsFit
<1>2. CASE dvWide
  <2>1. /\ dvSel' = k /\ dvIn' = "panel" /\ dvPanel' = "loading" /\ dvMaps' = dvMaps \ {dvMap} /\ dvMap' = 0
        /\ dvReqs' = dvReqs \union {asked(k, "panel", dvInst)} /\ dvSlide' = dvSlide
    BY <1>2, Zenon DEF selectNode, removeDetailMap
  <2>2. dvPanel' \notin NodeKeys /\ dvPanel' \notin Located
    BY <2>1, KeysDiffer
  <2>3. MapsFit' /\ PanelOfSelected'
    BY <2>1, <2>2 DEF DetailsInv, MapsFit, PanelOfSelected
  <2>4. SlideApart'
    BY <1>1, <1>2, <2>1, Zenon DEF DetailsInv, SlideApart
  <2>5. DetailsFit'
    BY <1>1, <2>1, AskedFor DEF DetailsInv, DetailsFit
  <2> QED BY <2>3, <2>4, <2>5 DEF DetailsInv
<1>3. CASE ~dvWide
  <2>1. /\ dvSel' \in {k, NoKey} /\ dvIn' = "slide" /\ dvSlide' = "loading"
        /\ dvReqs' = dvReqs \union {asked(k, "slide", dvInst)} /\ UNCHANGED <<dvPanel, dvMaps, dvMap>>
    BY <1>3 DEF selectNode
  <2>2. MapsFit' /\ PanelOfSelected'
    BY <1>1, <2>1 DEF DetailsInv, MapsFit, PanelOfSelected
  <2>3. SlideApart'
    BY <1>1, <1>3, <2>1 DEF DetailsInv, SlideApart
  <2>4. DetailsFit'
    BY <1>1, <2>1, AskedFor DEF DetailsInv, DetailsFit
  <2> QED BY <2>2, <2>3, <2>4 DEF DetailsInv
<1> QED BY <1>2, <1>3

(* An answer leaves its request behind. *)
LEMMA AnsweredFits ==
  ASSUME DetailsInv, NEW r \in dvReqs, dvReqs' = dvReqs \ {r}, UNCHANGED <<dvView, dvNode, dvInst, dvSel>>,
         dvView = "none" => dvPanel' = "empty"
  PROVE  DetailsFit'
BY DEF DetailsInv, DetailsFit

LEMMA PanelArrivesKeeps ==
  ASSUME DetailsInv, NEW r \in dvReqs, panelArrives(r)
  PROVE  DetailsInv'
<1>1. /\ dvReqs' = dvReqs \ {r} /\ UNCHANGED <<dvView, dvNode, dvInst, dvWide, dvSel, dvIn, dvSlide>>
      /\ r.key \in NodeKeys /\ dvInst \in Nat
  BY DEF panelArrives, DetailsInv, DetailsFit
<1>2. SlideApart'
  BY <1>1, Zenon DEF DetailsInv, SlideApart
<1>3. CASE ~panelAccepts(r)
  <2>1. UNCHANGED <<dvPanel, dvMaps, dvMap>>
    BY <1>3, Zenon DEF panelArrives
  <2>2. DetailsFit'
    BY <1>1, <2>1, AnsweredFits DEF DetailsInv, DetailsFit
  <2> QED BY <1>1, <1>2, <2>1, <2>2, Zenon DEF DetailsInv, MapsFit, PanelOfSelected
<1>4. CASE panelAccepts(r)
  <2>1. dvPanel' = r.key /\ showMap(r.key) /\ dvSel = r.key /\ dvView = "list" /\ dvInst >= 1
    BY <1>4 DEF panelArrives, panelAccepts, DetailsInv, DetailsFit
  <2>2. DetailsFit'
    BY <1>1, <2>1, AnsweredFits
  <2>3. PanelOfSelected'
    BY <1>1, <2>1, Zenon DEF PanelOfSelected
  <2>4. MapsFit'
    <3>1. CASE r.key \in Located
      BY <1>1, <2>1, <3>1 DEF showMap, DetailsInv, MapsFit
    <3>2. CASE r.key \notin Located
      BY <1>1, <2>1, <3>2 DEF showMap, removeDetailMap, DetailsInv, MapsFit
    <3> QED BY <3>1, <3>2
  <2> QED BY <1>2, <2>2, <2>3, <2>4 DEF DetailsInv
<1> QED BY <1>3, <1>4

(* A late answer for a full view keeps its hands off another view's map. *)
LEMMA LateKeepsMap ==
  ASSUME DetailsInv, NEW r \in dvReqs, r.to = "full", ~fullHere(r), removeDetailMap(r.inst),
         UNCHANGED <<dvPanel, dvInst>>
  PROVE  MapsFit'
<1>1. r.inst \in 1..dvInst /\ dvInst \in Nat
  BY DEF DetailsInv, DetailsFit
<1>2. r.inst = dvInst => dvPanel \notin Located
  <2> SUFFICES ASSUME r.inst = dvInst PROVE dvPanel \notin Located
    OBVIOUS
  <2>1. dvView # "list" /\ dvView # "full" /\ dvView \in {"none", "list", "full"}
    BY DEF fullHere, DetailsInv, DetailsFit
  <2>2. dvPanel = "empty"
    BY <2>1 DEF DetailsInv, DetailsFit
  <2> QED BY <2>2, KeysDiffer
<1>3. CASE dvMap # 0 /\ dvMap # r.inst
  <2>1. r.inst # 0
    BY <1>1
  <2>2. dvMaps' = dvMaps /\ dvMap' = dvMap
    BY <1>3, <2>1, Zenon DEF removeDetailMap
  <2> QED BY <2>2, Zenon DEF DetailsInv, MapsFit
<1>4. CASE ~(dvMap # 0 /\ dvMap # r.inst)
  <2>1. dvMaps' = dvMaps \ {dvMap} /\ dvMap' = 0
    BY <1>4, Zenon DEF removeDetailMap
  <2>2. dvPanel \notin Located
    BY <1>1, <1>2, <1>4 DEF DetailsInv, MapsFit
  <2> QED BY <2>1, <2>2 DEF DetailsInv, MapsFit
<1> QED BY <1>3, <1>4

LEMMA FullArrivesKeeps ==
  ASSUME DetailsInv, NEW r \in dvReqs, fullArrives(r)
  PROVE  DetailsInv'
<1>1. /\ dvReqs' = dvReqs \ {r} /\ UNCHANGED <<dvView, dvNode, dvInst, dvWide, dvSel, dvIn, dvSlide>>
      /\ r.key \in NodeKeys /\ r.inst \in 1..dvInst /\ r.to = "full" /\ dvInst \in Nat
  BY DEF fullArrives, DetailsInv, DetailsFit
<1>2. SlideApart'
  BY <1>1, Zenon DEF DetailsInv, SlideApart
<1>3. CASE ~fullHere(r)
  <2>1. removeDetailMap(r.inst) /\ dvPanel' = dvPanel
    BY <1>3, Zenon DEF fullArrives
  <2>2. DetailsFit'
    BY <1>1, <2>1, AnsweredFits DEF DetailsInv, DetailsFit
  <2>3. MapsFit'
    BY <1>1, <1>3, <2>1, LateKeepsMap
  <2> QED BY <1>1, <1>2, <2>1, <2>2, <2>3, Zenon DEF DetailsInv, PanelOfSelected
<1>4. CASE fullHere(r)
  <2>1. dvPanel' = r.key /\ fullMap(r.key) /\ r.inst = dvInst /\ dvView = "full"
    BY <1>4, Zenon DEF fullArrives, fullHere
  <2>2. DetailsFit'
    BY <1>1, <2>1, AnsweredFits
  <2>3. PanelOfSelected'
    BY <1>1, <2>1 DEF PanelOfSelected
  <2>4. MapsFit'
    <3>1. CASE r.key \in Located
      <4>1. dvMaps' = (dvMaps \ {dvMap}) \union {dvInst} /\ dvMap' = dvInst
        BY <2>1, <3>1, Zenon DEF fullMap
      <4>2. dvMaps' \subseteq {dvMap'}
        BY <4>1, Zenon DEF DetailsInv, MapsFit
      <4> QED BY <1>1, <2>1, <4>1, <4>2 DEF MapsFit
    <3>2. CASE r.key \notin Located
      BY <1>1, <2>1, <3>2 DEF fullMap, removeDetailMap, DetailsInv, MapsFit
    <3> QED BY <3>1, <3>2
  <2> QED BY <1>2, <2>2, <2>3, <2>4 DEF DetailsInv
<1> QED BY <1>3, <1>4

LEMMA FullFailsKeeps ==
  ASSUME DetailsInv, NEW r \in dvReqs, fullFails(r)
  PROVE  DetailsInv'
<1>1. /\ dvReqs' = dvReqs \ {r} /\ UNCHANGED <<dvView, dvNode, dvInst, dvWide, dvSel, dvIn, dvSlide>>
      /\ removeDetailMap(r.inst) /\ r.to = "full" /\ r.inst \in 1..dvInst /\ dvInst \in Nat
      /\ dvPanel' = (IF fullHere(r) THEN "error" ELSE dvPanel)
  BY DEF fullFails, DetailsInv, DetailsFit
<1>2. SlideApart'
  BY <1>1, Zenon DEF DetailsInv, SlideApart
<1>3. DetailsFit'
  <2>1. dvView = "none" => dvPanel' = "empty"
    BY <1>1 DEF fullHere, DetailsInv, DetailsFit
  <2> QED BY <1>1, <2>1, AnsweredFits
<1>4. dvPanel' = "error" \/ dvPanel' = dvPanel
  BY <1>1
<1>5. PanelOfSelected'
  BY <1>1, <1>4, KeysDiffer DEF DetailsInv, PanelOfSelected
<1>6. MapsFit'
  <2>1. CASE fullHere(r)
    <3>1. dvPanel' \notin Located /\ r.inst = dvInst
      BY <1>1, <2>1, KeysDiffer DEF fullHere
    <3> QED BY <1>1, <3>1 DEF removeDetailMap, DetailsInv, MapsFit
  <2>2. CASE ~fullHere(r)
    BY <1>1, <2>2, LateKeepsMap
  <2> QED BY <2>1, <2>2
<1> QED BY <1>2, <1>3, <1>5, <1>6 DEF DetailsInv

(* The map goes with the view that closes. *)
LEMMA ClosedKeeps ==
  ASSUME DetailsInv, dvMaps' = dvMaps \ {dvMap}, dvMap' = 0, dvPanel' = "empty", dvSel' = NoKey,
         dvView' \in {dvView, "none"}, UNCHANGED <<dvInst, dvNode, dvWide, dvIn, dvReqs>>, dvSlide' \in {dvSlide, "closed"}
  PROVE  DetailsInv'
<1>1. dvPanel' \notin NodeKeys /\ dvPanel' \notin Located
  BY KeysDiffer
<1>2. MapsFit' /\ PanelOfSelected'
  BY <1>1 DEF DetailsInv, MapsFit, PanelOfSelected
<1>3. SlideApart'
  BY Zenon DEF DetailsInv, SlideApart
<1>4. DetailsFit'
  BY DEF DetailsInv, DetailsFit
<1> QED BY <1>2, <1>3, <1>4 DEF DetailsInv

LEMMA DetailsInvNext == DetailsInv /\ [DetailsNext]_dvVars => DetailsInv'
<1> SUFFICES ASSUME DetailsInv, [DetailsNext]_dvVars PROVE DetailsInv'
  OBVIOUS
<1>1. CASE openListView
  BY <1>1, OpenViewKeeps DEF openListView
<1>2. ASSUME NEW k \in NodeKeys, openFull(k) PROVE DetailsInv'
  BY <1>2, OpenViewKeeps DEF openFull
<1>3. CASE leaveViews
  BY <1>3, ClosedKeeps, Zenon DEF leaveViews
<1>4. ASSUME NEW k \in NodeKeys, selectNode(k) PROVE DetailsInv'
  BY <1>4, SelectKeeps
<1>5. CASE closePanel
  BY <1>5, ClosedKeeps, Zenon DEF closePanel, removeDetailMap
<1>6. CASE closeSlide
  <2>1. dvIn # "panel" /\ dvSlide' = "closed" /\ dvSel' = NoKey
        /\ UNCHANGED <<dvView, dvNode, dvInst, dvWide, dvIn, dvPanel, dvMaps, dvMap, dvReqs>>
    BY <1>6, Zenon DEF closeSlide, DetailsInv, SlideApart
  <2> QED BY <2>1, Zenon DEF DetailsInv, DetailsFit, SlideApart, MapsFit, PanelOfSelected
<1>7. CASE resizeViews
  BY <1>7, Zenon DEF resizeViews, DetailsInv, DetailsFit, SlideApart, MapsFit, PanelOfSelected
<1>8. ASSUME dvView = "full", dvReqs' = dvReqs \union {asked(dvNode, "full", dvInst)}, dvPanel' \in {dvPanel, "loading"},
             UNCHANGED <<dvView, dvNode, dvInst, dvWide, dvSel, dvIn, dvSlide, dvMaps, dvMap>>
      PROVE  DetailsInv'
  <2>1. DetailsFit'
    BY <1>8, AskedFor DEF DetailsInv, DetailsFit
  <2>2. MapsFit' /\ PanelOfSelected'
    BY <1>8, KeysDiffer DEF DetailsInv, MapsFit, PanelOfSelected
  <2>3. SlideApart'
    BY <1>8, Zenon DEF DetailsInv, SlideApart
  <2> QED BY <2>1, <2>2, <2>3 DEF DetailsInv
<1>9. CASE themeDetails
  <2>1. CASE dvSel # NoKey /\ selectNode(dvSel)
    <3>1. dvSel \in NodeKeys
      BY <2>1 DEF DetailsInv, DetailsFit
    <3> QED BY <2>1, <3>1, SelectKeeps
  <2>2. CASE ~(dvSel # NoKey /\ selectNode(dvSel))
    BY <1>8, <1>9, <2>2, Zenon DEF themeDetails
  <2> QED BY <2>1, <2>2
<1>10. CASE retryFull
  BY <1>8, <1>10, Zenon DEF retryFull
<1>11. ASSUME NEW r \in dvReqs, panelArrives(r) PROVE DetailsInv'
  BY <1>11, PanelArrivesKeeps
<1>12. ASSUME NEW r \in dvReqs, panelFails(r) PROVE DetailsInv'
  <2>1. /\ dvReqs' = dvReqs \ {r} /\ UNCHANGED <<dvView, dvNode, dvInst, dvWide, dvSel, dvIn, dvSlide, dvMaps, dvMap>>
        /\ dvPanel' = (IF panelAccepts(r) THEN "error" ELSE dvPanel)
    BY <1>12, Zenon DEF panelFails
  <2>2. dvView = "none" => dvPanel' = "empty"
    BY <2>1 DEF panelAccepts, DetailsInv, DetailsFit
  <2>3. DetailsFit'
    BY <2>1, <2>2, AnsweredFits
  <2>4. MapsFit' /\ PanelOfSelected'
    BY <2>1, KeysDiffer DEF DetailsInv, MapsFit, PanelOfSelected
  <2>5. SlideApart'
    BY <2>1, Zenon DEF DetailsInv, SlideApart
  <2> QED BY <2>3, <2>4, <2>5 DEF DetailsInv
<1>13. ASSUME NEW r \in dvReqs, fullArrives(r) PROVE DetailsInv'
  BY <1>13, FullArrivesKeeps
<1>14. ASSUME NEW r \in dvReqs, fullFails(r) PROVE DetailsInv'
  BY <1>14, FullFailsKeeps
<1>15. ASSUME NEW r \in dvReqs, slideArrives(r) PROVE DetailsInv'
  <2>1. /\ dvReqs' = dvReqs \ {r} /\ UNCHANGED <<dvView, dvNode, dvInst, dvWide, dvSel, dvIn, dvPanel, dvMaps, dvMap>>
        /\ dvSlide = "closed" => dvSlide' = "closed"
    BY <1>15, Zenon DEF slideArrives
  <2>2. DetailsFit'
    BY <2>1, AnsweredFits DEF DetailsInv, DetailsFit
  <2> QED BY <2>1, <2>2, Zenon DEF DetailsInv, SlideApart, MapsFit, PanelOfSelected
<1>16. CASE UNCHANGED dvVars
  BY <1>16, Zenon DEF dvVars, DetailsInv, DetailsFit, SlideApart, MapsFit, PanelOfSelected
<1> QED BY <1>1, <1>2, <1>3, <1>4, <1>5, <1>6, <1>7, <1>9, <1>10, <1>11, <1>12, <1>13, <1>14, <1>15, <1>16, Zenon
        DEF DetailsNext

LEMMA DetailsInvInit == DetailsInit => DetailsInv
<1> SUFFICES ASSUME DetailsInit PROVE DetailsInv
  OBVIOUS
<1>1. DetailsFit
  BY DEF DetailsInit, DetailsFit
<1>2. SlideApart
  BY Zenon DEF DetailsInit, SlideApart
<1>3. MapsFit /\ PanelOfSelected
  BY KeysDiffer DEF DetailsInit, MapsFit, PanelOfSelected
<1> QED BY <1>1, <1>2, <1>3 DEF DetailsInv

(* The panel shows the node that is selected, and the one map alive is     *)
(* that of the node on the screen (nodes.js, selectNode, removeDetailMap). *)
THEOREM NodeDetailsThm == DetailsInit /\ [][DetailsNext]_dvVars => [](PanelOfSelected /\ MapOfShown)
<1>1. DetailsInv => PanelOfSelected /\ MapOfShown
  BY DEF DetailsInv, MapsFit, MapOfShown
<1> QED BY <1>1, DetailsInvInit, DetailsInvNext, PTL

(* The four parts side by side. *)
NodesSpec ==
    /\ NodesInit /\ [][NodesNext]_ndVars
    /\ DetailsInit /\ [][DetailsNext]_dvVars
    /\ ReachSpec
    /\ RxInit /\ [][RxNext]_rxVars

(* The node list, its panel, the reach and the coverage pages show what    *)
(* the controls say, on one map each.                                      *)
THEOREM NodesConsistentThm == NodesSpec => []NodesConsistent
<1>1. /\ RowsFollowFilters /\ RowsOfRegion /\ PanelOfSelected /\ MapOfShown /\ ReachOneMap /\ CoverageAgrees
      /\ RxLinkReproduces /\ RxDrawsChoice
      => NodesConsistent
  BY Zenon DEF NodesConsistent
<1> QED BY <1>1, NodeRowsThm, NodeDetailsThm, ReachOneMapThm, CoverageAgreesThm, RxThm, PTL DEF NodesSpec

------------------------------------------------------------------------------
(* A route on the map.  The renders that listen are none or the last one;  *)
(* while there is no map its markers count as shown.                       *)
OneOver == {NoOver, [iso |-> 1, union |-> 0], [iso |-> 0, union |-> 1]}

RouteInv ==
    /\ rvN \in Nat /\ rvCloses \in Nat /\ rvMap \in BOOLEAN /\ rvMarkers \in BOOLEAN /\ rvClass \in BOOLEAN
    /\ WayBackToMarkers /\ (~rvMap => rvMarkers)
    /\ LeavingTakesItDown
    /\ rvTear \subseteq {rvN} /\ rvRecolor \subseteq {rvN} /\ (\E i : rvResize \subseteq {i})
    /\ rvOver \in OneOver /\ rvRows \in {"wired", "iso"}

LEMMA HashChangeKeeps ==
  ASSUME RouteInv, NEW h, hashChange(h)
  PROVE  RouteInv'
<1>1. /\ rvMap' = FALSE /\ rvMarkers' = TRUE /\ rvCloses' = 0 /\ rvOver' = NoOver /\ rvSide' = 0
      /\ UNCHANGED <<rvN, rvRecolor, rvRows>> /\ teardownIfNavigatedAway(h)
  BY DEF hashChange
<1>2. CASE h # "route" /\ rvTear # {}
  <2>1. rvClass' = FALSE /\ rvTear' = {} /\ rvResize' = {}
    BY <1>1, <1>2, Zenon DEF teardownIfNavigatedAway
  <2> QED BY <1>1, <2>1 DEF RouteInv, OneOver, WayBackToMarkers, LeavingTakesItDown
<1>3. CASE ~(h # "route" /\ rvTear # {})
  <2>1. rvClass' = rvClass /\ rvTear' = rvTear /\ rvResize' = rvResize
    BY <1>1, <1>3, Zenon DEF teardownIfNavigatedAway
  <2> QED BY <1>1, <2>1 DEF RouteInv, OneOver, WayBackToMarkers, LeavingTakesItDown
<1> QED BY <1>2, <1>3

(* A render's listeners take the place of those of the render before. *)
LEMMA ListensOnce ==
  ASSUME RouteInv, rvN' = rvN + 1, rvTear' = (rvTear \ {rvN}) \union {rvN + 1}, rvRecolor' = (rvRecolor \ {rvN}) \union {rvN + 1}
  PROVE  rvTear' \subseteq {rvN'} /\ rvTear' # {} /\ rvRecolor' \subseteq {rvN'} /\ rvN' \in Nat
BY DEF RouteInv

LEMMA HopsResolvedKeeps ==
  ASSUME RouteInv, NEW d, NEW located, NEW empty, hopsResolved(d, located, empty)
  PROVE  RouteInv'
<1>1. rvMap' = rvMap
  BY DEF hopsResolved
<1>2. CASE ~rvMap /\ d.multi
  <2>1. /\ rvN' = rvN + 1 /\ rvClass' = TRUE /\ rvTear' = (rvTear \ {rvN}) \union {rvN + 1}
        /\ rvRecolor' = (rvRecolor \ {rvN}) \union {rvN + 1}
        /\ UNCHANGED <<rvResize, rvMarkers, rvCloses, rvSide, rvOver, rvRows>>
    BY <1>2, Zenon DEF hopsResolved
  <2> QED BY <1>1, <2>1, ListensOnce, Zenon DEF RouteInv, WayBackToMarkers, LeavingTakesItDown
<1>3. CASE ~rvMap /\ ~d.multi
  <2>1. UNCHANGED <<rvN, rvClass, rvTear, rvRecolor, rvResize, rvMarkers, rvCloses, rvSide, rvOver, rvRows>>
    BY <1>3, Zenon DEF hopsResolved
  <2> QED BY <1>1, <2>1, Zenon DEF RouteInv, WayBackToMarkers, LeavingTakesItDown
<1>4. CASE rvMap
  <2>1. /\ rvMarkers' \in BOOLEAN /\ rvCloses' \in Nat /\ WayBackToMarkers'
    <3>1. CASE d.multi
      <4>1. rvMarkers' = rvMarkers /\ rvCloses' = rvCloses
        BY <1>4, <3>1, Zenon DEF hopsResolved
      <4> QED BY <1>1, <4>1, Zenon DEF RouteInv, WayBackToMarkers
    <3>2. CASE ~d.multi
      <4>1. rvMarkers' = FALSE /\ rvCloses' = rvCloses + 1
        BY <1>4, <3>2, Zenon DEF hopsResolved, hideMarkers
      <4>2. rvCloses' \in Nat /\ rvCloses' > 0
        BY <4>1 DEF RouteInv
      <4> QED BY <4>1, <4>2, Zenon DEF WayBackToMarkers
    <3> QED BY <3>1, <3>2
  <2>2. CASE empty
    <3>1. rvOver' \in {rvOver, NoOver} /\ UNCHANGED <<rvN, rvSide, rvClass, rvTear, rvRecolor, rvResize, rvRows>>
      BY <1>4, <2>2, Zenon DEF hopsResolved, rvListens
    <3> QED BY <1>1, <1>4, <2>1, <3>1, Zenon DEF RouteInv, OneOver, LeavingTakesItDown
  <2>3. CASE ~empty
    <3>1. render(d.multi, located)
      BY <1>4, <2>3, Zenon DEF hopsResolved
    <3>2. /\ rvN' = rvN + 1 /\ rvClass' = TRUE /\ rvTear' = (rvTear \ {rvN}) \union {rvN + 1}
          /\ rvRecolor' = (rvRecolor \ {rvN}) \union {rvN + 1} /\ rvOver' = NoOver /\ rvRows' = "wired"
          /\ rvResize' \in {{rvN + 1}, rvResize}
      BY <3>1, Zenon DEF render, renderListens, sidebarRows
    <3>3. \E i : rvResize' \subseteq {i}
      BY <3>2, Zenon DEF RouteInv
    <3> QED BY <1>1, <1>4, <2>1, <3>2, <3>3, ListensOnce, Zenon DEF RouteInv, OneOver, LeavingTakesItDown
  <2> QED BY <2>2, <2>3
<1> QED BY <1>2, <1>3, <1>4, Zenon DEF RouteInv

LEMMA RouteInvNext == RouteInv /\ [RouteNext]_rvVars => RouteInv'
<1> SUFFICES ASSUME RouteInv, [RouteNext]_rvVars PROVE RouteInv'
  OBVIOUS
<1>1. ASSUME NEW t \in BOOLEAN, drawPacketRoute(t) PROVE RouteInv'
  <2>1. /\ UNCHANGED <<rvMap, rvMarkers, rvCloses, rvN, rvSide, rvClass, rvTear, rvRecolor, rvResize, rvRows>>
        /\ rvOver' \in {rvOver, NoOver}
    BY <1>1, Zenon DEF drawPacketRoute
  <2> QED BY <2>1, Zenon DEF RouteInv, OneOver, WayBackToMarkers, LeavingTakesItDown
<1>2. ASSUME NEW d \in rvDraws, NEW located \in BOOLEAN, NEW empty \in BOOLEAN, hopsResolved(d, located, empty)
      PROVE  RouteInv'
  BY <1>2, HopsResolvedKeeps
<1>3. ASSUME NEW h \in {"other", "map", "route"}, navigateTo(h) PROVE RouteInv'
  BY <1>3, HashChangeKeeps DEF navigateTo
<1>4. CASE drawPacketRouteMulti
  BY <1>4, Zenon DEF drawPacketRouteMulti, RouteInv, WayBackToMarkers, LeavingTakesItDown
<1>5. CASE closeRoute
  <2>1. /\ rvMap /\ rvMarkers' = TRUE /\ rvOver' = NoOver /\ rvCloses > 0 /\ rvCloses' = rvCloses - 1
        /\ UNCHANGED <<rvMap, rvN, rvSide, rvClass, rvTear, rvRecolor, rvResize, rvRows>>
    BY <1>5 DEF closeRoute
  <2>2. rvCloses' \in Nat
    BY <2>1 DEF RouteInv
  <2> QED BY <2>1, <2>2, Zenon DEF RouteInv, OneOver, WayBackToMarkers, LeavingTakesItDown
<1>6. CASE mapReady
  <2>1. /\ rvMap' = TRUE /\ rvMarkers /\ UNCHANGED <<rvMarkers, rvCloses, rvN, rvSide, rvClass, rvTear, rvRecolor, rvResize, rvOver, rvRows>>
    BY <1>6, Zenon DEF mapReady, RouteInv
  <2> QED BY <2>1, Zenon DEF RouteInv, WayBackToMarkers, LeavingTakesItDown
<1>7. CASE closeSidebar
  <2>1. CASE rvHash = "map"
    <3>1. /\ rvSide' = 0 /\ rvOver' = NoOver /\ rvClass' = FALSE
          /\ UNCHANGED <<rvMap, rvMarkers, rvCloses, rvN, rvTear, rvRecolor, rvResize, rvRows>>
      BY <1>7, <2>1, Zenon DEF closeSidebar
    <3> QED BY <3>1, Zenon DEF RouteInv, OneOver, WayBackToMarkers, LeavingTakesItDown
  <2>2. CASE rvHash # "map"
    BY <1>7, <2>2, HashChangeKeeps, Zenon DEF closeSidebar
  <2> QED BY <2>1, <2>2
<1>8. CASE isolatePath
  BY <1>8, Zenon DEF isolatePath, RouteInv, OneOver, WayBackToMarkers, LeavingTakesItDown
<1>9. CASE restoreAllPaths
  <2>1. /\ rvOver' = [iso |-> 0, union |-> 1] /\ rvRows' \in {"wired", rvRows}
        /\ UNCHANGED <<rvMap, rvMarkers, rvCloses, rvN, rvSide, rvClass, rvTear, rvRecolor, rvResize>>
    BY <1>9, Zenon DEF restoreAllPaths
  <2> QED BY <2>1, Zenon DEF RouteInv, OneOver, WayBackToMarkers, LeavingTakesItDown
<1>10. CASE UNCHANGED rvVars
  BY <1>10, Zenon DEF rvVars, RouteInv, WayBackToMarkers, LeavingTakesItDown
<1> QED BY <1>1, <1>2, <1>3, <1>4, <1>5, <1>6, <1>7, <1>8, <1>9, <1>10, Zenon DEF RouteNext

LEMMA RouteInvInit == RouteInit => RouteInv
<1> SUFFICES ASSUME RouteInit PROVE RouteInv
  OBVIOUS
<1>1. rvN \in Nat /\ rvCloses \in Nat
  BY DEF RouteInit
<1>2. rvMap \in BOOLEAN /\ rvMarkers \in BOOLEAN /\ rvClass \in BOOLEAN /\ rvMarkers /\ ~rvClass
  BY Zenon DEF RouteInit
<1>3. rvTear \subseteq {rvN} /\ rvRecolor \subseteq {rvN} /\ rvResize \subseteq {0} /\ rvOver \in OneOver
      /\ rvRows \in {"wired", "iso"} /\ rvSide = 0
  BY DEF RouteInit, OneOver
<1> QED BY <1>1, <1>2, <1>3, Zenon DEF RouteInv, WayBackToMarkers, LeavingTakesItDown

(* Markers can be brought back, leaving takes the route view down with its *)
(* listeners, one overlay at a time lies over it and its rows answer       *)
(* (map.js, drawPacketRoute; route-view.js, MeshRouteView.render).         *)
THEOREM RouteThm ==
  RouteInit /\ [][RouteNext]_rvVars => [](WayBackToMarkers /\ LeavingTakesItDown /\ OneListenerEach /\ OneOverlay /\ RowsAnswer)
<1>1. RouteInv => WayBackToMarkers /\ LeavingTakesItDown
  BY DEF RouteInv
<1>2. RouteInv => OneListenerEach
  BY OneAtMost, Zenon DEF RouteInv, OneListenerEach
<1>3. RouteInv => OneOverlay
  BY DEF RouteInv, OneOver, NoOver, OneOverlay
<1>4. RouteInv => RowsAnswer
  BY DEF RouteInv, RowsAnswer
<1> QED BY <1>1, <1>2, <1>3, <1>4, RouteInvInit, RouteInvNext, PTL

------------------------------------------------------------------------------
(* The cache of hop details: keys in the order of their use, none twice.   *)
Distinct(s) == \A i, j \in 1..Len(s) : s[i] = s[j] => i = j
DetailInv == hdCache \in Seq(HopKeys) /\ Len(hdCache) <= DetailMax /\ Distinct(hdCache)
             /\ (hdOpen = {} \/ \E k \in HopKeys : hdOpen = {k})

LEMMA RemovedAt ==
  ASSUME NEW S, NEW s \in Seq(S), NEW n \in 1..Len(s)
  PROVE  /\ RemoveAt(s, n) \in Seq(S)
         /\ Len(RemoveAt(s, n)) = Len(s) - 1
         /\ \A i \in 1..Len(s) - 1 : RemoveAt(s, n)[i] = (IF i < n THEN s[i] ELSE s[i + 1])
<1> DEFINE a == SubSeq(s, 1, n - 1)
           b == SubSeq(s, n + 1, Len(s))
<1>1. Len(s) \in Nat /\ n \in Int /\ \A i \in 1..Len(s) : s[i] \in S
  OBVIOUS
<1>2. a \in Seq(S) /\ Len(a) = n - 1 /\ \A i \in 1..n - 1 : a[i] = s[i]
  <2>1. \A i \in 1..n - 1 : s[i] \in S
    BY <1>1
  <2> QED BY <1>1, <2>1, SubSeqProperties
<1>3. b \in Seq(S) /\ Len(b) = Len(s) - n /\ \A i \in 1..Len(s) - n : b[i] = s[n + i]
  <2>1. \A i \in n + 1..Len(s) : s[i] \in S
    BY <1>1
  <2>2. /\ b \in Seq(S) /\ Len(b) = (IF n + 1 <= Len(s) THEN Len(s) - (n + 1) + 1 ELSE 0)
        /\ \A i \in 1..Len(s) - (n + 1) + 1 : b[i] = s[(n + 1) + i - 1]
    <3> HIDE DEF a
    <3> QED BY <1>1, <2>1, SubSeqProperties
  <2> HIDE DEF a, b
  <2>3. \A i \in 1..Len(s) - n : b[i] = s[n + i]
    <3> SUFFICES ASSUME NEW i \in 1..Len(s) - n PROVE b[i] = s[n + i]
      OBVIOUS
    <3>1. i \in 1..Len(s) - (n + 1) + 1 /\ (n + 1) + i - 1 = n + i
      BY <1>1
    <3> QED BY <2>2, <3>1
  <2> QED BY <1>1, <2>2, <2>3
<1> HIDE DEF a, b
<1>4. /\ a \o b \in Seq(S) /\ Len(a \o b) = Len(a) + Len(b)
      /\ \A i \in 1..Len(a) + Len(b) : (a \o b)[i] = (IF i <= Len(a) THEN a[i] ELSE b[i - Len(a)])
  BY <1>2, <1>3, ConcatProperties
<1>5. RemoveAt(s, n) = a \o b
  BY DEF RemoveAt, a, b
<1>6. ASSUME NEW i \in 1..Len(s) - 1 PROVE (a \o b)[i] = (IF i < n THEN s[i] ELSE s[i + 1])
  <2>1. i \in 1..Len(a) + Len(b)
    BY <1>1, <1>2, <1>3
  <2>2. CASE i < n
    <3>1. i <= Len(a) /\ i \in 1..n - 1
      BY <1>1, <1>2, <2>2
    <3> QED BY <1>2, <1>4, <2>1, <2>2, <3>1
  <2>3. CASE ~(i < n)
    <3>1. ~(i <= Len(a)) /\ i - Len(a) \in 1..Len(s) - n /\ n + (i - Len(a)) = i + 1
      BY <1>1, <1>2, <2>3
    <3>2. b[i - Len(a)] = s[i + 1]
      BY <1>3, <3>1
    <3> QED BY <1>4, <2>1, <2>3, <3>1, <3>2
  <2> QED BY <2>2, <2>3
<1>7. Len(a \o b) = Len(s) - 1
  BY <1>1, <1>2, <1>3, <1>4
<1> DEFINE c == a \o b
<1>8. c \in Seq(S) /\ Len(c) = Len(s) - 1 /\ \A i \in 1..Len(s) - 1 : c[i] = (IF i < n THEN s[i] ELSE s[i + 1])
  BY <1>4, <1>6, <1>7
<1> HIDE DEF c
<1>9. RemoveAt(s, n) = c
  BY <1>5 DEF c
<1> QED BY <1>8, <1>9, Zenon

LEMMA BumpKeepsDistinct ==
  ASSUME NEW S, NEW s \in Seq(S), Distinct(s), NEW k \in S, Contains(s, k)
  PROVE  /\ Append(Without(s, k), k) \in Seq(S) /\ Len(Append(Without(s, k), k)) = Len(s)
         /\ Distinct(Append(Without(s, k), k))
<1> DEFINE n == CHOOSE i \in DOMAIN s : s[i] = k
           r == RemoveAt(s, n)
           t == Append(r, k)
<1>1. n \in 1..Len(s) /\ s[n] = k /\ Len(s) \in Nat
  BY DEF Contains
<1> HIDE DEF n
<1>2. r \in Seq(S) /\ Len(r) = Len(s) - 1 /\ \A i \in 1..Len(s) - 1 : r[i] = (IF i < n THEN s[i] ELSE s[i + 1])
  BY <1>1, RemovedAt
<1> HIDE DEF r
<1>3. /\ t \in Seq(S) /\ Len(t) = Len(r) + 1 /\ t[Len(r) + 1] = k
      /\ \A i \in 1..Len(r) : t[i] = r[i]
  BY <1>2, AppendProperties
<1> HIDE DEF t
<1> DEFINE f(i) == IF i = Len(s) THEN n ELSE IF i < n THEN i ELSE i + 1
<1>4. ASSUME NEW i \in 1..Len(s) PROVE f(i) \in 1..Len(s) /\ t[i] = s[f(i)]
  <2>1. CASE i = Len(s)
    BY <1>1, <1>2, <1>3, <2>1
  <2>2. CASE i # Len(s)
    <3>1. i \in 1..Len(s) - 1
      BY <1>1, <2>2
    <3>2. t[i] = r[i]
      BY <1>2, <1>3, <3>1
    <3> QED BY <1>1, <1>2, <2>2, <3>1, <3>2
  <2> QED BY <2>1, <2>2
<1>5. ASSUME NEW i \in 1..Len(s), NEW j \in 1..Len(s), f(i) = f(j) PROVE i = j
  BY <1>1, <1>5
<1> HIDE DEF f
<1>6. Len(t) = Len(s)
  BY <1>1, <1>2, <1>3
<1>7. ASSUME NEW i \in 1..Len(t), NEW j \in 1..Len(t), t[i] = t[j] PROVE i = j
  BY <1>4, <1>5, <1>6, <1>7 DEF Distinct
<1>8. t = Append(Without(s, k), k)
  BY DEF t, r, n, Without
<1> QED BY <1>3, <1>6, <1>7, <1>8 DEF Distinct

LEMMA RoomIsMade ==
  ASSUME NEW S, NEW s \in Seq(S), Distinct(s), NEW m \in Nat
  PROVE  LastOnes(s, m) \in Seq(S) /\ Len(LastOnes(s, m)) <= m /\ Distinct(LastOnes(s, m))
<1>1. Len(s) \in Nat /\ \A i \in 1..Len(s) : s[i] \in S
  OBVIOUS
<1>2. CASE Len(s) <= m
  BY <1>1, <1>2 DEF LastOnes
<1>3. CASE ~(Len(s) <= m)
  <2> DEFINE u == Len(s) - m + 1
             r == SubSeq(s, u, Len(s))
  <2>1. u \in Int /\ u \in 1..Len(s) + 1 /\ \A i \in u..Len(s) : s[i] \in S
    BY <1>1, <1>3
  <2>2. /\ r \in Seq(S) /\ Len(r) = (IF u <= Len(s) THEN Len(s) - u + 1 ELSE 0)
        /\ \A i \in 1..Len(s) - u + 1 : r[i] = s[u + i - 1]
    <3> HIDE DEF u
    <3> QED BY <1>1, <2>1, SubSeqProperties
  <2>3. LastOnes(s, m) = r
    BY <1>3 DEF LastOnes
  <2> HIDE DEF r
  <2>4. Len(r) = m
    BY <1>1, <1>3, <2>2
  <2>5. ASSUME NEW i \in 1..m, NEW j \in 1..m, r[i] = r[j] PROVE i = j
    <3>1. u + i - 1 \in 1..Len(s) /\ u + j - 1 \in 1..Len(s) /\ i \in 1..Len(s) - u + 1 /\ j \in 1..Len(s) - u + 1
      BY <1>1, <1>3
    <3>2. s[u + i - 1] = s[u + j - 1]
      BY <2>2, <2>5, <3>1
    <3>3. u + i - 1 = u + j - 1
      BY <3>1, <3>2 DEF Distinct
    <3> QED BY <1>1, <3>3
  <2> QED BY <2>2, <2>3, <2>4, <2>5 DEF Distinct
<1> QED BY <1>2, <1>3

LEMMA AddedStaysDistinct ==
  ASSUME NEW S, NEW s \in Seq(S), Distinct(s), NEW k \in S, ~Contains(s, k)
  PROVE  Append(s, k) \in Seq(S) /\ Len(Append(s, k)) = Len(s) + 1 /\ Distinct(Append(s, k))
<1>1. /\ Append(s, k) \in Seq(S) /\ Len(Append(s, k)) = Len(s) + 1 /\ Append(s, k)[Len(s) + 1] = k
      /\ \A i \in 1..Len(s) : Append(s, k)[i] = s[i]
  BY AppendProperties
<1>2. \A i \in 1..Len(s) : s[i] # k
  BY DEF Contains
<1>3. Len(s) \in Nat
  OBVIOUS
<1>4. ASSUME NEW i \in 1..Len(s) + 1, NEW j \in 1..Len(s) + 1, Append(s, k)[i] = Append(s, k)[j] PROVE i = j
  <2>1. CASE i \in 1..Len(s) /\ j \in 1..Len(s)
    BY <1>1, <1>4, <2>1 DEF Distinct
  <2>2. CASE ~(i \in 1..Len(s) /\ j \in 1..Len(s))
    <3>1. i = Len(s) + 1 \/ j = Len(s) + 1
      BY <1>3, <2>2
    <3> QED BY <1>1, <1>2, <1>3, <1>4, <3>1
  <2> QED BY <2>1, <2>2
<1> QED BY <1>1, <1>4 DEF Distinct

LEMMA DetailInvNext == DetailInv /\ [DetailNext]_hdVars => DetailInv'
<1> SUFFICES ASSUME DetailInv, [DetailNext]_hdVars PROVE DetailInv'
  OBVIOUS
<1> DEFINE Kept == hdCache' \in Seq(HopKeys) /\ Len(hdCache') <= DetailMax /\ Distinct(hdCache')
           Open == hdOpen' = {} \/ \E k \in HopKeys : hdOpen' = {k}
<1>1. CASE detailClear
  <2>1. hdCache' = <<>> /\ hdOpen' = {}
    BY <1>1 DEF detailClear
  <2>2. Kept
    BY <2>1, RouteViewAssumption DEF Distinct
  <2> QED BY <2>1, <2>2 DEF DetailInv
<1>2. ASSUME NEW k \in HopKeys, rowClick(k) PROVE DetailInv'
  <2>1. CASE k \in hdOpen
    <3>1. hdOpen' = {} /\ hdCache' = hdCache
      BY <1>2, <2>1 DEF rowClick, DetailInv
    <3> QED BY <3>1 DEF DetailInv
  <2>2. CASE k \notin hdOpen
    <3>1. hdOpen' = {k} /\ fetchHopDetail(k)
      BY <1>2, <2>2, Zenon DEF rowClick, openPanel
    <3>2. CASE Contains(hdCache, k)
      <4>1. hdCache' = Append(Without(hdCache, k), k)
        BY <3>1, <3>2, Zenon DEF fetchHopDetail
      <4>2. Kept
        BY <4>1, <3>2, BumpKeepsDistinct DEF DetailInv
      <4> QED BY <3>1, <4>2 DEF DetailInv
    <3>3. CASE ~Contains(hdCache, k)
      <4>1. hdCache' = hdCache
        BY <3>1, <3>3, Zenon DEF fetchHopDetail
      <4> QED BY <3>1, <4>1 DEF DetailInv
    <3> QED BY <3>2, <3>3
  <2> QED BY <2>1, <2>2
<1>3. ASSUME NEW k \in HopKeys, detailArrives(k) PROVE DetailInv'
  <2>1. DetailMax - 1 \in Nat /\ DetailMax \in Nat
    BY RouteViewAssumption
  <2>2. detailRoom \in Seq(HopKeys) /\ Len(detailRoom) <= DetailMax - 1 /\ Distinct(detailRoom)
    BY <2>1, RoomIsMade DEF detailRoom, DetailInv
  <2>3. hdOpen' = hdOpen /\ hdCache' = (IF Contains(detailRoom, k) THEN detailRoom ELSE Append(detailRoom, k))
    BY <1>3 DEF detailArrives
  <2>4. Kept
    <3>1. CASE Contains(detailRoom, k)
      BY <2>1, <2>2, <2>3, <3>1
    <3>2. CASE ~Contains(detailRoom, k)
      BY <2>1, <2>2, <2>3, <3>2, AddedStaysDistinct
    <3> QED BY <3>1, <3>2
  <2> QED BY <2>3, <2>4 DEF DetailInv
<1>4. CASE UNCHANGED hdVars
  BY <1>4 DEF hdVars, DetailInv
<1> QED BY <1>1, <1>2, <1>3, <1>4, Zenon DEF DetailNext

(* At most DETAIL_CACHE_MAX details are kept, none twice, and one panel is *)
(* open (route-view.js, fetchHopDetail).                                   *)
THEOREM HopDetailThm == DetailInit /\ [][DetailNext]_hdVars => [](DetailBounded /\ OnePanelOpen)
<1>1. DetailInit => DetailInv
  BY RouteViewAssumption DEF DetailInit, DetailInv, Distinct
<1>2. DetailInv => DetailBounded
  BY DEF DetailInv, DetailBounded, Distinct
<1>3. DetailInv => OnePanelOpen
  <2>1. CASE hdOpen = {}
    BY <2>1, OneAtMost DEF OnePanelOpen
  <2>2. ASSUME NEW k \in HopKeys, hdOpen = {k} PROVE OnePanelOpen
    BY <2>2, OneAtMost DEF OnePanelOpen
  <2> QED BY <2>1, <2>2 DEF DetailInv
<1> QED BY <1>1, <1>2, <1>3, DetailInvNext, PTL

------------------------------------------------------------------------------
(* The map page.  While a load is under way the markers may be behind its  *)
(* nodes; the last half of it draws them.                                  *)
MapInv ==
    /\ mpOn \in {"off", "init", "on"} /\ mpHeatBox \in BOOLEAN
    /\ DrawnIsLoaded /\ MapListensOnce
    /\ mpPending \in {0, 1, 2} /\ mpRoutes \in [{1, 2} -> {0, 1}] /\ \A r \in {1, 2} : mpPending = r => mpRoutes[r] = 0

LEMMA HeatIsOfDrawn ==
  ASSUME NEW on, NEW drawn, toggleHeatmap(on, drawn)
  PROVE  mpHeat' \in {NoWindow, drawn}
BY DEF toggleHeatmap

(* The routes that were left. *)
RoutesLeft == mpPending \in {0, 1, 2} /\ mpRoutes \in [{1, 2} -> {0, 1}] /\ \A r \in {1, 2} : mpPending = r => mpRoutes[r] = 0

LEMMA DrawPendingOnce ==
  ASSUME RoutesLeft, drawPending
  PROVE  RoutesLeft'
<1>1. CASE mpPending = 0
  <2>1. mpPending' = mpPending /\ mpRoutes' = mpRoutes
    BY <1>1, Zenon DEF drawPending
  <2> QED BY <2>1, Zenon DEF RoutesLeft
<1>2. CASE mpPending # 0
  <2>1. mpRoutes' = [mpRoutes EXCEPT ![mpPending] = @ + 1] /\ mpPending' = 0
    BY <1>2, Zenon DEF drawPending, takePending
  <2> QED BY <1>2, <2>1 DEF RoutesLeft
<1> QED BY <1>1, <1>2

LEMMA MapInvNext == MapInv /\ [MapNext]_mpVars => MapInv'
<1> SUFFICES ASSUME MapInv, [MapNext]_mpVars PROVE MapInv'
  OBVIOUS
<1> DEFINE SameRoutes == UNCHANGED <<mpPending, mpRoutes>>
<1>0. RoutesLeft
  BY Zenon DEF MapInv, RoutesLeft
<1>1. ASSUME NEW a \in mpAsks, nodesLoaded(a) PROVE MapInv'
  <2>1. /\ mpAsks' # {}
        /\ UNCHANGED <<mpOn, mpFailed, mpHeatBox, mpPending, mpRoutes, mpHandlers>>
    BY <1>1 DEF nodesLoaded
  <2> QED BY <2>1, Zenon DEF MapInv, DrawnIsLoaded, Arrived, MapListensOnce
<1>2. ASSUME NEW a \in mpAsks, observersLoaded(a) PROVE MapInv'
  <2>1. UNCHANGED <<mpOn, mpNodes, mpFailed, mpHeatBox, mpHandlers>>
    BY <1>2, Zenon DEF observersLoaded
  <2>2. CASE mpOn = "on"
    <3>1. mpDrawn' = mpNodes /\ toggleHeatmap(mpHeatBox, mpNodes) /\ drawPending
      BY <1>2, <2>2, Zenon DEF observersLoaded, renderMarkers
    <3>2. mpHeat' \in {NoWindow, mpNodes}
      BY <3>1, HeatIsOfDrawn
    <3>3. RoutesLeft'
      BY <1>0, <3>1, DrawPendingOnce
    <3> QED BY <2>1, <3>1, <3>2, <3>3, Zenon DEF MapInv, RoutesLeft, DrawnIsLoaded, Arrived, MapListensOnce
  <2>3. CASE mpOn # "on"
    <3>1. UNCHANGED <<mpPending, mpRoutes>>
      BY <1>2, <2>3, Zenon DEF observersLoaded
    <3> QED BY <2>1, <2>3, <3>1, Zenon DEF MapInv, DrawnIsLoaded, Arrived, MapListensOnce
  <2> QED BY <2>2, <2>3
<1>3. ASSUME NEW a \in mpAsks, loadFails(a) PROVE MapInv'
  BY <1>3, Zenon DEF loadFails, MapInv, DrawnIsLoaded, Arrived, MapListensOnce
<1>4. ASSUME NEW w \in Windows, lastHeardChange(w) PROVE MapInv'
  <2>1. mpAsks' # {} /\ UNCHANGED <<mpOn, mpFailed, mpHeatBox, mpPending, mpRoutes, mpHandlers>>
    BY <1>4 DEF lastHeardChange, NewLoad
  <2> QED BY <2>1, Zenon DEF MapInv, DrawnIsLoaded, Arrived, MapListensOnce
<1>5. ASSUME NEW r \in {1, 2}, inspectorShows(r) PROVE MapInv'
  <2>1. /\ UNCHANGED <<mpOn, mpAsks, mpNodes, mpDrawn, mpFailed, mpHeatBox, mpHeat, mpHandlers>>
        /\ mpRoutes[r] = 0 /\ mpPending' = r /\ mpRoutes' = mpRoutes
    BY <1>5, Zenon DEF inspectorShows
  <2>2. RoutesLeft'
    BY <1>0, <2>1 DEF RoutesLeft
  <2> QED BY <2>1, <2>2, Zenon DEF MapInv, RoutesLeft, DrawnIsLoaded, Arrived, MapListensOnce
<1>6. CASE initMap
  <2>1. /\ mpOn' = "init" /\ mpOn = "off"
        /\ UNCHANGED <<mpHeatBox, mpPending, mpRoutes, mpHandlers>>
    BY <1>6, Zenon DEF initMap
  <2>2. DrawnIsLoaded' /\ MapListensOnce'
    BY <2>1 DEF MapInv, DrawnIsLoaded, Arrived, MapListensOnce
  <2> QED BY <2>1, <2>2, Zenon DEF MapInv
<1>7. CASE mapConfigArrives
  <2>1. /\ mpOn = "init" /\ mpOn' = "on" /\ mpHandlers' = mpHandlers + 1 /\ mpAsks' # {}
        /\ UNCHANGED <<mpHeatBox, mpPending, mpRoutes>>
    BY <1>7 DEF mapConfigArrives, NewLoad
  <2>2. DrawnIsLoaded' /\ MapListensOnce'
    BY <2>1 DEF MapInv, DrawnIsLoaded, Arrived, MapListensOnce
  <2> QED BY <2>1, <2>2, Zenon DEF MapInv
<1>8. CASE destroyMap
  <2>1. /\ mpOn' = "off" /\ mpHandlers' = (IF mpOn = "on" THEN mpHandlers - 1 ELSE mpHandlers)
        /\ UNCHANGED <<mpHeatBox, mpPending, mpRoutes>>
    BY <1>8, Zenon DEF destroyMap
  <2>2. DrawnIsLoaded' /\ MapListensOnce'
    BY <2>1 DEF MapInv, DrawnIsLoaded, Arrived, MapListensOnce
  <2> QED BY <2>1, <2>2, Zenon DEF MapInv
<1>9. CASE advertSeen
  <2>1. mpAsks' # {} /\ UNCHANGED <<mpOn, mpFailed, mpHeatBox, mpPending, mpRoutes, mpHandlers>>
    BY <1>9 DEF advertSeen, NewLoad
  <2> QED BY <2>1, Zenon DEF MapInv, DrawnIsLoaded, Arrived, MapListensOnce
<1>10. CASE heatChange
  <2>1. /\ mpHeat' \in {NoWindow, mpNodes} /\ mpHeatBox' = ~mpHeatBox
        /\ UNCHANGED <<mpOn, mpAsks, mpNodes, mpDrawn, mpFailed, mpPending, mpRoutes, mpHandlers>>
    BY <1>10, HeatIsOfDrawn, Zenon DEF heatChange
  <2> QED BY <2>1, Zenon DEF MapInv, DrawnIsLoaded, Arrived, MapListensOnce
<1>11. CASE filterChange
  BY <1>11, Zenon DEF filterChange, renderMarkers, MapInv, DrawnIsLoaded, Arrived, MapListensOnce
<1>12. CASE UNCHANGED mpVars
  BY <1>12, Zenon DEF mpVars, MapInv, DrawnIsLoaded, Arrived, MapListensOnce
<1> QED BY <1>1, <1>2, <1>3, <1>4, <1>5, <1>6, <1>7, <1>8, <1>9, <1>10, <1>11, <1>12, Zenon DEF MapNext

(* With nothing on its way the markers are those of the list, a route left *)
(* for the map is drawn once and the page listens once (map.js, loadNodes, *)
(* renderMarkers).                                                         *)
THEOREM MapThm == MapInit /\ [][MapNext]_mpVars => [](DrawnIsLoaded /\ PendingDrawnOnce /\ MapListensOnce)
<1>1. MapInit => MapInv
  <2> SUFFICES ASSUME MapInit PROVE MapInv
    OBVIOUS
  <2>1. mpHeatBox \in BOOLEAN
    BY Zenon DEF MapInit
  <2>2. mpOn = "off" /\ mpHandlers = 0 /\ mpPending = 0 /\ mpRoutes \in [{1, 2} -> {0, 1}]
    BY DEF MapInit
  <2> QED BY <2>1, <2>2 DEF MapInv, DrawnIsLoaded, Arrived, MapListensOnce
<1>2. MapInv => DrawnIsLoaded /\ PendingDrawnOnce /\ MapListensOnce
  BY DEF MapInv, PendingDrawnOnce
<1> QED BY <1>1, <1>2, MapInvNext, PTL

------------------------------------------------------------------------------
(* The important links. *)
TopInv ==
    /\ trAsks \in Nat /\ trBox \in BOOLEAN /\ trTimer \in BOOLEAN /\ trEdges \in BOOLEAN
    /\ trLayers \in {0, 1} /\ (trLayers = 1 => trEdges)
    /\ TopFollowsControls

LEMMA RenderedTop ==
  ASSUME TopInv, NEW axis, NEW n, renderTopRoutes(axis, n), trEdges => trEdges'
  PROVE  /\ trLayers' \in {0, 1} /\ (trLayers' = 1 => trEdges')
         /\ trLayers' > 0 => trDrawnBy' = <<axis, n>>
<1>1. CASE trEdges'
  <2>1. trLayers' = clearTopRoutes + 1 /\ trDrawnBy' = <<axis, n>>
    BY <1>1, Zenon DEF renderTopRoutes
  <2> QED BY <1>1, <2>1 DEF clearTopRoutes
<1>2. CASE ~trEdges'
  <2>1. trLayers' = trLayers
    BY <1>2, Zenon DEF renderTopRoutes
  <2>2. trLayers' = 0
    BY <1>2, <2>1, Zenon DEF TopInv
  <2> QED BY <2>2
<1> QED BY <1>1, <1>2

LEMMA TopInvNext == TopInv /\ [TopNext]_trVars => TopInv'
<1> SUFFICES ASSUME TopInv, [TopNext]_trVars PROVE TopInv'
  OBVIOUS
<1>1. ASSUME NEW x \in {"usefulness", "affinity"}, rankByChange(x) PROVE TopInv'
  <2>1. trAxis' = x /\ UNCHANGED <<trBox, trAsks, trEdges, trTimer, trN>>
    BY <1>1 DEF rankByChange
  <2>2. CASE trBox
    <3>1. renderTopRoutes(x, trN)
      BY <1>1, <2>2, Zenon DEF rankByChange
    <3>2. /\ trLayers' \in {0, 1} /\ (trLayers' = 1 => trEdges')
          /\ trLayers' > 0 => trDrawnBy' = <<x, trN>>
      BY <2>1, <3>1, RenderedTop
    <3> QED BY <2>1, <3>2, Zenon DEF TopInv, TopFollowsControls
  <2>3. CASE ~trBox
    <3>1. trLayers' = trLayers
      BY <1>1, <2>3, Zenon DEF rankByChange
    <3> QED BY <2>1, <2>3, <3>1, Zenon DEF TopInv, TopFollowsControls
  <2> QED BY <2>2, <2>3
<1>2. ASSUME NEW n \in {10, 50}, sliderInput(n) PROVE TopInv'
  <2>1. trTimer' = (trTimer \/ trBox) /\ UNCHANGED <<trBox, trAxis, trAsks, trEdges, trLayers, trDrawnBy>>
    BY <1>2, Zenon DEF sliderInput
  <2>2. trTimer' \in BOOLEAN /\ (trBox => trTimer')
    BY <2>1, Zenon
  <2> QED BY <2>1, <2>2, Zenon DEF TopInv, TopFollowsControls
<1>3. ASSUME NEW ok \in BOOLEAN, loadTopRoutes(ok) PROVE TopInv'
  <2>1. trAsks > 0 /\ trAsks' = trAsks - 1 /\ UNCHANGED <<trAxis, trTimer, trN>>
    BY <1>3 DEF loadTopRoutes
  <2>2. trAsks' \in Nat
    BY <2>1 DEF TopInv
  <2>3. CASE ok
    <3>1. trEdges' = TRUE /\ renderTopRoutes(trAxis, trN) /\ trBox' = trBox
      BY <1>3, <2>3, Zenon DEF loadTopRoutes
    <3>2. /\ trLayers' \in {0, 1} /\ (trLayers' = 1 => trEdges')
          /\ trLayers' > 0 => trDrawnBy' = <<trAxis, trN>>
      BY <3>1, RenderedTop
    <3> QED BY <2>1, <2>2, <3>1, <3>2, Zenon DEF TopInv, TopFollowsControls
  <2>4. CASE ~ok
    <3>1. trBox' = FALSE /\ trEdges' = trEdges /\ trLayers' = trLayers /\ trDrawnBy' = trDrawnBy
      BY <1>3, <2>4, Zenon DEF loadTopRoutes
    <3> QED BY <2>1, <2>2, <3>1, Zenon DEF TopInv, TopFollowsControls
  <2> QED BY <2>3, <2>4
<1>4. CASE topBoxChange
  <2>1. trBox' = ~trBox /\ UNCHANGED <<trAxis, trEdges, trTimer, trDrawnBy, trN>>
    BY <1>4, Zenon DEF topBoxChange
  <2>2. CASE trBox
    <3>1. trLayers' = 0 /\ trAsks' = trAsks
      BY <1>4, <2>2, Zenon DEF topBoxChange, clearTopRoutes
    <3> QED BY <2>1, <2>2, <3>1, Zenon DEF TopInv, TopFollowsControls
  <2>3. CASE ~trBox
    <3>1. trLayers' = trLayers /\ trAsks' = trAsks + 1
      BY <1>4, <2>3, Zenon DEF topBoxChange
    <3>2. trAsks' \in Nat /\ trAsks' # 0
      BY <3>1 DEF TopInv
    <3> QED BY <2>1, <3>1, <3>2, Zenon DEF TopInv, TopFollowsControls
  <2> QED BY <2>2, <2>3
<1>5. CASE sliderTimer
  <2>1. trTimer' = FALSE /\ UNCHANGED <<trEdges, trBox, trAxis, trAsks, trN>> /\ renderTopRoutes(trAxis, trN)
    BY <1>5, Zenon DEF sliderTimer
  <2>2. /\ trLayers' \in {0, 1} /\ (trLayers' = 1 => trEdges')
        /\ trLayers' > 0 => trDrawnBy' = <<trAxis, trN>>
    BY <2>1, RenderedTop
  <2> QED BY <2>1, <2>2, Zenon DEF TopInv, TopFollowsControls
<1>6. CASE topReload
  <2>1. trAsks' = trAsks + 1 /\ UNCHANGED <<trBox, trEdges, trTimer, trLayers>>
    BY <1>6, Zenon DEF topReload
  <2>2. trAsks' \in Nat /\ trAsks' # 0
    BY <2>1 DEF TopInv
  <2> QED BY <2>1, <2>2, Zenon DEF TopInv, TopFollowsControls
<1>7. CASE UNCHANGED trVars
  BY <1>7, Zenon DEF trVars, TopInv, TopFollowsControls
<1> QED BY <1>1, <1>2, <1>3, <1>4, <1>5, <1>6, <1>7, Zenon DEF TopNext

(* One layer of links lies on the map, of the axis and the number that the *)
(* controls show (map.js, renderTopRoutes).                                *)
THEOREM TopThm == TopInit /\ [][TopNext]_trVars => [](OneTopLayer /\ TopFollowsControls)
<1>1. TopInit => TopInv
  <2> SUFFICES ASSUME TopInit PROVE TopInv
    OBVIOUS
  <2>1. trBox \in BOOLEAN /\ trTimer \in BOOLEAN /\ trEdges \in BOOLEAN /\ ~trBox
    BY Zenon DEF TopInit
  <2>2. trAsks \in Nat /\ trLayers = 0
    BY DEF TopInit
  <2> QED BY <2>1, <2>2 DEF TopInv, TopFollowsControls
<1>2. TopInv => OneTopLayer /\ TopFollowsControls
  BY DEF TopInv, OneTopLayer
<1> QED BY <1>1, <1>2, TopInvNext, PTL

------------------------------------------------------------------------------
(* The tiles. *)
LEMMA Synced ==
  ASSUME NEW dark \in BOOLEAN, NEW dp, NEW lp, _syncDarkTiles(dark, dp, lp)
  PROVE  tlShown' = (IF dark THEN dp ELSE lp) /\ tlRef' = (dark /\ dp = "esri")
BY Zenon DEF _syncDarkTiles, _resolveTileUrl, RefUrl

TileInv == TilesOfTheme /\ tlDark \in BOOLEAN

LEMMA TileInvNext == TileInv /\ [TileNext]_tlVars => TileInv'
<1> SUFFICES ASSUME TilesOfTheme, tlDark \in BOOLEAN, [TileNext]_tlVars PROVE TilesOfTheme' /\ tlDark' \in BOOLEAN
  BY Zenon DEF TileInv
<1>1. CASE themeFlip
  <2>1. tlDark' = ~tlDark /\ tlDark' \in BOOLEAN /\ tlDarkProv' = tlDarkProv /\ tlLightProv' = tlLightProv
    BY <1>1, Zenon DEF themeFlip
  <2>2. _syncDarkTiles(tlDark', tlDarkProv', tlLightProv')
    BY <1>1, <2>1, Zenon DEF themeFlip
  <2> QED BY <2>1, <2>2, Synced, Zenon DEF TilesOfTheme
<1>2. ASSUME NEW d \in BOOLEAN, NEW p \in {"carto", "osm", "esri"}, providerChange(d, p)
      PROVE  TilesOfTheme' /\ tlDark' \in BOOLEAN
  <2>1. tlDark' = tlDark
    BY <1>2, Zenon DEF providerChange
  <2>2. CASE d # tlDark
    <3>1. tlShown' = tlShown /\ tlRef' = tlRef
      BY <1>2, <2>2, Zenon DEF providerChange
    <3>2. (tlDark => tlDarkProv' = tlDarkProv) /\ (~tlDark => tlLightProv' = tlLightProv)
      BY <1>2, <2>2, Zenon DEF providerChange
    <3> QED BY <2>1, <3>1, <3>2, Zenon DEF TilesOfTheme
  <2>3. CASE d = tlDark
    <3>1. _syncDarkTiles(tlDark, tlDarkProv', tlLightProv')
      BY <1>2, <2>3, Zenon DEF providerChange
    <3> QED BY <2>1, <3>1, Synced, Zenon DEF TilesOfTheme
  <2> QED BY <2>2, <2>3
<1>3. CASE UNCHANGED tlVars
  BY <1>3, Zenon DEF tlVars, TilesOfTheme
<1> QED BY <1>1, <1>2, <1>3, Zenon DEF TileNext

(* The tiles, and the labels over them, are those of the theme's provider  *)
(* (map.js, _syncDarkTiles).                                               *)
THEOREM TilesThm == TileInit /\ [][TileNext]_tlVars => []TilesOfTheme
<1>1. TileInit => TileInv
  BY Zenon DEF TileInit, TileInv, TilesOfTheme, _resolveTileUrl, RefUrl
<1>2. TileInv => TilesOfTheme
  BY DEF TileInv
<1> QED BY <1>1, <1>2, TileInvNext, PTL

------------------------------------------------------------------------------
(* The neighbours of a reference node, and the sections of the controls.   *)
HoodInv ==
    /\ nbFilter = nbBox
    /\ ~nbMixed => nbHood \subseteq {nbRef} /\ \A a \in nbAsks : a.of = nbRef
    /\ ~acWide => acOpen = {} \/ \E s \in Sections : acOpen = {s}

LEMMA HoodInvNext == HoodInv /\ [NbNext]_nbVars => HoodInv'
<1> SUFFICES ASSUME HoodInv, [NbNext]_nbVars PROVE HoodInv'
  OBVIOUS
<1>1. ASSUME NEW p \in {1, 2}, selectReferenceNode(p) PROVE HoodInv'
  <2>1. /\ nbRef' = p /\ nbHood' = {} /\ nbAsks' = nbAsks \union {[of |-> p, at |-> "affinity"]}
        /\ nbMixed' = (nbMixed \/ nbAsks # {}) /\ UNCHANGED <<nbFilter, nbBox, acOpen, acWide>>
    BY <1>1, Zenon DEF selectReferenceNode
  <2>2. ~nbMixed' => nbAsks = {}
    BY <2>1, Zenon
  <2>3. [of |-> p, at |-> "affinity"].of = p
    OBVIOUS
  <2> QED BY <2>1, <2>2, <2>3, Zenon DEF HoodInv
<1>2. ASSUME NEW a \in nbAsks, neighborsFail(a) PROVE HoodInv'
  BY <1>2, Zenon DEF neighborsFail, neighborsShown, HoodInv
<1>3. ASSUME NEW a \in nbAsks, NEW some \in BOOLEAN, neighborsArrive(a, some) PROVE HoodInv'
  <2>1. UNCHANGED <<nbRef, nbMixed, acOpen, acWide>>
    BY <1>3, Zenon DEF neighborsArrive
  <2>2. CASE a.at = "affinity" /\ ~some /\ nbHood = {}
    <3>1. nbAsks' = (nbAsks \ {a}) \union {[a EXCEPT !.at = "paths"]} /\ UNCHANGED <<nbHood, nbFilter, nbBox>>
      BY <1>3, <2>2, Zenon DEF neighborsArrive
    <3>2. [a EXCEPT !.at = "paths"].of = a.of
      OBVIOUS
    <3> QED BY <2>1, <3>1, <3>2, Zenon DEF HoodInv
  <2>3. CASE ~(a.at = "affinity" /\ ~some /\ nbHood = {})
    <3>1. nbAsks' = nbAsks \ {a} /\ nbHood' \in {nbHood, nbHood \union {a.of}} /\ nbFilter' = nbBox'
      BY <1>3, <2>3, Zenon DEF neighborsArrive, neighborsShown
    <3> QED BY <2>1, <3>1, Zenon DEF HoodInv
  <2> QED BY <2>2, <2>3
<1>4. ASSUME NEW s \in Sections, accordionClick(s) PROVE HoodInv'
  BY <1>4, Zenon DEF accordionClick, onActivate, HoodInv
<1>5. CASE neighborsBox
  BY <1>5, Zenon DEF neighborsBox, HoodInv
<1>6. CASE UNCHANGED nbVars
  BY <1>6, Zenon DEF nbVars, HoodInv
<1> QED BY <1>1, <1>2, <1>3, <1>4, <1>5, <1>6, Zenon DEF NbNext

(* One choice after the other leaves only neighbours of the chosen node on *)
(* the map, and a narrow screen has one section open (map.js,              *)
(* selectReferenceNode; onActivate).                                       *)
THEOREM HoodThm == NbInit /\ [][NbNext]_nbVars => [](HoodOfReference /\ OneSectionOpen)
<1>1. NbInit => HoodInv
  <2> SUFFICES ASSUME NbInit PROVE HoodInv
    OBVIOUS
  <2>1. nbHood = {} /\ nbAsks = {} /\ nbFilter = nbBox /\ (~acWide => acOpen = {1})
    BY Zenon DEF NbInit
  <2>2. 1 \in Sections
    BY DEF Sections
  <2> QED BY <2>1, <2>2, Zenon DEF HoodInv
<1>2. HoodInv => HoodOfReference
  BY Zenon DEF HoodInv, HoodOfReference
<1>3. HoodInv => OneSectionOpen
  <2>1. ASSUME acOpen = {} PROVE OneSectionOpen
    BY <2>1, OneAtMost DEF OneSectionOpen
  <2>2. ASSUME NEW s \in Sections, acOpen = {s} PROVE OneSectionOpen
    BY <2>2, OneAtMost DEF OneSectionOpen
  <2>3. acWide => OneSectionOpen
    BY DEF OneSectionOpen
  <2> QED BY <2>1, <2>2, <2>3, Zenon DEF HoodInv
<1> QED BY <1>1, <1>2, <1>3, HoodInvNext, PTL

(* The parts of the map side by side. *)
MapSpec ==
    /\ RouteInit /\ [][RouteNext]_rvVars
    /\ DetailInit /\ [][DetailNext]_hdVars
    /\ MapInit /\ [][MapNext]_mpVars
    /\ TopInit /\ [][TopNext]_trVars
    /\ TileInit /\ [][TileNext]_tlVars
    /\ NbInit /\ [][NbNext]_nbVars

(* Route overlays, markers, tiles and side panes are those of what was     *)
(* asked for last, and leaving takes them down.                            *)
THEOREM MapConsistentThm == MapSpec => []MapConsistent
<1>1. /\ WayBackToMarkers /\ LeavingTakesItDown /\ OneListenerEach /\ OneOverlay /\ RowsAnswer
      /\ DetailBounded /\ OnePanelOpen /\ DrawnIsLoaded /\ PendingDrawnOnce /\ MapListensOnce
      /\ OneTopLayer /\ TopFollowsControls /\ TilesOfTheme /\ HoodOfReference /\ OneSectionOpen
      => MapConsistent
  BY Zenon DEF MapConsistent
<1> QED BY <1>1, RouteThm, HopDetailThm, MapThm, TopThm, TilesThm, HoodThm, PTL DEF MapSpec

------------------------------------------------------------------------------
(* The tabs of the analytics: a tab's interval is the one its variable     *)
(* holds, so that the next stop ends it.                                   *)
AnaInv ==
    /\ anIv = [t \in Refreshed |-> anIv[t]] /\ anVar = [t \in Refreshed |-> anVar[t]]
    /\ OneRefresher

LEMMA StopsRefreshers ==
  ASSUME AnaInv, NEW S, anIv' = stopIv(S, anIv), anVar' = stopVar(S)
  PROVE  AnaInv'
<1>1. ASSUME NEW t \in Refreshed PROVE anIv'[t] \subseteq {anVar'[t]}
  <2>1. CASE t \in S
    BY <2>1 DEF stopIv, AnaInv, OneRefresher
  <2>2. CASE t \notin S
    BY <2>2 DEF stopIv, stopVar, AnaInv, OneRefresher
  <2> QED BY <2>1, <2>2
<1>2. anIv' = [t \in Refreshed |-> anIv'[t]] /\ anVar' = [t \in Refreshed |-> anVar'[t]]
  BY DEF stopIv, stopVar
<1> QED BY <1>1, <1>2 DEF AnaInv, OneRefresher

LEMMA RestartKeeps ==
  ASSUME AnaInv, NEW t \in Refreshed, NEW others, restart(t, others)
  PROVE  AnaInv'
<1> DEFINE iv == stopIv(others \union {t}, anIv)
<1>1. PICK new : anIv' = [iv EXCEPT ![t] = @ \union {new}] /\ anVar' = [stopVar(others) EXCEPT ![t] = new]
  BY Zenon DEF restart
<1>2. iv = [u \in Refreshed |-> iv[u]] /\ iv[t] = {} /\ \A u \in Refreshed \ {t} : iv[u] \subseteq {stopVar(others)[u]}
  BY DEF stopIv, stopVar, AnaInv, OneRefresher
<1>3. stopVar(others) = [u \in Refreshed |-> stopVar(others)[u]]
  BY DEF stopVar
<1> HIDE DEF iv
<1>4. ASSUME NEW u \in Refreshed PROVE anIv'[u] \subseteq {anVar'[u]}
  <2>1. CASE u = t
    <3>1. anIv'[t] = {new} /\ anVar'[t] = new
      BY <1>1, <1>2, <1>3
    <3> QED BY <2>1, <3>1
  <2>2. CASE u # t
    <3>1. anIv'[u] = iv[u] /\ anVar'[u] = stopVar(others)[u]
      BY <1>1, <1>2, <1>3, <2>2
    <3> QED BY <1>2, <2>2, <3>1
  <2> QED BY <2>1, <2>2
<1>5. anIv' = [u \in Refreshed |-> anIv'[u]] /\ anVar' = [u \in Refreshed |-> anVar'[u]]
  BY <1>1, <1>2, <1>3
<1> QED BY <1>4, <1>5 DEF AnaInv, OneRefresher

LEMMA RenderTabKeeps ==
  ASSUME AnaInv, NEW t, NEW others, renderTab(t, others)
  PROVE  AnaInv'
<1>1. CASE t = "scopes"
  <2>1. restart("scopes", others) /\ "scopes" \in Refreshed
    BY <1>1 DEF renderTab, Refreshed
  <2> QED BY <2>1, RestartKeeps
<1>2. CASE t # "scopes"
  <2>1. anIv' = stopIv(others, anIv) /\ anVar' = stopVar(others)
    BY <1>2 DEF renderTab
  <2> QED BY <2>1, StopsRefreshers
<1> QED BY <1>1, <1>2

LEMMA AnaInvNext == AnaInv /\ [AnaNext]_anVars => AnaInv'
<1> SUFFICES ASSUME AnaInv, [AnaNext]_anVars PROVE AnaInv'
  OBVIOUS
<1>0. ASSUME UNCHANGED <<anIv, anVar>> PROVE AnaInv'
  BY <1>0, Zenon DEF AnaInv, OneRefresher
<1>1. CASE openAnalytics
  BY <1>0, <1>1, Zenon DEF openAnalytics
<1>2. CASE clickTab
  BY <1>2, RenderTabKeeps DEF clickTab
<1>3. CASE reloadAnalytics
  BY <1>0, <1>3, Zenon DEF reloadAnalytics
<1>4. CASE analyticsLoaded
  BY <1>0, <1>4, RenderTabKeeps, Zenon DEF analyticsLoaded
<1>5. CASE themeRefresh
  BY <1>5, RenderTabKeeps DEF themeRefresh
<1>6. CASE rolesArrive
  BY <1>6, RestartKeeps DEF rolesArrive, Refreshed
<1>7. CASE destroyAnalytics
  BY <1>7, StopsRefreshers DEF destroyAnalytics
<1>8. ASSUME NEW t \in Refreshed, refreshTick(t) PROVE AnaInv'
  BY <1>0, <1>8, StopsRefreshers, Zenon DEF refreshTick
<1>9. CASE UNCHANGED anVars
  BY <1>0, <1>9, Zenon DEF anVars
<1> QED BY <1>1, <1>2, <1>3, <1>4, <1>5, <1>6, <1>7, <1>8, <1>9, Zenon DEF AnaNext

(* Whatever is rendered twice or late, a tab has one interval at most, and *)
(* the next switch can stop it (analytics.js, _stopRolesRefresh,           *)
(* _stopScopesRefresh).                                                    *)
THEOREM OneRefresherThm == AnaInit /\ [][AnaNext]_anVars => []OneRefresher
<1>1. AnaInit => AnaInv
  BY DEF AnaInit, AnaInv, OneRefresher
<1>2. AnaInv => OneRefresher
  BY DEF AnaInv
<1> QED BY <1>1, <1>2, AnaInvNext, PTL

------------------------------------------------------------------------------
(* The neighbour graph.  A frame is of a state and a run; the current      *)
(* state's frames are of its runs so far.                                  *)
Running == {f \in ngFrames : f.id = ngId /\ f.epoch = ngEpoch}

FramesKnown ==
    /\ ngId \in Nat /\ ngEpoch \in Nat
    /\ \A f \in ngFrames : f \in [id : Nat, epoch : Nat] /\ f.id <= ngId /\ (f.id = ngId => f.epoch <= ngEpoch)

GraphInv ==
    /\ ngWaits \in Nat /\ ngDom \in BOOLEAN /\ ngDebounce \in BOOLEAN
    /\ GraphMatchesBoxes /\ FiltersAreUsers
    /\ FramesKnown /\ (Cardinality(ngShown) > NgLimit => Running = {})

LEMMA StartRendererKeeps ==
  ASSUME NEW id \in Nat, NEW epoch \in Nat, NEW anim, NEW shown, startGraphRenderer(id, epoch, anim, shown),
         ngId' = id, ngShown' = shown,
         \A f \in ngFrames : f \in [id : Nat, epoch : Nat] /\ f.id <= id /\ (f.id = id => f.epoch <= epoch)
  PROVE  FramesKnown' /\ (Cardinality(ngShown') > NgLimit => Running' = {})
<1> DEFINE g == [id |-> id, epoch |-> epoch + 1]
<1>1. /\ ngEpoch' = epoch + 1
      /\ IF Cardinality(shown) > NgLimit THEN ngFrames' = ngFrames \ {anim} ELSE ngFrames' = (ngFrames \ {anim}) \union {g}
  BY Zenon DEF startGraphRenderer
<1>2. g \in [id : Nat, epoch : Nat] /\ g.id = id /\ g.epoch = epoch + 1
  OBVIOUS
<1> HIDE DEF g
<1>3. ASSUME NEW f \in ngFrames' PROVE f \in [id : Nat, epoch : Nat] /\ f.id <= ngId' /\ (f.id = ngId' => f.epoch <= ngEpoch')
  <2>1. CASE f = g
    BY <1>1, <1>2, <2>1
  <2>2. CASE f # g
    <3>1. f \in ngFrames
      BY <1>1, <2>2
    <3> QED BY <1>1, <3>1
  <2> QED BY <2>1, <2>2
<1>4. FramesKnown'
  BY <1>1, <1>3 DEF FramesKnown
<1>5. ASSUME Cardinality(ngShown') > NgLimit PROVE Running' = {}
  <2>1. ngFrames' \subseteq ngFrames
    BY <1>1, <1>5
  <2> QED BY <1>1, <2>1 DEF Running
<1> QED BY <1>4, <1>5

LEMMA GraphInvNext == GraphInv /\ [GraphNext]_ngVars => GraphInv'
<1> SUFFICES ASSUME GraphInv, [GraphNext]_ngVars PROVE GraphInv'
  OBVIOUS
<1> DEFINE Frames == FramesKnown /\ (Cardinality(ngShown) > NgLimit => Running = {})
           Restarted(shown) == startGraphRenderer(ngId, ngEpoch, ngAnim, shown) /\ ngId' = ngId /\ ngShown' = shown
<1>0. ASSUME NEW shown, Restarted(shown) PROVE Frames'
  <2>1. ngId \in Nat /\ ngEpoch \in Nat
        /\ \A f \in ngFrames : f \in [id : Nat, epoch : Nat] /\ f.id <= ngId /\ (f.id = ngId => f.epoch <= ngEpoch)
    BY Zenon DEF GraphInv, FramesKnown
  <2> QED BY <1>0, <2>1, StartRendererKeeps
<1>a. ASSUME UNCHANGED <<ngId, ngEpoch, ngShown>>, ngFrames' \subseteq ngFrames PROVE Frames'
  <2>1. Running' \subseteq Running
    BY <1>a DEF Running
  <2>2. FramesKnown'
    BY <1>a, Zenon DEF GraphInv, FramesKnown
  <2> QED BY <1>a, <2>1, <2>2 DEF GraphInv
<1>1. ASSUME openGraph PROVE GraphInv'
  <2>1. /\ ngWaits' = ngWaits + 1 /\ ngDom' = TRUE /\ ngBoxes' = NgDefault /\ ngUser' = NgDefault
        /\ UNCHANGED <<ngId, ngEpoch, ngShown, ngDebounce, ngFrames>>
    BY <1>1, Zenon DEF openGraph, renderGraph
  <2>2. ngWaits' \in Nat /\ ngWaits' # 0
    BY <2>1 DEF GraphInv
  <2>3. Frames'
    BY <1>a, <2>1
  <2> HIDE DEF Frames
  <2>4. GraphMatchesBoxes' /\ FiltersAreUsers' /\ ngDom' \in BOOLEAN /\ ngDebounce' \in BOOLEAN
    BY <2>1, <2>2, Zenon DEF GraphMatchesBoxes, FiltersAreUsers, GraphInv
  <2> QED BY <2>2, <2>3, <2>4 DEF GraphInv, Frames
<1>2. CASE graphArrives
  <2>1. /\ ngWaits > 0 /\ ngWaits' = ngWaits - 1 /\ ngId' = ngId + 1
        /\ UNCHANGED <<ngBoxes, ngScore, ngDom, ngDebounce, ngUser>>
    BY <1>2 DEF graphArrives
  <2>2. ngWaits' \in Nat /\ ngId + 1 \in Nat /\ ngId' # 0 /\ ngId \in Nat
    BY <2>1 DEF GraphInv, FramesKnown
  <2>3. \A f \in ngFrames : f \in [id : Nat, epoch : Nat] /\ f.id <= ngId + 1 /\ f.id # ngId + 1
    BY <2>2 DEF GraphInv, FramesKnown
  <2>4. CASE ngDom
    <3>1. ngShown' = ngFilter(ngBoxes, ngScore) /\ startGraphRenderer(ngId + 1, 0, NoFrame, ngFilter(ngBoxes, ngScore))
      BY <1>2, <2>4, Zenon DEF graphArrives, applyNGFilters
    <3>2. Frames'
      BY <2>1, <2>2, <2>3, <3>1, StartRendererKeeps
    <3>3. GraphMatchesBoxes' /\ FiltersAreUsers' /\ ngDom' \in BOOLEAN /\ ngDebounce' \in BOOLEAN
      BY <2>1, <3>1, Zenon DEF GraphMatchesBoxes, FiltersAreUsers, GraphInv
    <3> QED BY <2>2, <3>2, <3>3 DEF GraphInv
  <2>5. CASE ~ngDom
    <3>1. ngEpoch' = 0 /\ ngFrames' = ngFrames
      BY <1>2, <2>5, Zenon DEF graphArrives
    <3>2. FramesKnown' /\ Running' = {}
      BY <2>1, <2>2, <2>3, <3>1 DEF FramesKnown, Running
    <3>3. GraphMatchesBoxes' /\ FiltersAreUsers' /\ ngDom' \in BOOLEAN /\ ngDebounce' \in BOOLEAN
      BY <2>1, <2>5, Zenon DEF GraphMatchesBoxes, FiltersAreUsers, GraphInv
    <3> QED BY <2>2, <3>2, <3>3 DEF GraphInv
  <2> QED BY <2>4, <2>5
<1>3. ASSUME NEW r \in NgRoles, roleBox(r) PROVE GraphInv'
  <2>1. /\ ngBoxes' = (ngBoxes \ {r}) \union ({r} \ ngBoxes) /\ ngUser' = (ngUser \ {r}) \union ({r} \ ngUser) /\ ngDom
        /\ UNCHANGED <<ngScore, ngDom, ngWaits, ngId, ngDebounce>>
    BY <1>3, Zenon DEF roleBox
  <2>2. FiltersAreUsers' /\ ngDom' \in BOOLEAN /\ ngDebounce' \in BOOLEAN /\ ngWaits' \in Nat
    BY <2>1, Zenon DEF FiltersAreUsers, GraphInv
  <2>3. CASE ngWaits = 0 /\ ngId # 0
    <3>1. ngShown' = ngFilter(ngBoxes', ngScore) /\ startGraphRenderer(ngId, ngEpoch, ngAnim, ngFilter(ngBoxes', ngScore))
      BY <1>3, <2>3, Zenon DEF roleBox
    <3>2. Frames'
      BY <1>0, <2>1, <3>1
    <3>3. GraphMatchesBoxes'
      BY <2>1, <3>1, Zenon DEF GraphMatchesBoxes
    <3> QED BY <2>2, <3>2, <3>3 DEF GraphInv
  <2>4. CASE ~(ngWaits = 0 /\ ngId # 0)
    <3>1. UNCHANGED <<ngEpoch, ngShown, ngFrames>>
      BY <1>3, <2>4, Zenon DEF roleBox
    <3>2. Frames'
      BY <1>a, <2>1, <3>1
    <3>3. GraphMatchesBoxes'
      BY <2>1, <2>4, Zenon DEF GraphMatchesBoxes
    <3> QED BY <2>2, <3>2, <3>3 DEF GraphInv
  <2> QED BY <2>3, <2>4
<1>4. CASE scoreInput
  <2>1. ngDebounce' = TRUE /\ UNCHANGED <<ngBoxes, ngDom, ngWaits, ngId, ngEpoch, ngShown, ngFrames, ngUser>>
    BY <1>4, Zenon DEF scoreInput
  <2>2. Frames'
    BY <1>a, <2>1
  <2>3. GraphMatchesBoxes' /\ FiltersAreUsers' /\ ngDom' \in BOOLEAN /\ ngDebounce' \in BOOLEAN /\ ngWaits' \in Nat
    BY <2>1, Zenon DEF GraphMatchesBoxes, FiltersAreUsers, GraphInv
  <2> QED BY <2>2, <2>3 DEF GraphInv
<1>5. CASE scoreTimer
  <2>1. ngDebounce' = FALSE /\ UNCHANGED <<ngBoxes, ngScore, ngDom, ngWaits, ngId, ngUser>>
    BY <1>5, Zenon DEF scoreTimer
  <2>2. FiltersAreUsers' /\ ngDom' \in BOOLEAN /\ ngDebounce' \in BOOLEAN /\ ngWaits' \in Nat
    BY <2>1, Zenon DEF FiltersAreUsers, GraphInv
  <2>3. CASE ngId # 0 /\ ngDom
    <3>1. ngShown' = ngFilter(ngBoxes, ngScore) /\ startGraphRenderer(ngId, ngEpoch, ngAnim, ngFilter(ngBoxes, ngScore))
      BY <1>5, <2>3, Zenon DEF scoreTimer, applyNGFilters
    <3>2. Frames'
      BY <1>0, <2>1, <3>1
    <3>3. GraphMatchesBoxes'
      BY <2>1, <3>1, Zenon DEF GraphMatchesBoxes
    <3> QED BY <2>2, <3>2, <3>3 DEF GraphInv
  <2>4. CASE ~(ngId # 0 /\ ngDom)
    <3>1. UNCHANGED <<ngEpoch, ngShown, ngFrames>>
      BY <1>5, <2>4, Zenon DEF scoreTimer
    <3>2. Frames'
      BY <1>a, <2>1, <3>1
    <3>3. GraphMatchesBoxes'
      BY <2>1, <2>4, Zenon DEF GraphMatchesBoxes
    <3> QED BY <2>2, <3>2, <3>3 DEF GraphInv
  <2> QED BY <2>3, <2>4
<1>6. CASE otherTab
  <2>1. ngDom' = FALSE /\ UNCHANGED <<ngWaits, ngId, ngEpoch, ngShown, ngDebounce, ngFrames>>
    BY <1>6, Zenon DEF otherTab
  <2>2. Frames'
    BY <1>a, <2>1
  <2>3. GraphMatchesBoxes' /\ FiltersAreUsers' /\ ngDom' \in BOOLEAN /\ ngDebounce' \in BOOLEAN /\ ngWaits' \in Nat
    BY <2>1, Zenon DEF GraphMatchesBoxes, FiltersAreUsers, GraphInv
  <2> QED BY <2>2, <2>3 DEF GraphInv
<1>7. CASE themeChange
  <2>1. CASE ngId = 0
    BY <1>1, <1>7, <2>1, Zenon DEF themeChange
  <2>2. CASE ngId # 0
    <3>1. /\ startGraphRenderer(ngId, ngEpoch, ngAnim, ngShown)
          /\ UNCHANGED <<ngBoxes, ngScore, ngDom, ngWaits, ngId, ngShown, ngDebounce, ngUser>>
      BY <1>7, <2>2, Zenon DEF themeChange
    <3>2. Frames'
      BY <1>0, <3>1
    <3>3. GraphMatchesBoxes' /\ FiltersAreUsers' /\ ngDom' \in BOOLEAN /\ ngDebounce' \in BOOLEAN /\ ngWaits' \in Nat
      BY <3>1, Zenon DEF GraphMatchesBoxes, FiltersAreUsers, GraphInv
    <3> QED BY <3>2, <3>3 DEF GraphInv
  <2> QED BY <2>1, <2>2
<1>8. CASE graphTick
  <2>1. ngFrames' \subseteq ngFrames /\ UNCHANGED <<ngBoxes, ngScore, ngDom, ngWaits, ngId, ngEpoch, ngShown, ngDebounce, ngUser>>
    BY <1>8 DEF graphTick
  <2>2. Frames'
    BY <1>a, <2>1
  <2>3. GraphMatchesBoxes' /\ FiltersAreUsers' /\ ngDom' \in BOOLEAN /\ ngDebounce' \in BOOLEAN /\ ngWaits' \in Nat
    BY <2>1, Zenon DEF GraphMatchesBoxes, FiltersAreUsers, GraphInv
  <2> QED BY <2>2, <2>3 DEF GraphInv
<1>9. CASE UNCHANGED ngVars
  BY <1>9, Zenon DEF ngVars, GraphInv, FramesKnown, Running, GraphMatchesBoxes, FiltersAreUsers
<1> QED BY <1>1, <1>2, <1>3, <1>4, <1>5, <1>6, <1>7, <1>8, <1>9, Zenon DEF GraphNext

LEMMA GraphInvInit == GraphInit => GraphInv
<1> SUFFICES ASSUME GraphInit PROVE GraphInv
  OBVIOUS
<1>1. ngDom \in BOOLEAN /\ ngDebounce \in BOOLEAN /\ ~ngDom
  BY Zenon DEF GraphInit
<1>2. ngWaits \in Nat /\ FramesKnown /\ Running = {}
  BY DEF GraphInit, FramesKnown, Running
<1> QED BY <1>1, <1>2, Zenon DEF GraphInv, GraphMatchesBoxes, FiltersAreUsers

(* A graph has one loop at most and none while it is too large to draw;    *)
(* with nothing under way it shows what its boxes and slider say, and they *)
(* are the user's (analytics.js, startGraphRenderer, applyNGFilters).      *)
THEOREM GraphThm == GraphInit /\ [][GraphNext]_ngVars => [](GraphMatchesBoxes /\ OneLoopPerGraph /\ FiltersAreUsers)
<1>1. GraphInv => GraphMatchesBoxes /\ FiltersAreUsers
  BY DEF GraphInv
<1>2. GraphInv => OneLoopPerGraph
  <2>1. ASSUME GraphInv PROVE Running \subseteq {[id |-> ngId, epoch |-> ngEpoch]}
    BY <2>1 DEF GraphInv, FramesKnown, Running
  <2>2. ASSUME GraphInv PROVE Cardinality(Running) <= 1
    BY <2>1, <2>2, OneAtMost
  <2> QED BY <2>2, Zenon DEF GraphInv, OneLoopPerGraph, Running
<1> QED BY <1>1, <1>2, GraphInvInit, GraphInvNext, PTL

(* The tabs and the graph side by side. *)
AnalyticsSpec == AnaInit /\ [][AnaNext]_anVars /\ GraphInit /\ [][GraphNext]_ngVars

(* One refresher and one loop per graph, and the graph is that of its      *)
(* boxes.                                                                  *)
THEOREM AnalyticsConsistentThm == AnalyticsSpec => []AnalyticsConsistent
<1>1. OneRefresher /\ GraphMatchesBoxes /\ OneLoopPerGraph /\ FiltersAreUsers => AnalyticsConsistent
  BY Zenon DEF AnalyticsConsistent
<1> QED BY <1>1, OneRefresherThm, GraphThm, PTL DEF AnalyticsSpec

------------------------------------------------------------------------------
(* The list of observers. *)
LEMMA DrawnObservers ==
  ASSUME NEW rows, renderObservers(rows)
  PROVE  CompareButtonAgrees'
<1>1. obListed' = rows \intersect obRegion' /\ obBoxes' \subseteq obListed'
  BY DEF renderObservers, keepTicks
<1>2. obShows' = "table" => obCount' = Cardinality(obBoxes')
  BY DEF renderObservers, updateCompareSelectedState
<1> QED BY <1>1, <1>2 DEF CompareButtonAgrees

LEMMA ButtonKeeps == CompareButtonAgrees /\ [ObsNext]_obVars => CompareButtonAgrees'
<1> SUFFICES ASSUME CompareButtonAgrees, [ObsNext]_obVars PROVE CompareButtonAgrees'
  OBVIOUS
<1>1. CASE initObservers
  BY <1>1 DEF initObservers, CompareButtonAgrees
<1>2. CASE refreshObservers
  BY <1>2, Zenon DEF refreshObservers, CompareButtonAgrees
<1>3. CASE destroyObservers
  BY <1>3, Zenon DEF destroyObservers, CompareButtonAgrees
<1>4. ASSUME NEW id \in obWait, NEW rows \in SUBSET Observers, observersArrive(id, rows) PROVE CompareButtonAgrees'
  <2>1. CASE newestRequest(id) /\ obOn
    BY <1>4, <2>1, DrawnObservers, Zenon DEF observersArrive
  <2>2. CASE ~(newestRequest(id) /\ obOn)
    BY <1>4, <2>2, Zenon DEF observersArrive, CompareButtonAgrees
  <2> QED BY <2>1, <2>2
<1>5. ASSUME NEW id \in obWait, observersFail(id) PROVE CompareButtonAgrees'
  <2>1. CASE newestRequest(id) /\ obOn
    <3>1. obShows' = "error"
      BY <1>5, <2>1, Zenon DEF observersFail
    <3> QED BY <3>1 DEF CompareButtonAgrees
  <2>2. CASE ~(newestRequest(id) /\ obOn)
    BY <1>5, <2>2, Zenon DEF observersFail, CompareButtonAgrees
  <2> QED BY <2>1, <2>2
<1>6. ASSUME NEW r, regionOfObservers(r) PROVE CompareButtonAgrees'
  BY <1>6, DrawnObservers DEF regionOfObservers
<1>7. ASSUME NEW o \in Observers, tick(o) PROVE CompareButtonAgrees'
  <2>1. /\ o \in obListed /\ obBoxes \subseteq obListed /\ obListed' = obListed
        /\ obBoxes' = (obBoxes \ {o}) \union ({o} \ obBoxes) /\ obCount' = Cardinality(obBoxes')
    BY <1>7, Zenon DEF tick, CompareButtonAgrees, updateCompareSelectedState
  <2> QED BY <2>1 DEF CompareButtonAgrees
<1>8. CASE UNCHANGED obVars
  BY <1>8, Zenon DEF obVars, CompareButtonAgrees
<1> QED BY <1>1, <1>2, <1>3, <1>4, <1>5, <1>6, <1>7, <1>8, Zenon DEF ObsNext

(* The compare button counts the ticks of the table that is shown          *)
(* (observers.js, render, updateCompareSelectedState).                     *)
THEOREM ObserversThm == ObsInit /\ [][ObsNext]_obVars => []CompareButtonAgrees
<1>1. ObsInit => CompareButtonAgrees
  BY Zenon DEF ObsInit, CompareButtonAgrees
<1> QED BY <1>1, ButtonKeeps, PTL

------------------------------------------------------------------------------
(* The pages with charts.  The page remembers every chart that is alive;   *)
(* a user who waits has one request out, for what is on the screen.        *)
ChartWait == [id : Nat, page : {"node", "observer"}, at : {"data", "battery"}]
ChartsInv ==
    /\ cpAlive \subseteq cpCharts /\ cpLoad \in Nat /\ cpWaits \subseteq ChartWait /\ cpLate \in BOOLEAN
    /\ ~cpLate => /\ \A c \in cpAlive : c.canvas = cpCanvas /\ c.of = cpCanvas
                  /\ \A w \in cpWaits : /\ cpWaits = {w}
                                        /\ w.at = "data" => cpAlive = {}
                                        /\ w.at = "battery" => w.id = cpCanvas

LEMMA AsksKeep ==
  ASSUME ChartsInv, NEW page \in {"node", "observer"}, asks(page), destroyCharts
  PROVE  ChartsInv'
<1> DEFINE w == [id |-> cpLoad', page |-> page, at |-> "data"]
<1>1. cpLoad' \in Nat /\ cpWaits' = cpWaits \union {w} /\ cpLate' = (cpLate \/ cpWaits # {})
  BY DEF asks, ChartsInv
<1>2. w \in ChartWait /\ w.at = "data"
  BY <1>1 DEF ChartWait
<1> HIDE DEF w
<1>3. cpAlive' = {} /\ cpCharts' = {}
  BY DEF destroyCharts, ChartsInv
<1>4. cpLate' \in BOOLEAN /\ (~cpLate' => cpWaits = {})
  BY <1>1, Zenon DEF ChartsInv
<1>5. cpWaits' \subseteq ChartWait
  BY <1>1, <1>2, Zenon DEF ChartsInv
<1>6. ~cpLate' => cpWaits' = {w}
  BY <1>1, <1>4
<1> QED BY <1>1, <1>2, <1>3, <1>4, <1>5, <1>6 DEF ChartsInv

LEMMA LeavingKeeps ==
  ASSUME ChartsInv, leaving
  PROVE  ChartsInv'
<1>1. cpAlive' = {} /\ cpCharts' = {}
  BY DEF leaving, destroyCharts, ChartsInv
<1>2. cpLate' = (cpLate \/ cpWaits # {}) /\ UNCHANGED <<cpLoad, cpWaits>>
  BY Zenon DEF leaving
<1>3. cpLate' \in BOOLEAN /\ (~cpLate' => cpWaits = {})
  BY <1>2, Zenon DEF ChartsInv
<1> QED BY <1>1, <1>2, <1>3, Zenon DEF ChartsInv

(* Charts that are made on the canvas of the only answer awaited. *)
LEMMA NewChartsKeep ==
  ASSUME ChartsInv, NEW w \in cpWaits, NEW cs, newCharts(cs), cpWaits' \subseteq ChartWait,
         UNCHANGED <<cpLoad, cpLate>>,
         \A c \in cs : c.canvas = cpCanvas' /\ c.of = cpCanvas',
         ~cpLate => cpAlive = {} \/ cpCanvas' = cpCanvas,
         ~cpLate => cpWaits' = {} \/ \E v : cpWaits' = {v} /\ v.at = "battery" /\ v.id = cpCanvas'
  PROVE  ChartsInv'
<1>1. cpAlive' = cpAlive \union cs /\ cpCharts' = cpCharts \union cs
  BY DEF newCharts
<1>2. cpAlive' \subseteq cpCharts'
  BY <1>1 DEF ChartsInv
<1>3. ~cpLate => \A c \in cpAlive' : c.canvas = cpCanvas' /\ c.of = cpCanvas'
  BY <1>1, Zenon DEF ChartsInv
<1>4. ~cpLate => \A v \in cpWaits' : cpWaits' = {v} /\ v.at = "battery" /\ v.id = cpCanvas'
  BY Zenon
<1>5. "battery" # "data"
  OBVIOUS
<1> QED BY <1>2, <1>3, <1>4, <1>5, Zenon DEF ChartsInv

LEMMA ChartFields ==
  ASSUME NEW what, NEW of, NEW canvas
  PROVE  chart(what, of, canvas).of = of /\ chart(what, of, canvas).canvas = canvas
BY DEF chart

LEMMA ChartsInvNext == ChartsInv /\ [ChartPagesNext]_cpVars => ChartsInv'
<1> SUFFICES ASSUME ChartsInv, [ChartPagesNext]_cpVars PROVE ChartsInv'
  OBVIOUS
<1>1. CASE openNodeStats \/ changeNodeDays
  BY <1>1, AsksKeep DEF openNodeStats, changeNodeDays, loadAnalytics
<1>2. CASE openObserverDetail \/ changeObserverDays
  BY <1>2, AsksKeep DEF openObserverDetail, changeObserverDays, loadDetail
<1>3. CASE leaveNodeStats \/ leaveObserverDetail
  BY <1>3, LeavingKeeps DEF leaveNodeStats, leaveObserverDetail
<1>4. ASSUME NEW w \in cpWaits, analyticsArrive(w) PROVE ChartsInv'
  <2> DEFINE v == [w EXCEPT !.at = "battery"]
             cs == buildActivityChart(w.id) \union buildSnrChart(w.id) \union buildPacketTypeChart(w.id)
                   \union buildObserverChart(w.id) \union buildHopChart(w.id)
  <2>1. /\ w.at = "data" /\ cpWaits' = (cpWaits \ {w}) \union {v} /\ cpCanvas' = w.id /\ newCharts(cs)
        /\ UNCHANGED <<cpLoad, cpLate>>
    BY <1>4, Zenon DEF analyticsArrive
  <2>2. v \in ChartWait /\ v.at = "battery" /\ v.id = w.id
    BY DEF ChartsInv, ChartWait
  <2>3. \A c \in cs : c.canvas = w.id /\ c.of = w.id
    BY DEF chart, buildActivityChart, buildSnrChart, buildPacketTypeChart, buildObserverChart, buildHopChart
  <2> HIDE DEF v, cs
  <2>4. ~cpLate => cpAlive = {} /\ cpWaits' = {v}
    BY <2>1 DEF ChartsInv
  <2>5. cpWaits' \subseteq ChartWait
    BY <2>1, <2>2, Zenon DEF ChartsInv
  <2> QED BY <2>1, <2>2, <2>3, <2>4, <2>5, NewChartsKeep
<1>5. ASSUME NEW w \in cpWaits, analyticsFail(w) PROVE ChartsInv'
  <2>1. /\ w.at = "data" /\ cpWaits' = cpWaits \ {w} /\ UNCHANGED <<cpLoad, cpAlive, cpCharts, cpLate>>
    BY <1>5, Zenon DEF analyticsFail
  <2>2. ~cpLate => cpAlive = {} /\ cpWaits' = {}
    BY <2>1 DEF ChartsInv
  <2> QED BY <2>1, <2>2, Zenon DEF ChartsInv
<1>6. ASSUME NEW w \in cpWaits, observerFails(w) PROVE ChartsInv'
  <2>1. /\ w.at = "data" /\ cpWaits' = cpWaits \ {w} /\ UNCHANGED <<cpLoad, cpAlive, cpCharts, cpLate>>
    BY <1>6, Zenon DEF observerFails
  <2>2. ~cpLate => cpAlive = {} /\ cpWaits' = {}
    BY <2>1 DEF ChartsInv
  <2> QED BY <2>1, <2>2, Zenon DEF ChartsInv
<1>7. ASSUME NEW w \in cpWaits, NEW s \in BOOLEAN, loadBatteryChart(w, s) PROVE ChartsInv'
  <2>1. /\ w.at = "battery" /\ cpWaits' = cpWaits \ {w} /\ UNCHANGED <<cpLoad, cpCanvas, cpLate>>
    BY <1>7, Zenon DEF loadBatteryChart
  <2>2. ~cpLate => cpWaits' = {} /\ w.id = cpCanvas
    BY <2>1 DEF ChartsInv
  <2>3. CASE cpCanvas = 0 \/ ~s
    <3>1. UNCHANGED <<cpAlive, cpCharts>>
      BY <1>7, <2>3, Zenon DEF loadBatteryChart
    <3> QED BY <2>1, <2>2, <3>1, Zenon DEF ChartsInv
  <2>4. CASE ~(cpCanvas = 0 \/ ~s)
    <3> DEFINE c == chart("battery", w.id, cpCanvas)
    <3>1. newCharts({c})
      BY <1>7, <2>4, Zenon DEF loadBatteryChart
    <3>2. cpAlive' = cpAlive \union {c} /\ cpCharts' = cpCharts \union {c}
      BY <3>1 DEF newCharts
    <3>3. c.of = w.id /\ c.canvas = cpCanvas
      BY ChartFields
    <3> HIDE DEF c
    <3>4. cpAlive' \subseteq cpCharts' /\ (~cpLate => \A d \in cpAlive' : d.canvas = cpCanvas /\ d.of = cpCanvas)
      BY <2>2, <3>2, <3>3, Zenon DEF ChartsInv
    <3> QED BY <2>1, <2>2, <3>4, Zenon DEF ChartsInv
  <2> QED BY <2>3, <2>4
<1>8. ASSUME NEW w \in cpWaits, NEW quiet \in BOOLEAN, observerArrives(w, quiet) PROVE ChartsInv'
  <2>1. /\ w.at = "data" /\ cpWaits' = cpWaits \ {w} /\ UNCHANGED <<cpLoad, cpLate>>
    BY <1>8, Zenon DEF observerArrives
  <2>2. ~cpLate => cpWaits' = {} /\ cpAlive = {}
    BY <2>1 DEF ChartsInv
  <2>3. CASE cpPage # "observer"
    <3>1. UNCHANGED <<cpAlive, cpCharts>>
      BY <1>8, <2>3, Zenon DEF observerArrives
    <3> QED BY <2>1, <2>2, <3>1, Zenon DEF ChartsInv
  <2>4. CASE cpPage = "observer"
    <3> DEFINE cs == renderTypeChart(w.id) \union (IF quiet THEN {} ELSE renderTimelineChart(w.id)
                                                   \union renderNodesChart(w.id) \union renderSnrChart(w.id))
    <3>1. cpCanvas' = w.id /\ newCharts(cs)
      BY <1>8, <2>4, Zenon DEF observerArrives
    <3>2. \A c \in cs : c.canvas = w.id /\ c.of = w.id
      BY DEF chart, renderTypeChart, renderTimelineChart, renderNodesChart, renderSnrChart
    <3>3. cpWaits' \subseteq ChartWait
      BY <2>1 DEF ChartsInv
    <3> HIDE DEF cs
    <3> QED BY <2>1, <2>2, <3>1, <3>2, <3>3, NewChartsKeep
  <2> QED BY <2>3, <2>4
<1>9. CASE UNCHANGED cpVars
  BY <1>9, Zenon DEF cpVars, ChartsInv
<1> QED BY <1>1, <1>2, <1>3, <1>4, <1>5, <1>6, <1>7, <1>8, <1>9, Zenon DEF ChartPagesNext

(* While the user waits for every answer, each chart alive stands on a     *)
(* canvas of the page and shows that page's load (observer-detail.js,      *)
(* node-analytics.js, destroyCharts).                                      *)
THEOREM ChartsThm == ChartPagesInit /\ [][ChartPagesNext]_cpVars => []ChartsOnPage
<1>1. ChartPagesInit => ChartsInv
  <2> SUFFICES ASSUME ChartPagesInit PROVE ChartsInv
    OBVIOUS
  <2>1. cpLate \in BOOLEAN /\ cpAlive = {} /\ cpWaits = {} /\ cpLoad = 0
    BY Zenon DEF ChartPagesInit
  <2> QED BY <2>1 DEF ChartsInv
<1>2. ChartsInv => ChartsOnPage
  BY DEF ChartsInv, ChartsOnPage
<1> QED BY <1>1, <1>2, ChartsInvNext, PTL

------------------------------------------------------------------------------
(* The comparison.  A run that is alone is of the observers the selectors  *)
(* name; a page that is left, or has no selectors yet, has none.           *)
CompareInv ==
    /\ cmOverlap \in BOOLEAN /\ cmControls \in BOOLEAN /\ cmOn \in BOOLEAN /\ routeFilter \in Routes
    /\ ~cmOn => ~cmControls /\ cmShows = "nothing"
    /\ ~cmOverlap => /\ ~cmControls => cmRuns = {}
                     /\ \A r \in cmRuns : isComparisonReady(cmPair) => r.pair = cmPair
    /\ cmShows = "result" => comparisonResult.route # "none"
    /\ ComparisonOfChosen

LEMMA RunKeeps ==
  ASSUME CompareInv, NEW pair, NEW route, runComparison(pair, route), cmPair' = pair,
         cmControls' = TRUE, UNCHANGED <<cmOn, comparisonResult>>, cmOn, routeFilter' \in Routes,
         routeFilter' = routeFilter \/ (comparisonResult.route # "none" => pair = cmPair /\ route = routeFilter'),
         cmShows = "result" => routeFilter' = routeFilter \/ isComparisonReady(pair) \/ ~isComparisonReady(cmPair),
         cmControls \/ ~isComparisonReady(pair) \/ cmRuns = {} \/ cmOverlap
  PROVE  CompareInv'
<1>1. CASE isComparisonReady(pair)
  <2> DEFINE new == [id |-> cmStarted', pair |-> pair, route |-> route]
  <2>1. /\ cmRuns' = cmRuns \union {new} /\ cmShows' = "fetching" /\ cmOverlap' = (cmOverlap \/ cmRuns # {})
    BY <1>1, Zenon DEF runComparison
  <2>2. new.pair = pair
    OBVIOUS
  <2> HIDE DEF new
  <2>3. cmOverlap' \in BOOLEAN /\ (~cmOverlap' => cmRuns = {})
    BY <2>1, Zenon DEF CompareInv
  <2>4. ~cmOverlap' => \A r \in cmRuns' : r.pair = cmPair'
    BY <2>1, <2>2, <2>3
  <2>5. "fetching" # "result"
    OBVIOUS
  <2>6. ComparisonOfChosen'
    BY <2>1, <2>5, Zenon DEF ComparisonOfChosen
  <2> QED BY <2>1, <2>3, <2>4, <2>5, <2>6, Zenon DEF CompareInv
<1>2. CASE ~isComparisonReady(pair)
  <2>1. UNCHANGED <<cmRuns, cmShows, cmOverlap>>
    BY <1>2, Zenon DEF runComparison
  <2>2. ~isComparisonReady(cmPair')
    BY <1>2
  <2>3. ComparisonOfChosen'
    BY <2>2, Zenon DEF ComparisonOfChosen, isComparisonReady
  <2> QED BY <1>2, <2>1, <2>2, <2>3, Zenon DEF CompareInv, isComparisonReady
<1> QED BY <1>1, <1>2

LEMMA CompareInvNext == CompareInv /\ [CompareNext]_cmVars => CompareInv'
<1> SUFFICES ASSUME CompareInv, [CompareNext]_cmVars PROVE CompareInv'
  OBVIOUS
<1>1. ASSUME NEW a \in Choosable, NEW b \in Choosable, openCompare(Pair(a, b)) PROVE CompareInv'
  <2>1. /\ ~cmOn /\ cmOn' = TRUE /\ cmControls' = FALSE /\ routeFilter' = "all" /\ cmShows' = "nothing"
        /\ UNCHANGED <<cmRuns, cmOverlap>>
    BY <1>1, Zenon DEF openCompare
  <2>2. ~cmOverlap => cmRuns = {}
    BY <2>1, Zenon DEF CompareInv
  <2>3. "nothing" # "result" /\ "all" \in Routes
    BY DEF Routes
  <2> QED BY <2>1, <2>2, <2>3, Zenon DEF CompareInv, ComparisonOfChosen
<1>2. ASSUME NEW a \in Choosable, NEW b \in Choosable, chooseObservers(Pair(a, b)) PROVE CompareInv'
  <2>1. /\ cmControls /\ cmPair' = Pair(a, b) /\ runComparison(Pair(a, b), routeFilter)
        /\ UNCHANGED <<cmOn, cmControls, routeFilter, comparisonResult>>
    BY <1>2, Zenon DEF chooseObservers
  <2>2. cmControls' = TRUE /\ cmOn /\ routeFilter' \in Routes
    BY <2>1, Zenon DEF CompareInv
  <2> QED BY <2>1, <2>2, RunKeeps
<1>3. ASSUME NEW listed \in SUBSET Observers, observersListed(listed) PROVE CompareInv'
  <2>1. /\ cmOn /\ ~cmControls /\ cmControls' = TRUE /\ runComparison(cmPair', routeFilter)
        /\ UNCHANGED <<cmOn, routeFilter, comparisonResult>>
    BY <1>3, Zenon DEF observersListed
  <2>2. (cmRuns = {} \/ cmOverlap) /\ routeFilter' \in Routes
    BY <2>1, Zenon DEF CompareInv
  <2> QED BY <2>1, <2>2, RunKeeps
<1>4. ASSUME NEW route \in Routes, chooseRoute(route) PROVE CompareInv'
  <2>1. /\ cmControls /\ routeFilter' = route /\ UNCHANGED <<cmOn, cmControls, cmPair, comparisonResult>>
    BY <1>4, Zenon DEF chooseRoute
  <2>2. cmControls' = TRUE /\ cmOn
    BY <2>1, Zenon DEF CompareInv
  <2>3. CASE comparisonResult # NoResult
    <3>1. runComparison(cmPair, route)
      BY <1>4, <2>3, Zenon DEF chooseRoute
    <3>2. isComparisonReady(cmPair) \/ ~isComparisonReady(cmPair)
      OBVIOUS
    <3> QED BY <2>1, <2>2, <3>1, <3>2, RunKeeps
  <2>4. CASE comparisonResult = NoResult
    <3>1. UNCHANGED <<cmRuns, cmShows, cmOverlap>>
      BY <1>4, <2>4, Zenon DEF chooseRoute
    <3>2. comparisonResult.route = "none"
      BY <2>4 DEF NoResult
    <3>3. cmShows # "result"
      BY <3>2, Zenon DEF CompareInv
    <3>4. ComparisonOfChosen'
      BY <3>1, <3>3, Zenon DEF ComparisonOfChosen
    <3> QED BY <2>1, <3>1, <3>3, <3>4, Zenon DEF CompareInv
  <2> QED BY <2>3, <2>4
<1>5. ASSUME NEW r \in cmRuns, packetsArrive(r) PROVE CompareInv'
  <2>1. /\ cmRuns' = cmRuns \ {r} /\ comparisonResult' = [pair |-> r.pair, route |-> routeFilter]
        /\ cmShows' = (IF cmOn THEN "result" ELSE cmShows)
        /\ UNCHANGED <<cmOn, cmControls, cmPair, routeFilter, cmOverlap>>
    BY <1>5, Zenon DEF packetsArrive, filterFor
  <2>2. comparisonResult'.pair = r.pair /\ comparisonResult'.route = routeFilter
    BY <2>1
  <2>3. routeFilter # "none"
    BY DEF CompareInv, Routes
  <2>4. ComparisonOfChosen'
    BY <2>1, <2>2, Zenon DEF CompareInv, ComparisonOfChosen
  <2>5. ~cmOn => cmShows' = "nothing"
    BY <2>1, Zenon DEF CompareInv
  <2> QED BY <2>1, <2>2, <2>3, <2>4, <2>5, Zenon DEF CompareInv
<1>6. ASSUME NEW r \in cmRuns, packetsFail(r) PROVE CompareInv'
  <2>1. /\ cmRuns' = cmRuns \ {r} /\ cmShows' = (IF cmOn THEN "error" ELSE cmShows)
        /\ UNCHANGED <<cmOn, cmControls, cmPair, routeFilter, cmOverlap, comparisonResult>>
    BY <1>6, Zenon DEF packetsFail
  <2>2. (cmShows' = "result" => cmShows = "result") /\ (~cmOn => cmShows' = "nothing")
    BY <2>1 DEF CompareInv
  <2> QED BY <2>1, <2>2, Zenon DEF CompareInv, ComparisonOfChosen
<1>7. CASE leaveCompare
  <2>1. /\ cmOn' = FALSE /\ cmControls' = FALSE /\ cmShows' = "nothing" /\ routeFilter' = "all"
        /\ cmOverlap' = (cmOverlap \/ cmRuns # {}) /\ cmRuns' = cmRuns
    BY <1>7, Zenon DEF leaveCompare
  <2>2. cmOverlap' \in BOOLEAN /\ (~cmOverlap' => cmRuns = {})
    BY <2>1, Zenon DEF CompareInv
  <2>3. "nothing" # "result" /\ "all" \in Routes
    BY DEF Routes
  <2> QED BY <2>1, <2>2, <2>3, Zenon DEF CompareInv, ComparisonOfChosen
<1>8. CASE UNCHANGED cmVars
  BY <1>8, Zenon DEF cmVars, CompareInv, ComparisonOfChosen
<1> QED BY <1>1, <1>2, <1>3, <1>4, <1>5, <1>6, <1>7, <1>8, Zenon DEF CompareNext

(* A comparison on the screen is of the packets that the menu names and,   *)
(* unless runs overlapped, of the observers of the selectors (compare.js,  *)
(* runComparison).                                                         *)
THEOREM CompareThm == CompareInit /\ [][CompareNext]_cmVars => []ComparisonOfChosen
<1>1. CompareInit => CompareInv
  <2> SUFFICES ASSUME CompareInit PROVE CompareInv
    OBVIOUS
  <2>1. "nothing" # "result" /\ "all" \in Routes
    BY DEF Routes
  <2> QED BY <2>1, Zenon DEF CompareInit, CompareInv, ComparisonOfChosen
<1>2. CompareInv => ComparisonOfChosen
  BY DEF CompareInv
<1> QED BY <1>1, <1>2, CompareInvNext, PTL

------------------------------------------------------------------------------
(* The home page.  A load that is alone is of the nodes claimed now.       *)
CardsFit ==
    hmView = "home" /\ ~hmClash => \/ hmLoads = {} /\ hmCards = hmMine
                                   \/ \E l : hmLoads = {l} /\ l.mine = hmMine
HomeInv ==
    /\ hmView \in {"off", "chooser", "home"} /\ hmClash \in BOOLEAN
    /\ hmView = "home" => hmLevel # ""
    /\ CardsFit /\ OneOutsideListener /\ OneMiniMap

LEMMA LoadMyNodesFits ==
  ASSUME NEW mine, NEW cards, loadMyNodes(mine, cards, {})
  PROVE  (hmLoads' = {} /\ hmCards' = mine) \/ \E l : hmLoads' = {l} /\ l.mine = mine
<1>1. CASE mine = {}
  BY <1>1, Zenon DEF loadMyNodes
<1>2. CASE mine # {}
  <2>1. PICK i : hmLoads' = {} \union {[id |-> i, mine |-> mine]}
    BY <1>2, Zenon DEF loadMyNodes
  <2>2. [id |-> i, mine |-> mine].mine = mine
    OBVIOUS
  <2> QED BY <2>1, <2>2, Zenon
<1> QED BY <1>1, <1>2

LEMMA RenderHomeKeeps ==
  ASSUME HomeInv, renderHome, hmLevel' # ""
  PROVE  HomeInv'
<1>1. /\ hmView' = "home" /\ hmClicks' = 1 /\ loadMyNodes(hmMine, {}, {}) /\ hmClash' = FALSE
      /\ UNCHANGED <<hmMine, hmMaps, hmMini>>
  BY Zenon DEF renderHome, setupSearch
<1>2. CardsFit'
  BY <1>1, LoadMyNodesFits, Zenon DEF CardsFit
<1>3. OneOutsideListener' /\ OneMiniMap'
  BY <1>1 DEF OneOutsideListener, OneMiniMap, HomeInv
<1>4. hmView' \in {"off", "chooser", "home"} /\ hmClash' \in BOOLEAN
  BY <1>1, Zenon
<1> QED BY <1>1, <1>2, <1>3, <1>4 DEF HomeInv

LEMMA ChooserKeeps ==
  ASSUME HomeInv, showChooser, hmLevel = "", hmLevel' = hmLevel
  PROVE  HomeInv'
<1>1. hmView' = "chooser" /\ hmView # "home" /\ UNCHANGED <<hmClash, hmMaps, hmMini, hmClicks>>
  BY Zenon DEF showChooser, HomeInv
<1>2. hmView' # "home" /\ hmView' # "off" /\ hmView' \in {"off", "chooser", "home"}
  BY <1>1
<1>3. CardsFit' /\ OneOutsideListener'
  BY <1>1, <1>2, Zenon DEF CardsFit, OneOutsideListener, HomeInv
<1>4. OneMiniMap'
  BY <1>1, <1>2, Zenon DEF OneMiniMap, HomeInv
<1> QED BY <1>1, <1>2, <1>3, <1>4, Zenon DEF HomeInv

(* The buttons that change the claimed nodes. *)
LEMMA ClaimKeeps ==
  ASSUME HomeInv, loadMyNodes(hmMine', hmCards, hmLoads), Clashes,
         UNCHANGED <<hmView, hmLevel, healthVars, hmClicks>>
  PROVE  HomeInv'
<1>1. hmClash' = (hmClash \/ hmLoads # {}) /\ UNCHANGED <<hmMaps, hmMini>>
  BY Zenon DEF Clashes, healthVars
<1>2. hmClash' \in BOOLEAN /\ (~hmClash' => hmLoads = {})
  BY <1>1, Zenon DEF HomeInv
<1>3. CardsFit'
  BY <1>2, LoadMyNodesFits, Zenon DEF CardsFit
<1>4. OneOutsideListener' /\ OneMiniMap'
  BY <1>1, Zenon DEF OneOutsideListener, OneMiniMap, HomeInv
<1> QED BY <1>2, <1>3, <1>4, Zenon DEF HomeInv

LEMMA HomeInvNext == HomeInv /\ [HomeNext]_hmVars => HomeInv'
<1> SUFFICES ASSUME HomeInv, [HomeNext]_hmVars PROVE HomeInv'
  OBVIOUS
<1> DEFINE Same == UNCHANGED <<hmView, hmLevel, hmMine, hmCards, hmLoads, hmClash, hmMaps, hmMini, hmClicks>>
<1>0. ASSUME Same PROVE HomeInv'
  BY <1>0, Zenon DEF HomeInv, CardsFit, OneOutsideListener, OneMiniMap
<1>1. CASE initHome \/ themeHome
  <2>1. CASE hmLevel = ""
    BY <1>1, <2>1, ChooserKeeps, Zenon DEF initHome, themeHome
  <2>2. CASE hmLevel # ""
    <3>1. renderHome /\ hmLevel' # ""
      BY <1>1, <2>2, Zenon DEF initHome, themeHome
    <3> QED BY <3>1, RenderHomeKeeps
  <2> QED BY <2>1, <2>2
<1>2. ASSUME NEW l \in {"new", "experienced"}, choose(l) PROVE HomeInv'
  <2>1. renderHome /\ hmLevel' = l /\ l # ""
    BY <1>2 DEF choose
  <2> QED BY <2>1, RenderHomeKeeps
<1>3. CASE toggleLevel
  <2>1. renderHome /\ hmLevel' # ""
    BY <1>3 DEF toggleLevel
  <2> QED BY <2>1, RenderHomeKeeps
<1>4. CASE destroyHome
  <2>1. /\ hmView' = "off" /\ hmClicks' = 0 /\ hmMaps' = hmMaps \ {hmMini} /\ UNCHANGED <<hmLevel, hmClash>>
    BY <1>4, Zenon DEF destroyHome
  <2>2. hmMaps' = {}
    BY <2>1 DEF HomeInv, OneMiniMap
  <2> QED BY <2>1, <2>2 DEF HomeInv, CardsFit, OneOutsideListener, OneMiniMap
<1>5. CASE homeSearchInput \/ searchTimer \/ searchAnswers \/ handleOutsideClick
  BY <1>0, <1>5, Zenon DEF homeSearchInput, searchTimer, searchAnswers, handleOutsideClick, healthVars
<1>6. CASE claimShown
  BY <1>6, ClaimKeeps, Zenon DEF claimShown
<1>7. ASSUME NEW k \in HomeKeys, claimSuggested(k) PROVE HomeInv'
  BY <1>7, ClaimKeeps, Zenon DEF claimSuggested
<1>8. ASSUME NEW k \in HomeKeys, removeMyNode(k) PROVE HomeInv'
  BY <1>8, ClaimKeeps, Zenon DEF removeMyNode
<1>9. ASSUME NEW k \in HomeKeys, loadHealth(k) PROVE HomeInv'
  BY <1>0, <1>9, Zenon DEF loadHealth
<1>10. ASSUME NEW l \in hmLoads, cardsArrive(l) PROVE HomeInv'
  <2>1. hmLoads' = hmLoads \ {l} /\ hmCards' = l.mine /\ UNCHANGED <<hmView, hmLevel, hmMine, hmClash, hmMaps, hmMini, hmClicks>>
    BY <1>10, Zenon DEF cardsArrive, healthVars
  <2>2. CardsFit'
    BY <2>1 DEF CardsFit, HomeInv
  <2> QED BY <2>1, <2>2, Zenon DEF HomeInv, OneOutsideListener, OneMiniMap
<1>11. ASSUME NEW a \in hmAsks, healthArrives(a) PROVE HomeInv'
  <2> DEFINE here == a.inst = hmInst /\ hmView = "home"
  <2>1. miniMapFor(a.key, here) /\ UNCHANGED <<hmView, hmLevel, hmMine, hmCards, hmLoads, hmClash, hmClicks>>
    BY <1>11, Zenon DEF healthArrives
  <2>2. dropOld = {}
    BY DEF dropOld, HomeInv, OneMiniMap
  <2>3. OneMiniMap'
    <3>1. CASE a.key \notin HomePlaced
      BY <2>1, <3>1, Zenon DEF miniMapFor, HomeInv, OneMiniMap
    <3>2. CASE a.key \in HomePlaced /\ (here \/ (hmView = "home" /\ hmHealth \in HomePlaced))
      <4>1. hmMaps' = dropOld \union {NewMap} /\ hmMini' = NewMap /\ hmView = "home"
        BY <2>1, <3>2, Zenon DEF miniMapFor
      <4> QED BY <2>1, <2>2, <4>1 DEF OneMiniMap
    <3>3. CASE a.key \in HomePlaced /\ ~(here \/ (hmView = "home" /\ hmHealth \in HomePlaced))
      <4>1. hmMaps' = {}
        BY <2>1, <2>2, <3>3, Zenon DEF miniMapFor
      <4> QED BY <4>1 DEF OneMiniMap
    <3> QED BY <3>1, <3>2, <3>3
  <2> QED BY <2>1, <2>3, Zenon DEF HomeInv, CardsFit, OneOutsideListener
<1>12. ASSUME NEW a \in hmAsks, healthFails(a) PROVE HomeInv'
  BY <1>0, <1>12, Zenon DEF healthFails
<1>13. CASE UNCHANGED hmVars
  BY <1>0, <1>13, Zenon DEF hmVars
<1> QED BY <1>1, <1>2, <1>3, <1>4, <1>5, <1>6, <1>7, <1>8, <1>9, <1>10, <1>11, <1>12, <1>13, Zenon DEF HomeNext

(* The cards are those of the claimed nodes once loads that did not        *)
(* overlap are through; one listener for clicks outside and one small map  *)
(* at most, however often the page is built (home.js, loadMyNodes,         *)
(* searchAbort, miniMap).                                                  *)
THEOREM HomeThm == HomeInit /\ [][HomeNext]_hmVars => [](CardsAreMine /\ OneOutsideListener /\ OneMiniMap)
<1>1. HomeInit => HomeInv
  <2> SUFFICES ASSUME HomeInit PROVE HomeInv
    OBVIOUS
  <2>1. hmClash \in BOOLEAN /\ hmView = "off" /\ hmClicks = 0 /\ hmMaps = {}
    BY Zenon DEF HomeInit
  <2> QED BY <2>1 DEF HomeInv, CardsFit, OneOutsideListener, OneMiniMap
<1>2. HomeInv => CardsAreMine /\ OneOutsideListener /\ OneMiniMap
  BY DEF HomeInv, CardsFit, CardsAreMine
<1> QED BY <1>1, <1>2, HomeInvNext, PTL

(* The small pages side by side. *)
SmallPagesSpec ==
    /\ ObsInit /\ [][ObsNext]_obVars
    /\ ChartPagesInit /\ [][ChartPagesNext]_cpVars
    /\ CompareInit /\ [][CompareNext]_cmVars
    /\ HomeInit /\ [][HomeNext]_hmVars

(* The observer, comparison and home pages show the chosen ones. *)
THEOREM SmallPagesConsistentThm == SmallPagesSpec => []SmallPagesConsistent
<1>1. CompareButtonAgrees /\ ChartsOnPage /\ ComparisonOfChosen /\ CardsAreMine /\ OneOutsideListener /\ OneMiniMap
      => SmallPagesConsistent
  BY Zenon DEF SmallPagesConsistent
<1> QED BY <1>1, ObserversThm, ChartsThm, CompareThm, HomeThm, PTL DEF SmallPagesSpec
==============================================================================
