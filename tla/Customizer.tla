------------------------------ MODULE Customizer ------------------------------
(***************************************************************************)
(* The customizer (public/customize-v2.js): overrides of the server's      *)
(* settings kept in local storage and written after a pause, the styles    *)
(* they end up in, the colours of roles that colour-blind presets          *)
(* (public/cb-presets.js) compete for, and the geo filter tab.             *)
(***************************************************************************)
EXTENDS Integers, FiniteSets

CONSTANTS Fields,        \* settings with one value each
          ServerHas,     \* those the server has a default for
          Mirrored,      \* those applyCSS copies to a key of the old customizer
          MaxCust, MaxGeo

ASSUME CustomizerAssumption == ServerHas \subseteq Fields /\ Mirrored \subseteq Fields /\ MaxCust \in Nat /\ MaxGeo \in Nat

\* Values: 0 none, 1 the server's default, 2 and 3 the user's.
Default(f) == IF f \in ServerHas THEN 1 ELSE 0
None == [f \in Fields |-> 0]
Every(v) == [f \in Fields |-> v]
NoSteps == <<0, 0>>

VARIABLES boot,          \* "script", "early", "served": how far the page is loaded
          legacy,        \* settings under the keys of the old customizer
          stored,        \* overrides in local storage
          pendOv,        \* _pendingOverrides
          drag,          \* colours being dragged: shown, not yet chosen
          writeTimer, saveState, full,
          css,           \* the style variable of each field, 0 when not set
          steps, pendSteps, siteSteps,  \* the list of the home page: stored, pending, in SITE_CONFIG
          edited,        \* history: the list as the user edited it
          wanted,        \* history: field -> what the user last chose, 0 for the default
          beaten,        \* history: fields that were pending when everything was replaced
          nCust
custVars == <<boot, legacy, stored, pendOv, drag, writeTimer, saveState, full, css, steps, pendSteps, siteSteps,
              edited, wanted, beaten, nCust>>

CustInit ==
    /\ boot = "script" /\ legacy \in {None, Every(3)} /\ stored \in (IF legacy = None THEN {None, Every(2)} ELSE {None}) /\ pendOv = None /\ drag = None
    /\ writeTimer = FALSE /\ saveState = "saved" /\ full \in BOOLEAN /\ css = None
    /\ steps = NoSteps /\ pendSteps = NoSteps /\ siteSteps = NoSteps /\ edited = NoSteps
    /\ wanted = (IF stored # None THEN stored ELSE legacy) /\ beaten = {} /\ nCust = 0
CustAct == boot # "script" /\ nCust < MaxCust /\ nCust' = nCust + 1

\* The server's defaults are not known before its answer is.
Server(f) == IF boot' = "served" THEN Default(f) ELSE 0
computeEffective(ov, f) == IF ov[f] # 0 THEN ov[f] ELSE Server(f)

\* applyCSS sets what has a value and leaves the other variables as they are.
SetStyles(ov) == css' = [f \in Fields |-> IF computeEffective(ov, f) # 0 THEN computeEffective(ov, f) ELSE css[f]]
Mirror(ov) ==
    legacy' = [f \in Fields |-> IF f \in Mirrored /\ computeEffective(ov, f) # 0 THEN computeEffective(ov, f) ELSE legacy[f]]
applyOverridesOnly(ov) == css' = [f \in Fields |-> IF ov[f] # 0 THEN ov[f] ELSE css[f]] /\ Mirror(ov)
applyCSS(ov) == SetStyles(ov) /\ Mirror(ov)

writeOverrides(ov, st) ==
    IF full /\ <<ov, st>> # <<None, NoSteps>> THEN UNCHANGED <<stored, steps>> /\ saveState' = "error"
    ELSE stored' = ov /\ steps' = st /\ saveState' = "saved"
\* The pipeline reads what is stored by now, which a full storage left as it was.
_runPipeline == applyCSS(stored') /\ siteSteps' = steps'

\* Loading the script: settings of the old customizer are taken over unless
\* there are new ones, and overrides are applied before the server answers.
migrateOldKeys ==
    /\ boot = "script" /\ boot' = "early"
    /\ IF stored # None \/ legacy = None THEN UNCHANGED <<stored, steps, saveState, legacy>>
       ELSE writeOverrides(legacy, steps) /\ legacy' = None
    /\ SetStyles(stored')
    /\ UNCHANGED <<pendOv, drag, writeTimer, full, pendSteps, siteSteps, edited, wanted, beaten, nCust>>
\* The server's answer: overrides that equal a default go, the pipeline runs.
_cleanPhantomOverrides == [f \in Fields |-> IF stored[f] = Default(f) THEN 0 ELSE stored[f]]
customizerInit ==
    /\ boot = "early" /\ boot' = "served"
    /\ IF _cleanPhantomOverrides # stored THEN writeOverrides(_cleanPhantomOverrides, steps)
       ELSE UNCHANGED <<stored, steps, saveState>>
    /\ _runPipeline
    /\ UNCHANGED <<pendOv, drag, writeTimer, full, pendSteps, edited, wanted, beaten, nCust>>

\* A colour is dragged: shown at once, chosen when it is let go.
colorInput(f, v) ==
    /\ CustAct /\ v \in {2, 3} /\ drag' = [drag EXCEPT ![f] = v] /\ css' = [css EXCEPT ![f] = v]
    /\ UNCHANGED <<boot, legacy, stored, pendOv, writeTimer, saveState, full, steps, pendSteps, siteSteps, edited, wanted, beaten>>

\* A choice waits for the timer, which starts anew.
setOverrideReplaces(f, v) == pendOv' = [None EXCEPT ![f] = v]
setOverrideAdds(f, v) == pendOv' = [pendOv EXCEPT ![f] = v]
setOverride(f, v) ==
    /\ CustAct /\ v \in (IF drag[f] = 0 THEN {1, 2} ELSE {drag[f]}) /\ drag' = [drag EXCEPT ![f] = 0]
    /\ setOverrideAdds(f, v) /\ writeTimer' = TRUE /\ saveState' = "saving"
    /\ wanted' = [wanted EXCEPT ![f] = v] /\ beaten' = beaten \ {f}
    /\ UNCHANGED <<boot, legacy, stored, full, css, steps, pendSteps, siteSteps, edited>>

clearPending(f) == pendOv' = [pendOv EXCEPT ![f] = 0]
clearOverride(f) ==
    /\ CustAct /\ stored[f] # 0 /\ drag[f] = 0 /\ boot' = boot /\ clearPending(f) /\ writeOverrides([stored EXCEPT ![f] = 0], steps)
    /\ _runPipeline /\ wanted' = [wanted EXCEPT ![f] = 0] /\ beaten' = beaten \ {f}
    /\ UNCHANGED <<drag, writeTimer, full, pendSteps, edited>>

\* 300 ms later: what waits is merged, and dropped where it is the default.
Merged == [f \in Fields |-> IF pendOv[f] = 0 THEN stored[f] ELSE IF pendOv[f] = Server(f) THEN 0 ELSE pendOv[f]]
_debouncedWrite ==
    /\ writeTimer /\ writeTimer' = FALSE /\ boot' = boot /\ pendOv' = None
    /\ writeOverrides(Merged, IF pendSteps = NoSteps THEN steps ELSE pendSteps) /\ _runPipeline
    /\ pendSteps' = NoSteps /\ UNCHANGED <<drag, full, edited, wanted, beaten, nCust>>

\* A preset of colours or an imported file replaces the overrides; the
\* default preset removes them.  What is pending is left to its timer.
ReplaceOverrides(ov) ==
    /\ CustAct /\ boot' = boot /\ drag = None /\ writeOverrides(ov, NoSteps)
    /\ IF saveState' = "error" THEN UNCHANGED <<wanted, beaten, edited>>
       ELSE wanted' = ov /\ beaten' = {f \in Fields : pendOv[f] # 0} /\ edited' = NoSteps
    /\ _runPipeline
    /\ UNCHANGED <<pendOv, drag, writeTimer, full, pendSteps>>
presetClick == ReplaceOverrides(None) \/ ReplaceOverrides(Every(3))
validateShape(data) == data # None
importFile(data) == validateShape(data) /\ ReplaceOverrides(data)

\* _resetAll takes every style variable away before the pipeline runs.
_resetAll ==
    /\ CustAct /\ boot' = boot /\ drag = None /\ stored' = None /\ steps' = NoSteps /\ siteSteps' = NoSteps
    /\ css' = [f \in Fields |-> Server(f)] /\ wanted' = None /\ beaten' = {f \in Fields : pendOv[f] # 0} /\ edited' = NoSteps
    /\ Mirror(None) /\ UNCHANGED <<pendOv, drag, writeTimer, saveState, full, pendSteps>>

\* The list of the home page is edited in a copy of what SITE_CONFIG has.
homeInput(i, v) ==
    /\ CustAct /\ i \in {1, 2} /\ v \in {2, 3} /\ pendSteps' = [siteSteps EXCEPT ![i] = v] /\ writeTimer' = TRUE /\ saveState' = "saving"
    /\ edited' = [edited EXCEPT ![i] = v]
    /\ UNCHANGED <<boot, legacy, stored, pendOv, drag, full, css, steps, siteSteps, wanted, beaten>>

\* The page is loaded again once everything is written.
reloadPage ==
    /\ CustAct /\ boot = "served" /\ ~writeTimer /\ drag = None /\ boot' = "script" /\ saveState' = "saved" /\ css' = None
    /\ siteSteps' = NoSteps
    /\ UNCHANGED <<legacy, stored, pendOv, drag, writeTimer, full, steps, pendSteps, edited, wanted, beaten>>

CustNext ==
    \/ \E f \in Fields : clearOverride(f) \/ \E v \in 1..3 : setOverride(f, v) \/ colorInput(f, v)
    \/ \E data \in {None, Every(2)} : importFile(data)
    \/ \E i \in {1, 2}, v \in {2, 3} : homeInput(i, v)
    \/ migrateOldKeys \/ customizerInit \/ _debouncedWrite \/ presetClick \/ _resetAll \/ reloadPage

\* Once nothing is pending and the storage has room, every setting is what
\* the user chose last, however quickly the choices followed one another,
\* before or after the server's defaults came, and in the old customizer
\* too; except those pending when a preset or a reset replaced all.
\* And except a mirrored setting that was given up (see ResetStays).
Final(f) == IF stored[f] # 0 THEN stored[f] ELSE Default(f)
Wish(f) == IF wanted[f] # 0 THEN wanted[f] ELSE Default(f)
GivenUp(f) == f \in Mirrored /\ wanted[f] = 0
Settled == ~writeTimer /\ ~full /\ boot # "script"
SettledIsWanted == Settled => \A f \in Fields \ beaten : GivenUp(f) \/ Final(f) = Wish(f)

\* A setting that was reset stays reset: a mirrored one comes back from the
\* old customizer's key when the page is loaded again.
ResetStays == Settled => \A f \in Mirrored \ beaten : wanted[f] = 0 => Final(f) = Default(f)

\* The styles on the page are those of the settings that are stored, for
\* every setting that has a default and is not being dragged.
StylesFollow == (~writeTimer /\ boot = "served") => \A f \in ServerHas : drag[f] = 0 => css[f] = Final(f)

\* No edit of the list is lost, however quickly edits follow one another.
NoEditLost == (~writeTimer /\ ~full) => steps = edited

-------------------------------------------------------------------------------
(* The colour of one role: the user's, the preset's or the server's.        *)
VARIABLES cbPreset,      \* body attribute: "" or a preset
          userRole,      \* the user's colour, 0 for none
          rootRole,      \* --mc-role-X on the root: a source and a value
          bodyRole,      \* inline on the body with !important
          leftBody,      \* history: a preset was cleared while the body had a colour
          nRole
roleVars == <<cbPreset, userRole, rootRole, bodyRole, leftBody, nRole>>

Color(src, v) == <<src, v>>
NoColor == Color("none", 0)
RoleInit == cbPreset = "" /\ userRole = 0 /\ rootRole = Color("server", 0) /\ bodyRole = NoColor /\ leftBody = FALSE /\ nRole = 0
RoleAct == nRole < MaxCust /\ nRole' = nRole + 1

\* applyCSS for the role, with the preset and the override as they are now.
roleWithoutBody(p, u) ==
    /\ rootRole' = (IF u # 0 THEN Color("user", u) ELSE IF p = "" THEN Color("server", 0) ELSE NoColor)
    /\ bodyRole' = bodyRole
rolePipeline(p, u) ==
    /\ rootRole' = (IF u # 0 THEN Color("user", u) ELSE IF p = "" THEN Color("server", 0) ELSE NoColor)
    /\ bodyRole' = (IF p = "" THEN bodyRole ELSE IF u # 0 THEN Color("user", u) ELSE NoColor)
pickRole(u) ==
    /\ RoleAct /\ u \in 0..2 /\ u # userRole /\ userRole' = u /\ rolePipeline(cbPreset, u) /\ UNCHANGED <<cbPreset, leftBody>>
\* applyPreset and clearPreset write the root and fire the event that runs the pipeline.
applyPreset(p) ==
    /\ RoleAct /\ p \in {"wong", "tol"} /\ cbPreset' = p /\ rolePipeline(p, userRole) /\ UNCHANGED <<userRole, leftBody>>
clearPreset ==
    /\ RoleAct /\ cbPreset # "" /\ cbPreset' = "" /\ rolePipeline("", userRole)
    /\ leftBody' = (leftBody \/ bodyRole # NoColor) /\ UNCHANGED userRole
resetRoles ==
    /\ RoleAct /\ cbPreset' = "" /\ userRole' = 0 /\ rootRole' = Color("server", 0) /\ bodyRole' = NoColor /\ leftBody' = FALSE

RoleNext == (\E u \in 0..2 : pickRole(u)) \/ (\E p \in {"wong", "tol"} : applyPreset(p)) \/ clearPreset \/ resetRoles

\* What an element shows: the body's own colour, the preset's rule on the
\* body, or what it inherits from the root.
Shown == IF bodyRole # NoColor THEN bodyRole ELSE IF cbPreset # "" THEN Color(cbPreset, 0) ELSE rootRole
Cascade == IF userRole # 0 THEN Color("user", userRole) ELSE IF cbPreset # "" THEN Color(cbPreset, 0) ELSE Color("server", 0)

\* The user's colour wins over the preset, the preset over the server, after
\* any sequence of picks; except after a preset was cleared under a pick.
RolesCascade == leftBody \/ Shown = Cascade

\* The same without the exception.
RolesAlwaysCascade == Shown = Cascade

-------------------------------------------------------------------------------
(* The geo filter tab.                                                      *)
VARIABLES geoTab,        \* the tab is open
          geoMaps,       \* Leaflet maps made and not removed
          geoHeld,       \* _gfMap is set
          geoLoaded, geoAsks,
          geoPoints,     \* polygon: 0 none, 1 the server's, 2 the user's
          modalPoints,   \* 3 when the editor is closed
          outside,       \* nodes outside the server's filter
          preview, prevAsks,   \* _gfPruneNodes, and answers on their way
          listed, confirmable, \* what the page lists, and whether it can be confirmed
          deleted,       \* history: nodes deleted, and what was listed then
          refreshed,     \* history: the panel was drawn again under the tab
          nGeo
geoVars == <<geoTab, geoMaps, geoHeld, geoLoaded, geoAsks, geoPoints, modalPoints, outside, preview, prevAsks,
             listed, confirmable, deleted, refreshed, nGeo>>

GeoNodes == {"n1", "n2"}
GeoInit ==
    /\ geoTab = FALSE /\ geoMaps = 0 /\ geoHeld = FALSE /\ geoLoaded = FALSE /\ geoAsks = 0 /\ geoPoints = 0 /\ modalPoints = 3
    /\ outside \in {{}, {"n1"}} /\ preview = {} /\ prevAsks = {} /\ listed = {} /\ confirmable = FALSE
    /\ deleted = <<{}, {}>> /\ refreshed = FALSE /\ nGeo = 0
GeoAct == nGeo < MaxGeo /\ nGeo' = nGeo + 1

\* The tab makes a map and asks for the filter until it was loaded once.
_initGeoFilterTab ==
    /\ geoMaps' = geoMaps + 1 /\ geoHeld' = TRUE /\ geoAsks' = (IF geoLoaded THEN geoAsks ELSE geoAsks + 1)
    /\ listed' = {} /\ confirmable' = FALSE
openGeoTab ==
    /\ GeoAct /\ ~geoTab /\ geoTab' = TRUE /\ _initGeoFilterTab
    /\ UNCHANGED <<geoLoaded, geoPoints, modalPoints, outside, preview, prevAsks, deleted, refreshed>>
\* A change of theme draws the panel again without removing the map.
refreshPanel ==
    /\ GeoAct /\ geoTab /\ _initGeoFilterTab /\ refreshed' = TRUE
    /\ UNCHANGED <<geoTab, geoLoaded, geoPoints, modalPoints, outside, preview, prevAsks, deleted>>
leaveKeepsMap ==
    /\ GeoAct /\ geoTab /\ geoTab' = FALSE /\ geoHeld' = FALSE /\ UNCHANGED geoMaps
    /\ modalPoints' = 3 /\ listed' = {} /\ confirmable' = FALSE
    /\ UNCHANGED <<geoLoaded, geoAsks, geoPoints, outside, preview, prevAsks, deleted, refreshed>>
leaveGeoTab ==
    /\ GeoAct /\ geoTab /\ geoTab' = FALSE /\ geoHeld' = FALSE /\ geoMaps' = geoMaps - 1
    /\ modalPoints' = 3 /\ listed' = {} /\ confirmable' = FALSE
    /\ UNCHANGED <<geoLoaded, geoAsks, geoPoints, outside, preview, prevAsks, deleted, refreshed>>
\* The filter arrives; without a map an empty one ends in an error.
geoFilterArrives(p) ==
    /\ geoAsks > 0 /\ geoAsks' = geoAsks - 1 /\ p \in {0, 1} /\ geoPoints' = p
    /\ geoLoaded' = (geoLoaded \/ geoHeld \/ p = 1)
    /\ UNCHANGED <<geoTab, geoMaps, geoHeld, modalPoints, outside, preview, prevAsks, listed, confirmable, deleted, refreshed, nGeo>>
_gfOpenModal ==
    /\ GeoAct /\ geoHeld /\ modalPoints = 3 /\ modalPoints' = geoPoints
    /\ UNCHANGED <<geoTab, geoMaps, geoHeld, geoLoaded, geoAsks, geoPoints, outside, preview, prevAsks, listed, confirmable, deleted, refreshed>>
modalDone ==
    /\ GeoAct /\ modalPoints # 3 /\ geoPoints' \in {0, 2} /\ modalPoints' = 3
    /\ UNCHANGED <<geoTab, geoMaps, geoHeld, geoLoaded, geoAsks, outside, preview, prevAsks, listed, confirmable, deleted, refreshed>>
\* The server's filter is saved or removed, by this page or another.
_gfSave(out) ==
    /\ GeoAct /\ out \in SUBSET GeoNodes /\ outside' = out
    /\ UNCHANGED <<geoTab, geoMaps, geoHeld, geoLoaded, geoAsks, geoPoints, modalPoints, preview, prevAsks, listed, confirmable, deleted, refreshed>>
_gfPrunePreview ==
    /\ GeoAct /\ geoTab /\ prevAsks' = prevAsks \union {outside}
    /\ UNCHANGED <<geoTab, geoMaps, geoHeld, geoLoaded, geoAsks, geoPoints, modalPoints, outside, preview, listed, confirmable, deleted, refreshed>>
previewListedOnce(ns) ==
    /\ preview' = ns
    /\ IF ~geoTab \/ confirmable THEN UNCHANGED <<listed, confirmable>> ELSE listed' = ns /\ confirmable' = (ns # {})
previewListed(ns) ==
    /\ preview' = ns
    /\ IF ~geoTab THEN UNCHANGED <<listed, confirmable>>
       ELSE IF ns = {} THEN confirmable' = FALSE /\ UNCHANGED listed ELSE listed' = ns /\ confirmable' = TRUE
previewArrives(ns) ==
    /\ ns \in prevAsks /\ prevAsks' = prevAsks \ {ns} /\ previewListed(ns)
    /\ UNCHANGED <<geoTab, geoMaps, geoHeld, geoLoaded, geoAsks, geoPoints, modalPoints, outside, deleted, refreshed, nGeo>>
_gfPruneConfirm ==
    /\ GeoAct /\ confirmable /\ preview # {} /\ deleted' = <<preview, listed>> /\ outside' = outside \ preview
    /\ preview' = {} /\ confirmable' = FALSE
    /\ UNCHANGED <<geoTab, geoMaps, geoHeld, geoLoaded, geoAsks, geoPoints, modalPoints, prevAsks, listed, refreshed>>

GeoNext ==
    \/ openGeoTab \/ refreshPanel \/ leaveGeoTab \/ _gfOpenModal \/ modalDone \/ _gfPrunePreview \/ _gfPruneConfirm
    \/ \E p \in {0, 1} : geoFilterArrives(p)
    \/ \E ns \in SUBSET GeoNodes : _gfSave(ns) \/ previewArrives(ns)

\* Nodes are deleted only as the list the user confirmed named them, however
\* previews overlap and the filter changes meanwhile.
PrunesWhatIsListed == deleted[1] = deleted[2]

\* Maps do not pile up: one while the tab is open, none otherwise, unless
\* the panel was drawn again under the tab.
OneGeoMap == ~refreshed => geoMaps = (IF geoTab THEN 1 ELSE 0)

(* Once its timers are done, storage, page and panel agree with what the
   user wanted. *)
CustomizerSettles ==
    /\ SettledIsWanted
    /\ StylesFollow
    /\ RolesCascade
    /\ PrunesWhatIsListed
    /\ OneGeoMap
===============================================================================
