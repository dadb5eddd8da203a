---------------------------------- MODULE Widgets ----------------------------------
(***************************************************************************)
(* The two menus of narrow and wide windows: the drawer pulled in from the *)
(* left edge (public/nav-drawer.js), the bar at the bottom with its More   *)
(* sheet (public/bottom-nav.js), and the buttons public/                   *)
(* mobile-page-actions.js mirrors into the bar and the sheet.              *)
(***************************************************************************)
EXTENDS Integers, FiniteSets, Sequences

CONSTANTS MnRoutes,     \* routes visited
          MnEls,        \* elements of the page that can have the focus
          MaxMenu       \* bound on what the user does

VARIABLES mnWidth,      \* "phone" (up to 600), "tablet" (up to 768) or "wide"
          mnRoute, mnUse,
          drOpen, drDrag, drShift,  \* the drawer: is-open, dragging, inline transform
          drFocus,      \* activeElement: an element, "drawer" or "body"
          drPrev,       \* prevFocus, "" for null
          drFrom,       \* history: where the focus was when the drawer opened
          mnHere,       \* elements that are in the document
          nvSheet,      \* "none", "shut" or "open"
          nvLit,        \* tabs with the class active
          nvTouched,    \* history: the sheet was used since the last hashchange
          mpMirrors,    \* mirrored buttons are in the sheet
          mpSlot,       \* pause and filter buttons are mirrored
          mpDetail      \* the packets page's detail sheet is open

drawVars == <<drOpen, drDrag, drShift, drFocus, drPrev, drFrom, mnHere>>
barVars == <<nvSheet, nvLit, nvTouched, mpMirrors, mpSlot, mpDetail>>
menuVars == <<mnWidth, mnRoute, mnUse, drawVars, barVars>>

BarTabs == {"home", "packets", "live", "map", "channels"}
MORE_ROUTES == {"nodes", "tools", "observers", "analytics", "scope-audit", "perf", "audio-lab"}

ASSUME MenusAssumption == "packets" \in MnRoutes /\ {"drawer", "body", ""} \cap MnEls = {} /\ MaxMenu \in Nat

isWide == mnWidth = "wide"
syncActive(route) == (BarTabs \cap {route}) \union (IF route \in MORE_ROUTES THEN {"more"} ELSE {})

MenuInit ==
    /\ mnWidth \in {"phone", "tablet", "wide"} /\ mnRoute = "packets" /\ mnUse = 0
    /\ drOpen = FALSE /\ drDrag = FALSE /\ drShift = FALSE /\ drFocus = "body" /\ drPrev = "" /\ drFrom = "" /\ mnHere = MnEls
    /\ nvSheet = "none" /\ nvLit = syncActive("packets") /\ nvTouched = FALSE
    /\ mpMirrors = FALSE /\ mpSlot = (mnWidth = "phone") /\ mpDetail = FALSE

Use == mnUse < MaxMenu /\ mnUse' = mnUse + 1

(* --- the drawer --- *)

\* A drawer that is open already keeps the element it will give the focus
\* back to; in a narrow window nothing happens.
openDrawerTwice ==
    IF ~isWide THEN UNCHANGED <<drOpen, drFocus, drPrev, drFrom>>
    ELSE /\ drPrev' = (IF drFocus # "body" THEN drFocus ELSE "") /\ drFrom' = (IF drOpen THEN drFrom ELSE drFocus)
         /\ drOpen' = TRUE /\ drFocus' = "drawer"
openDrawer ==
    IF ~isWide THEN UNCHANGED <<drOpen, drFocus, drPrev, drFrom>>
    ELSE /\ drPrev' = (IF drOpen THEN drPrev ELSE IF drFocus # "body" THEN drFocus ELSE "")
         /\ drFrom' = (IF drOpen THEN drFrom ELSE drFocus)
         /\ drOpen' = TRUE /\ drFocus' = "drawer"
\* The focus goes back before the drawer becomes inert, which would take it.
closeDrawer ==
    /\ drOpen' = FALSE /\ drPrev' = "" /\ UNCHANGED drFrom
    /\ drFocus' = (IF drOpen /\ drPrev \in mnHere THEN drPrev ELSE IF drFocus = "drawer" THEN "body" ELSE drFocus)

drawerPointerDown ==
    /\ Use /\ isWide /\ drDrag' = TRUE
    /\ UNCHANGED <<mnWidth, mnRoute, drOpen, drShift, drFocus, drPrev, drFrom, mnHere, barVars>>
abandonMoved == drShift
abandon == FALSE
\* A vertical start gives the gesture up; else the drawer follows the finger,
\* unless motion is to be reduced.
drawerPointerMove ==
    /\ drDrag /\ \/ drDrag' = FALSE /\ drShift' = abandon
                 \/ UNCHANGED drDrag /\ drShift' \in {drShift, TRUE}
    /\ UNCHANGED <<mnWidth, mnRoute, mnUse, drOpen, drFocus, drPrev, drFrom, mnHere, barVars>>
drawerPointerUp(far) ==
    /\ drDrag /\ drDrag' = FALSE /\ drShift' = FALSE
    /\ IF drOpen = far THEN closeDrawer ELSE openDrawer
    /\ UNCHANGED <<mnWidth, mnRoute, mnUse, mnHere, barVars>>
\* Escape, the backdrop or the close button.
dismissDrawer ==
    /\ drOpen /\ closeDrawer /\ drShift' = FALSE
    /\ UNCHANGED <<mnWidth, mnRoute, mnUse, drDrag, mnHere, barVars>>
focusElement(e) ==
    /\ ~drOpen /\ e \in mnHere /\ drFocus # e /\ drFocus' = e
    /\ UNCHANGED <<mnWidth, mnRoute, mnUse, drOpen, drDrag, drShift, drPrev, drFrom, mnHere, barVars>>
elementGoes(e) ==
    /\ e \in mnHere /\ mnHere' = mnHere \ {e} /\ drFocus' = (IF drFocus = e THEN "body" ELSE drFocus)
    /\ UNCHANGED <<mnWidth, mnRoute, mnUse, drOpen, drDrag, drShift, drPrev, drFrom, barVars>>
resizeTo(w) ==
    /\ Use /\ w # mnWidth /\ mnWidth' = w /\ mpSlot' = (w = "phone" /\ mnRoute = "packets") /\ mpDetail' = (mpDetail /\ mnRoute = "packets")
    /\ IF w = "wide" THEN UNCHANGED <<drOpen, drShift, drFocus, drPrev, drFrom>> ELSE closeDrawer /\ drShift' = FALSE
    /\ UNCHANGED <<mnRoute, drDrag, mnHere, nvSheet, nvLit, nvTouched, mpMirrors>>

(* --- the bar, its sheet, and what a change of route does to all of them --- *)

openSheet == nvSheet' = "open" /\ nvLit' = nvLit \union {"more"}
closeSheet == nvSheet' = (IF nvSheet = "none" THEN "none" ELSE "shut") /\ nvLit' = nvLit \ {"more"}
toggleSheet ==
    /\ Use /\ ~isWide /\ (IF nvSheet = "open" THEN closeSheet ELSE openSheet) /\ nvTouched' = TRUE
    /\ UNCHANGED <<mnWidth, mnRoute, drawVars, mpMirrors, mpSlot, mpDetail>>
\* A click elsewhere, Escape, the dark-mode button, Search or Customize.
dismissSheet ==
    /\ nvSheet = "open" /\ closeSheet /\ nvTouched' = TRUE
    /\ UNCHANGED <<mnWidth, mnRoute, mnUse, drawVars, mpMirrors, mpSlot, mpDetail>>
\* The mirrored Favourites button stops the click on its way to the document:
\* the sheet loses a class and stays.
mirroredFavourites ==
    /\ nvSheet = "open" /\ mpMirrors /\ ~nvTouched /\ nvTouched' = TRUE
    /\ UNCHANGED <<mnWidth, mnRoute, mnUse, drawVars, nvSheet, nvLit, mpMirrors, mpSlot, mpDetail>>
addMissingMoreSheetItems ==
    /\ nvSheet # "none" /\ ~mpMirrors /\ mpMirrors' = TRUE
    /\ UNCHANGED <<mnWidth, mnRoute, mnUse, drawVars, nvSheet, nvLit, nvTouched, mpSlot, mpDetail>>
openDetail ==
    /\ mnRoute = "packets" /\ ~isWide /\ ~mpDetail /\ mpDetail' = TRUE
    /\ UNCHANGED <<mnWidth, mnRoute, mnUse, drawVars, nvSheet, nvLit, nvTouched, mpMirrors, mpSlot>>

syncFirst(route) == nvSheet' = (IF nvSheet = "none" THEN "none" ELSE "shut") /\ nvLit' = syncActive(route) \ {"more"}
\* The sheet's own listener was registered before syncActive's.
hashListeners(route) == nvSheet' = (IF nvSheet = "none" THEN "none" ELSE "shut") /\ nvLit' = syncActive(route)
syncSlot(route) == mpSlot' = (mnWidth = "phone" /\ route = "packets") /\ mpDetail' = (mpDetail /\ route = "packets")
\* A link, wherever it is: those of the drawer close it first. The page's
\* elements are replaced.
hashchange(route) ==
    /\ Use /\ route # mnRoute /\ mnRoute' = route /\ hashListeners(route) /\ nvTouched' = FALSE /\ syncSlot(route)
    /\ mnHere' \in {mnHere, {}}
    /\ IF drOpen THEN closeDrawer /\ drShift' = FALSE ELSE UNCHANGED <<drOpen, drShift, drPrev, drFrom>> /\ drFocus' = (IF drFocus \in mnHere' THEN drFocus ELSE "body")
    /\ UNCHANGED <<mnWidth, drDrag, mpMirrors>>

MenuNext ==
    \/ drawerPointerDown \/ drawerPointerMove \/ (\E far \in BOOLEAN : drawerPointerUp(far)) \/ dismissDrawer
    \/ (\E e \in MnEls : focusElement(e) \/ elementGoes(e)) \/ (\E w \in {"phone", "tablet", "wide"} : resizeTo(w))
    \/ toggleSheet \/ dismissSheet \/ mirroredFavourites \/ addMissingMoreSheetItems \/ openDetail
    \/ \E r \in MnRoutes : hashchange(r)

\* After every change of route, until the sheet is used again, exactly the tab
\* of this route is lit, and More for the routes of its sheet (closeSheet and
\* syncActive both write the class).
LitTabIsRoute == ~nvTouched => nvLit = syncActive(mnRoute)
\* Whatever happens between the start and the end of a pull, resizes and
\* second pulls included: a drawer at rest is where its class says, only a wide
\* window has it open, and a closed one does not hold the focus.
DrawerRests == /\ ~drDrag => ~drShift
               /\ drOpen => isWide
               /\ drFocus = "drawer" => drOpen
\* Closing the drawer gives the focus back to the element that had it when it
\* was opened, however often it was pulled since (prevFocus).
FocusReturns == [][(drOpen /\ ~drOpen' /\ drFrom \in mnHere /\ drFrom # "body") => drFocus' = drFrom]_menuVars

------------------------------------------------------------------------------
(***************************************************************************)
(* The panels of the live page: four corners to cycle through              *)
(* (public/live.js) and free dragging (public/drag-manager.js), both kept  *)
(* in localStorage and both undone in a narrow window. The gate lets only  *)
(* fine pointers drag, so there is one pointer.                            *)
(***************************************************************************)

CONSTANTS PnDefaults,   \* PANEL_DEFAULTS: corner of each panel
          MaxPanel      \* bound on what the user does

VARIABLES pnState,      \* "IDLE", "PENDING" or "DRAGGING"
          pnActive,     \* the panel being dragged, "" for null
          pnClass,      \* panels with the class is-dragging
          pnDragged,    \* panels with data-dragged
          pnStored,     \* panels with a stored free position
          pnCorner,     \* stored corner of a panel, "" when there is none
          pnPos,        \* data-position: a corner, or "" without the attribute
          pnEnabled,    \* the manager is enabled: the window is wide
          pnWired,      \* click handlers of each corner button
          pnUse

panelVars == <<pnState, pnActive, pnClass, pnDragged, pnStored, pnCorner, pnPos, pnEnabled, pnWired, pnUse>>

Panels == DOMAIN PnDefaults
CORNER_CYCLE == <<"tl", "tr", "br", "bl">>
ASSUME PanelAssumption == /\ \A p, q \in Panels : p # q => PnDefaults[p] # PnDefaults[q]
                          /\ PnDefaults \in [Panels -> {"tl", "tr", "br", "bl"}] /\ "" \notin Panels /\ MaxPanel \in Nat

getPanelPositions(corner) == [p \in Panels |-> IF corner[p] # "" THEN corner[p] ELSE PnDefaults[p]]
IndexOf(c) == CHOOSE i \in 0..3 : CORNER_CYCLE[i + 1] = c
nextCorner(p, desired, all) == desired
\* The desired corner or the first one after it that no other panel has.
nextAvailableCorner(p, desired, all) ==
    LET at(i) == CORNER_CYCLE[((IndexOf(desired) + i) % 4) + 1]
        free == {i \in 0..3 : \A q \in Panels \ {p} : all[q] # at(i)}
    IN IF free = {} THEN desired ELSE at(CHOOSE i \in free : \A j \in free : i <= j)
advance(p, corner) ==
    LET all == getPanelPositions(corner)
        nxt == CORNER_CYCLE[((IndexOf(all[p]) + 1) % 4) + 1]
    IN [corner EXCEPT ![p] = nextAvailableCorner(p, nxt, all)]

\* initPanelPositions; then the stored free positions, before the gate closes.
PanelInit ==
    /\ pnState = "IDLE" /\ pnActive = "" /\ pnClass = {} /\ pnStored \in SUBSET Panels /\ pnDragged = pnStored
    /\ pnCorner = [p \in Panels |-> ""] /\ pnPos = [p \in Panels |-> IF p \in pnStored THEN "" ELSE PnDefaults[p]]
    /\ pnEnabled \in BOOLEAN /\ pnWired = 1 /\ pnUse = 0

PanelUse == pnUse < MaxPanel /\ pnUse' = pnUse + 1
_reset == pnState' = "IDLE" /\ pnActive' = ""

panelDown(p) ==
    /\ PanelUse /\ pnEnabled /\ pnState = "IDLE" /\ pnState' = "PENDING" /\ pnActive' = p
    /\ UNCHANGED <<pnClass, pnDragged, pnStored, pnCorner, pnPos, pnEnabled, pnWired>>
\* Beyond the dead zone the panel leaves its corner.
panelMove ==
    /\ pnState = "PENDING" /\ pnState' = "DRAGGING" /\ pnClass' = pnClass \union {pnActive}
    /\ pnDragged' = pnDragged \union {pnActive} /\ pnPos' = [pnPos EXCEPT ![pnActive] = ""]
    /\ UNCHANGED <<pnActive, pnStored, pnCorner, pnEnabled, pnWired, pnUse>>
\* pointerup, and pointercancel: the position is kept and stored.
panelUp ==
    /\ pnState # "IDLE" /\ pnClass' = pnClass \ {pnActive} /\ _reset
    /\ pnStored' = (IF pnState = "DRAGGING" THEN pnStored \union {pnActive} ELSE pnStored)
    /\ UNCHANGED <<pnDragged, pnCorner, pnPos, pnEnabled, pnWired, pnUse>>
escapeKeeps ==
    /\ pnState = "DRAGGING" /\ pnClass' = pnClass \ {pnActive} /\ _reset
    /\ UNCHANGED <<pnDragged, pnStored, pnCorner, pnPos, pnEnabled, pnWired, pnUse>>
\* A panel that was free before stays where it was; another one is cleared and
\* gets its stored corner, if it has one.
_handleKeyDown ==
    /\ pnState = "DRAGGING" /\ pnClass' = pnClass \ {pnActive} /\ _reset
    /\ IF pnActive \in pnStored THEN UNCHANGED <<pnDragged, pnPos>>
       ELSE pnDragged' = pnDragged \ {pnActive} /\ pnPos' = [pnPos EXCEPT ![pnActive] = pnCorner[pnActive]]
    /\ UNCHANGED <<pnStored, pnCorner, pnEnabled, pnWired, pnUse>>
\* As many steps as there are handlers.
onCornerClick(p) ==
    LET once == advance(p, pnCorner)
        corner == IF pnWired = 1 THEN once ELSE advance(p, once) IN
    /\ PanelUse /\ pnState = "IDLE" /\ pnCorner' = corner
    /\ pnDragged' = pnDragged \ {p} /\ pnStored' = pnStored \ {p} /\ pnClass' = pnClass \ {p}
    /\ pnPos' = [pnPos EXCEPT ![p] = corner[p]] /\ UNCHANGED <<pnState, pnActive, pnEnabled, pnWired>>
\* The gate: free panels go back to corners, what is stored stays stored. The
\* corner buttons are wired once more (counted up to two).
onDragMediaChange ==
    /\ PanelUse /\ pnEnabled' = ~pnEnabled
    /\ IF pnEnabled
       THEN /\ pnDragged' = {} /\ pnClass' = {} /\ pnPos' = getPanelPositions(pnCorner) /\ pnWired' = 2 /\ _reset
       ELSE /\ pnDragged' = pnDragged \union pnStored /\ pnPos' = [p \in Panels |-> IF p \in pnStored THEN "" ELSE pnPos[p]]
            /\ UNCHANGED <<pnClass, pnWired, pnState, pnActive>>
    /\ UNCHANGED <<pnStored, pnCorner>>

PanelNext == (\E p \in Panels : panelDown(p) \/ onCornerClick(p)) \/ panelMove \/ panelUp \/ _handleKeyDown \/ onDragMediaChange

\* No two panels are ever assigned the same corner, whatever was clicked,
\* stored or left at its default (nextAvailableCorner).
CornersDistinct == LET all == getPanelPositions(pnCorner) IN \A p, q \in Panels : p # q => all[p] # all[q]
\* While the window is wide and nothing is being dragged, the panels that are
\* free on the screen are those with a stored position: Escape, a corner click
\* and the gate each undo all of what a drag left (clearPanel).
FreeIsStored == (pnState = "IDLE" /\ pnEnabled) => /\ pnDragged = pnStored /\ pnClass = {}
                                                   /\ \A p \in pnDragged : pnPos[p] = ""

------------------------------------------------------------------------------
(***************************************************************************)
(* Touch on narrow windows: swiping a row, the bar or a slide-over         *)
(* (public/touch-gestures.js), and the hints that tell the user about it   *)
(* (public/gesture-hints.js).                                              *)
(***************************************************************************)

CONSTANTS TgRows,       \* rows of a table, by their hash
          TgTabs,       \* tabs of the bar in order, without More
          MaxTouches,   \* touches
          HintRoutes,   \* routes visited
          MaxHints      \* elements made for hints

ASSUME GestureAssumption == "" \notin TgRows /\ "panel" \notin TgRows /\ Len(TgTabs) \in Nat \ {0} /\ MaxTouches \in Nat /\ MaxHints \in Nat

(* --- touches --- *)

VARIABLES tgCtx,        \* gestureContext while a pointer is active, or ""
          tgAxis,       \* "", "h" or "v"
          tgRow,        \* activeRow, "" for null
          tgTop,        \* slideOverStartScrollTop
          tgSeen,       \* history: scrollTop of panel and content at the start
          tgMoved,      \* rows, and the "panel", that have a transform
          tgOverlay,    \* rowOverlay: [at, hash] or none
          tgSlide,      \* the slide-over is open
          tgTab,        \* index of the current route's tab, 0 when it has none
          tgTouches

touchVars == <<tgCtx, tgAxis, tgRow, tgTop, tgSeen, tgMoved, tgOverlay, tgSlide, tgTab, tgTouches>>

NoOverlay == [at |-> "", hash |-> ""]
TouchInit ==
    /\ tgCtx = "" /\ tgAxis = "" /\ tgRow = "" /\ tgTop = 0 /\ tgSeen = <<0, 0>> /\ tgMoved = {} /\ tgOverlay = NoOverlay
    /\ tgSlide = FALSE /\ tgTab = 1 /\ tgTouches = 0

startScrollInner(panel, inner) == inner
\* Whichever of the two elements scrolls tells.
startScroll(panel, inner) == IF panel > inner THEN panel ELSE inner
\* What is under the finger, the slide-over first.
touchDown(ctx, row, panel, inner) ==
    /\ tgCtx = "" /\ tgTouches < MaxTouches /\ tgTouches' = tgTouches + 1
    /\ (tgSlide <=> ctx = "slide-over") /\ tgCtx' = ctx /\ tgAxis' = "" /\ tgRow' = row
    /\ tgTop' = (IF ctx = "slide-over" THEN startScroll(panel, inner) ELSE 0) /\ tgSeen' = <<panel, inner>>
    /\ UNCHANGED <<tgMoved, tgOverlay, tgSlide, tgTab>>
releasePointer == tgCtx' = "" /\ tgAxis' = "" /\ tgTop' = 0
\* The first ten pixels choose the axis; on the wrong one, or in a panel that
\* was scrolled, the browser has the gesture.
chooseAxis(axis) ==
    /\ tgCtx # "" /\ tgAxis = ""
    /\ IF axis = (IF tgCtx = "slide-over" THEN "v" ELSE "h") /\ (tgCtx = "slide-over" => tgTop = 0)
       THEN tgAxis' = axis /\ UNCHANGED <<tgCtx, tgTop>>
       ELSE releasePointer
    /\ UNCHANGED <<tgRow, tgSeen, tgMoved, tgOverlay, tgSlide, tgTab, tgTouches>>
\* To the left the row follows, down the panel does; a row swiped back to the
\* right loses its transform.
touchMove(forward) ==
    /\ tgAxis # "" /\ tgCtx # "bottom-nav"
    /\ tgMoved' = (IF tgCtx = "row" THEN IF forward THEN tgMoved \union {tgRow} ELSE tgMoved \ {tgRow}
                   ELSE IF forward THEN tgMoved \union {"panel"} ELSE tgMoved)
    /\ UNCHANGED <<tgCtx, tgAxis, tgRow, tgTop, tgSeen, tgOverlay, tgSlide, tgTab, tgTouches>>
\* An overlay that is still there is moved to the row and keeps its hash.
showRowOverlay(row) == [at |-> row, hash |-> IF tgOverlay = NoOverlay THEN row ELSE tgOverlay.hash]
navigateWrap(tab, delta) == IF tab = 0 THEN 0 ELSE tab + delta
\* Only between the tabs of the bar.
navigateRelative(tab, delta) == IF tab = 0 \/ tab + delta \notin 1..Len(TgTabs) THEN tab ELSE tab + delta
\* far: beyond the threshold of the gesture, delta: to which side.
touchUp(far, delta) ==
    /\ tgCtx # "" /\ releasePointer
    /\ tgRow' = (IF tgCtx = "row" /\ tgAxis = "h" THEN "" ELSE tgRow)
    /\ tgMoved' = (IF tgAxis = "" THEN tgMoved ELSE tgMoved \ {tgRow, "panel"})
    /\ tgOverlay' = (IF tgCtx = "row" /\ tgAxis = "h" /\ far /\ delta = 1 THEN showRowOverlay(tgRow) ELSE tgOverlay)
    /\ tgTab' = (IF tgCtx = "bottom-nav" /\ tgAxis = "h" /\ far THEN navigateRelative(tgTab, delta) ELSE tgTab)
    /\ tgSlide' = (tgSlide /\ ~(tgCtx = "slide-over" /\ tgAxis = "v" /\ tgTop = 0 /\ far))
    /\ UNCHANGED <<tgSeen, tgTouches>>
lostQuietly == releasePointer /\ UNCHANGED <<tgRow, tgSeen, tgMoved, tgOverlay, tgSlide, tgTab, tgTouches>>
\* pointercancel and lostpointercapture.
touchLost == releasePointer /\ tgRow' = "" /\ tgMoved' = tgMoved \ {tgRow, "panel"} /\ UNCHANGED <<tgSeen, tgOverlay, tgSlide, tgTab, tgTouches>>
touchCancel == tgCtx # "" /\ touchLost
\* A click elsewhere, or one of its buttons; a filter or a trace goes to the
\* packets page.
onClickAction(there) ==
    /\ tgOverlay # NoOverlay /\ tgOverlay' = NoOverlay /\ tgRow' = "" /\ tgMoved' = tgMoved \ {tgRow} /\ tgTab' = (IF there THEN 1 ELSE tgTab)
    /\ UNCHANGED <<tgCtx, tgAxis, tgTop, tgSeen, tgSlide, tgTouches>>
slideOpens == tgCtx = "" /\ ~tgSlide /\ tgSlide' = TRUE /\ UNCHANGED <<tgCtx, tgAxis, tgRow, tgTop, tgSeen, tgMoved, tgOverlay, tgTab, tgTouches>>
routeWithoutTab == tgCtx = "" /\ tgTab # 0 /\ tgTab' = 0 /\ UNCHANGED <<tgCtx, tgAxis, tgRow, tgTop, tgSeen, tgMoved, tgOverlay, tgSlide, tgTouches>>

TouchNext ==
    \/ \E r \in TgRows : touchDown("row", r, 0, 0)
    \/ touchDown("bottom-nav", "", 0, 0) \/ (\E p, i \in 0..1 : touchDown("slide-over", "", p, i))
    \/ (\E a \in {"h", "v"} : chooseAxis(a)) \/ (\E f \in BOOLEAN : touchMove(f))
    \/ (\E far \in BOOLEAN, d \in {-1, 1} : touchUp(far, d)) \/ touchCancel
    \/ (\E t \in BOOLEAN : onClickAction(t)) \/ slideOpens \/ routeWithoutTab

\* Whichever way a touch ends, lifted, cancelled, taken over by the browser or
\* given up for the other axis, no row and no panel stays pushed aside.
NothingPushedAside == tgCtx = "" => tgMoved = {}
\* A finger that starts in a panel whose text was scrolled only scrolls it: the
\* panel is never dismissed by that touch (the scroll discriminator).
ScrollIsNoDismiss == [][(tgSlide /\ ~tgSlide') => tgSeen = <<0, 0>>]_touchVars
\* Swiping the bar ends at its first and last tab and never starts from a page
\* that has no tab.
SwipeStaysOnTabs == tgTab \in 0..Len(TgTabs)

(* --- hints --- *)

VARIABLES ghSeen,       \* dismissed, in localStorage
          ghShown,      \* _shown: hint -> number of its element, 0 for none
          ghDom,        \* elements in the document: <<hint, number>>
          ghTimers,     \* timers of elements: <<hint, number, "fade" | "drop">>
          ghPending,    \* _scheduledTimer
          ghRoute, ghNarrow, \* the route; the window is at most 768 pixels wide
          ghMade        \* elements made

hintVars == <<ghSeen, ghShown, ghDom, ghTimers, ghPending, ghRoute, ghNarrow, ghMade>>

HintIds == {"row-swipe", "tab-swipe", "edge-drawer", "pull-refresh"}
HintInit ==
    /\ ghSeen = {} /\ ghShown = [h \in HintIds |-> 0] /\ ghDom = {} /\ ghTimers = {} /\ ghPending = TRUE
    /\ ghRoute \in HintRoutes /\ ghNarrow \in BOOLEAN /\ ghMade = 0

\* On a device with touch, and never on the live page. The bar and the drawer
\* are always in the document; nothing there pulls to refresh.
relevant(h, route) ==
    /\ route # "live"
    /\ h = "row-swipe" => route \in {"packets", "nodes", "channels", "observers"}
    /\ h = "edge-drawer" => ghNarrow
    /\ h # "pull-refresh"
Eligible == {h \in HintIds \ ghSeen : relevant(h, ghRoute) /\ ghShown[h] = 0}
showSeen ==
    LET new == {<<h, ghMade + 1>> : h \in {g \in HintIds : relevant(g, ghRoute) /\ ghShown[g] = 0}} IN
    /\ ghPending /\ ghMade < MaxHints /\ ghPending' = FALSE /\ ghMade' = ghMade + 1
    /\ ghShown' = [h \in HintIds |-> IF h \in {g \in HintIds : relevant(g, ghRoute) /\ ghShown[g] = 0} THEN ghMade + 1 ELSE ghShown[h]]
    /\ ghDom' = ghDom \union new /\ ghTimers' = ghTimers \union {<<n[1], n[2], "fade">> : n \in new}
    /\ UNCHANGED <<ghSeen, ghRoute, ghNarrow>>
\* show, for every hint that is not seen.
showHints ==
    LET new == {<<h, ghMade + 1>> : h \in Eligible} IN
    /\ ghPending /\ ghMade < MaxHints /\ ghPending' = FALSE /\ ghMade' = ghMade + 1
    /\ ghShown' = [h \in HintIds |-> IF h \in Eligible THEN ghMade + 1 ELSE ghShown[h]]
    /\ ghDom' = ghDom \union new /\ ghTimers' = ghTimers \union {<<n[1], n[2], "fade">> : n \in new}
    /\ UNCHANGED <<ghSeen, ghRoute, ghNarrow>>
fadeHint(t) ==
    /\ t[3] = "fade"
    /\ ghTimers' = (ghTimers \ {t}) \union (IF ghShown[t[1]] = t[2] THEN {<<t[1], t[2], "drop">>} ELSE {})
    /\ UNCHANGED <<ghSeen, ghShown, ghDom, ghPending, ghRoute, ghNarrow, ghMade>>
dropAny(t) == [ghShown EXCEPT ![t[1]] = 0]
\* Only the element this timer belongs to.
dropped(t) == IF ghShown[t[1]] = t[2] THEN [ghShown EXCEPT ![t[1]] = 0] ELSE ghShown
dropHint(t) ==
    /\ t[3] = "drop" /\ ghTimers' = ghTimers \ {t} /\ ghDom' = ghDom \ {<<t[1], t[2]>>} /\ ghShown' = dropped(t)
    /\ UNCHANGED <<ghSeen, ghPending, ghRoute, ghNarrow, ghMade>>
\* Removed with their fade timers; a fade that has begun goes on.
Removed(hs) ==
    /\ ghDom' = {e \in ghDom : ~(e[1] \in hs /\ ghShown[e[1]] = e[2])}
    /\ ghTimers' = {t \in ghTimers : ~(t[1] \in hs /\ t[3] = "fade" /\ ghShown[t[1]] = t[2])}
    /\ ghShown' = [h \in HintIds |-> IF h \in hs THEN 0 ELSE ghShown[h]]
dismissForgets(h) == Removed({h}) /\ ghShown[h] # 0 /\ UNCHANGED <<ghSeen, ghPending, ghRoute, ghNarrow, ghMade>>
dismissHint(h) == Removed({h}) /\ ghShown[h] # 0 /\ ghSeen' = ghSeen \union {h} /\ UNCHANGED <<ghPending, ghRoute, ghNarrow, ghMade>>
onRouteChange(route) ==
    /\ route # ghRoute /\ ghRoute' = route /\ Removed({h \in HintIds : ~relevant(h, route)}) /\ ghPending' = TRUE /\ UNCHANGED <<ghSeen, ghNarrow, ghMade>>
\* Nothing listens to the width.
hintResize == ghNarrow' = ~ghNarrow /\ UNCHANGED <<ghSeen, ghShown, ghDom, ghTimers, ghPending, ghRoute, ghMade>>
\* The customizer's button.
resetHints == Removed(HintIds) /\ ghSeen # {} /\ ghSeen' = {} /\ UNCHANGED <<ghPending, ghRoute, ghNarrow, ghMade>>

HintNext ==
    \/ showHints \/ resetHints \/ (\E t \in ghTimers : fadeHint(t) \/ dropHint(t)) \/ (\E h \in HintIds : dismissHint(h))
    \/ hintResize \/ \E r \in HintRoutes : onRouteChange(r)

\* The document holds one element for each hint that counts as shown and no
\* other, however timers of older elements of the same hint run out.
OneElementPerHint == ghDom = {<<h, ghShown[h]>> : h \in {g \in HintIds : ghShown[g] # 0}}
\* A hint once dismissed does not come back until the hints are reset.
DismissedStaysAway == \A h \in ghSeen : ghShown[h] = 0

(* Menus, draggable panels, gestures and hints show the state they are in,
   whatever order touches, resizes and routes come in. *)
WidgetsConsistent ==
    /\ LitTabIsRoute
    /\ DrawerRests
    /\ CornersDistinct
    /\ FreeIsStored
    /\ NothingPushedAside
    /\ SwipeStaysOnTabs
    /\ OneElementPerHint
    /\ DismissedStaysAway
==============================================================================
