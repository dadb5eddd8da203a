---------------------------- MODULE Shell_proof ----------------------------
(***************************************************************************)
(* The browser shell: what its menus, panels, hints and caches show is the *)
(* state they are in.                                                      *)
(***************************************************************************)
EXTENDS MCShell, FiniteSetTheorems, SequenceTheorems, TLAPS

------------------------------------------------------------------------------
(* The menus: drawer, bar, sheet. *)

MenuSpec == MenuInit /\ [][MenuNext]_menuVars

\* Where the focus goes back to is where it came from.
MenuInv ==
    /\ drOpen \in BOOLEAN /\ drDrag \in BOOLEAN /\ drShift \in BOOLEAN /\ nvTouched \in BOOLEAN
    /\ mnHere \subseteq MnEls
    /\ LitTabIsRoute
    /\ DrawerRests
    /\ drOpen => drPrev = IF drFrom # "body" THEN drFrom ELSE ""

LEMMA MenuInitHolds == MenuInit => MenuInv
<1>. SUFFICES ASSUME MenuInit PROVE MenuInv
  OBVIOUS
<1>. QED  BY Zenon DEF MenuInit, MenuInv, LitTabIsRoute, DrawerRests

\* closeDrawer leaves the drawer at rest and the focus out of it.
LEMMA CloseDrawer ==
  ASSUME MenuInv, closeDrawer
  PROVE  drOpen' = FALSE /\ drFocus' # "drawer"
<1>1. drOpen' = FALSE
  BY DEF closeDrawer
<1>2. CASE drOpen /\ drPrev \in mnHere
  <2>1. drFocus' = drPrev /\ drPrev \in MnEls
    BY <1>2 DEF closeDrawer, MenuInv
  <2>. QED  BY <1>1, <2>1, MenusAssumption
<1>3. CASE ~(drOpen /\ drPrev \in mnHere)
  BY <1>1, <1>3 DEF closeDrawer
<1>. QED  BY <1>2, <1>3

LEMMA MenuStep ==
  ASSUME MenuInv, [MenuNext]_menuVars
  PROVE  MenuInv'
<1>. USE DEF MenuInv, LitTabIsRoute, DrawerRests, drawVars, barVars, isWide
<1>1. CASE drawerPointerDown
  BY <1>1 DEF drawerPointerDown, Use
<1>2. CASE drawerPointerMove
  BY <1>2 DEF drawerPointerMove, abandon
<1>3. ASSUME NEW far \in BOOLEAN, drawerPointerUp(far)
      PROVE  MenuInv'
  <2>0. /\ drDrag' = FALSE /\ drShift' = FALSE
        /\ UNCHANGED <<mnWidth, mnRoute, mnHere, nvLit, nvTouched>>
    BY <1>3 DEF drawerPointerUp
  <2>1. CASE drOpen = far
    <3>1. closeDrawer
      BY <1>3, <2>1 DEF drawerPointerUp
    <3>2. drOpen' = FALSE /\ drFocus' # "drawer"
      BY <3>1, CloseDrawer
    <3>. QED  BY <2>0, <3>2
  <2>2. CASE drOpen # far
    <3>1. openDrawer
      BY <1>3, <2>2 DEF drawerPointerUp
    <3>. QED  BY <2>0, <3>1 DEF openDrawer
  <2>. QED  BY <2>1, <2>2
<1>4. CASE dismissDrawer
  <2>1. closeDrawer /\ drShift' = FALSE /\ UNCHANGED <<mnWidth, mnRoute, drDrag, mnHere, nvLit, nvTouched>>
    BY <1>4 DEF dismissDrawer
  <2>2. drOpen' = FALSE /\ drFocus' # "drawer"
    BY <2>1, CloseDrawer
  <2>. QED  BY <2>1, <2>2
<1>5. ASSUME NEW e \in MnEls, focusElement(e)
      PROVE  MenuInv'
  <2>1. e # "drawer"
    BY MenusAssumption
  <2>. QED  BY <1>5, <2>1 DEF focusElement
<1>6. ASSUME NEW e \in MnEls, elementGoes(e)
      PROVE  MenuInv'
  BY <1>6 DEF elementGoes
<1>7. ASSUME NEW w \in {"phone", "tablet", "wide"}, resizeTo(w)
      PROVE  MenuInv'
  <2>0. mnWidth' = w /\ UNCHANGED <<mnRoute, drDrag, mnHere, nvLit, nvTouched>>
    BY <1>7 DEF resizeTo
  <2>1. CASE w = "wide"
    <3>1. UNCHANGED <<drOpen, drShift, drFocus, drPrev, drFrom>>
      BY <1>7, <2>1, Zenon DEF resizeTo
    <3>. QED  BY <2>0, <2>1, <3>1
  <2>2. CASE w # "wide"
    <3>1. closeDrawer /\ drShift' = FALSE
      BY <1>7, <2>2 DEF resizeTo
    <3>2. drOpen' = FALSE /\ drFocus' # "drawer"
      BY <3>1, CloseDrawer
    <3>. QED  BY <2>0, <3>1, <3>2
  <2>. QED  BY <2>1, <2>2
<1>8. CASE toggleSheet
  <2>1. nvTouched' = TRUE /\ UNCHANGED <<mnWidth, mnRoute, drOpen, drDrag, drShift, drFocus, drPrev, drFrom, mnHere>>
    BY <1>8 DEF toggleSheet
  <2>. QED  BY <2>1
<1>9. CASE dismissSheet
  <2>1. nvTouched' = TRUE /\ UNCHANGED <<mnWidth, mnRoute, drOpen, drDrag, drShift, drFocus, drPrev, drFrom, mnHere>>
    BY <1>9 DEF dismissSheet
  <2>. QED  BY <2>1
<1>10. CASE mirroredFavourites
  BY <1>10 DEF mirroredFavourites
<1>11. CASE addMissingMoreSheetItems
  BY <1>11 DEF addMissingMoreSheetItems
<1>12. CASE openDetail
  BY <1>12 DEF openDetail
<1>13. ASSUME NEW r \in MnRoutes, hashchange(r)
       PROVE  MenuInv'
  <2>0. /\ mnRoute' = r /\ nvTouched' = FALSE /\ nvLit' = syncActive(r)
        /\ mnHere' \in {mnHere, {}} /\ UNCHANGED <<mnWidth, drDrag>>
    BY <1>13 DEF hashchange, hashListeners
  <2>1. CASE drOpen
    <3>1. closeDrawer /\ drShift' = FALSE
      BY <1>13, <2>1 DEF hashchange
    <3>2. drOpen' = FALSE /\ drFocus' # "drawer"
      BY <3>1, CloseDrawer
    <3>. QED  BY <2>0, <3>1, <3>2 DEF syncActive
  <2>2. CASE ~drOpen
    <3>1. UNCHANGED <<drOpen, drShift, drPrev, drFrom>> /\ drFocus' = IF drFocus \in mnHere' THEN drFocus ELSE "body"
      BY <1>13, <2>2 DEF hashchange
    <3>. QED  BY <2>0, <2>2, <3>1 DEF syncActive
  <2>. QED  BY <2>1, <2>2
<1>14. CASE UNCHANGED menuVars
  BY <1>14 DEF menuVars
<1>. QED  BY <1>1, <1>2, <1>3, <1>4, <1>5, <1>6, <1>7, <1>8, <1>9, <1>10, <1>11, <1>12, <1>13, <1>14 DEF MenuNext

\* The lit tab is the route's and the drawer is at rest where its class says
\* (nav-drawer.js, bottom-nav.js).
THEOREM MenuThm == MenuSpec => [](LitTabIsRoute /\ DrawerRests)
<1>1. MenuInv => LitTabIsRoute /\ DrawerRests
  BY DEF MenuInv
<1>. QED  BY MenuInitHolds, MenuStep, <1>1, PTL DEF MenuSpec

FocusStep == (drOpen /\ ~drOpen' /\ drFrom \in mnHere /\ drFrom # "body") => drFocus' = drFrom

\* Closing the drawer gives the focus back to where it was (prevFocus of
\* nav-drawer.js).
THEOREM FocusReturnsThm == MenuSpec => FocusReturns
<1>1. ASSUME MenuInv, [MenuNext]_menuVars
      PROVE  [FocusStep]_menuVars
  <2>1. SUFFICES ASSUME drOpen, ~drOpen', drFrom \in mnHere, drFrom # "body", MenuNext
                 PROVE  drFocus' = drFrom
    BY <1>1 DEF FocusStep
  <2>2. drPrev = drFrom
    BY <1>1, <2>1 DEF MenuInv
  <2>3. closeDrawer
    BY <2>1, Zenon DEF MenuNext, drawerPointerDown, drawerPointerMove, drawerPointerUp, dismissDrawer, focusElement, elementGoes,
       resizeTo, toggleSheet, dismissSheet, mirroredFavourites, addMissingMoreSheetItems, openDetail, hashchange, drawVars, openDrawer
  <2>. QED  BY <2>1, <2>2, <2>3 DEF closeDrawer
<1>. QED  BY <1>1, MenuInitHolds, MenuStep, PTL DEF MenuSpec, FocusReturns, FocusStep

------------------------------------------------------------------------------
(* The panels of the live page. *)

PanelSpec == PanelInit /\ [][PanelNext]_panelVars

Corners == {"tl", "tr", "br", "bl"}
Apart(all) == \A p, q \in Panels : p # q => all[p] # all[q]

\* The cycle has every corner, and the third after the next one is the first.
LEMMA CycleOfFour ==
  /\ \A c \in Corners : IndexOf(c) \in 0..3 /\ CORNER_CYCLE[IndexOf(c) + 1] = c
  /\ \A i \in 0..3 : CORNER_CYCLE[i + 1] \in Corners /\ IndexOf(CORNER_CYCLE[i + 1]) = i
<1>1. CORNER_CYCLE[1] = "tl" /\ CORNER_CYCLE[2] = "tr" /\ CORNER_CYCLE[3] = "br" /\ CORNER_CYCLE[4] = "bl"
  BY DEF CORNER_CYCLE
<1>2. \A i \in 0..3 : i = 0 \/ i = 1 \/ i = 2 \/ i = 3
  OBVIOUS
<1>3. ASSUME NEW i \in 0..3
      PROVE  CORNER_CYCLE[i + 1] \in Corners /\ IndexOf(CORNER_CYCLE[i + 1]) = i
  <2>1. CORNER_CYCLE[i + 1] \in Corners
    BY <1>1, <1>2 DEF Corners
  <2>2. \A j \in 0..3 : CORNER_CYCLE[j + 1] = CORNER_CYCLE[i + 1] => j = i
    BY <1>1, <1>2
  <2>. QED  BY <2>1, <2>2 DEF IndexOf
<1>4. ASSUME NEW c \in Corners
      PROVE  IndexOf(c) \in 0..3 /\ CORNER_CYCLE[IndexOf(c) + 1] = c
  <2>1. \E i \in 0..3 : CORNER_CYCLE[i + 1] = c
    BY <1>1 DEF Corners
  <2>. QED  BY <2>1 DEF IndexOf
<1>. QED  BY <1>3, <1>4

\* A corner nobody else has: when every other one is taken, its own.
LEMMA AvailableIsFree ==
  ASSUME NEW p \in Panels, NEW all \in [Panels -> Corners], Apart(all), NEW desired \in Corners
  PROVE  LET c == nextAvailableCorner(p, desired, all) IN c \in Corners /\ \A q \in Panels \ {p} : all[q] # c
<1>. DEFINE at(i) == CORNER_CYCLE[((IndexOf(desired) + i) % 4) + 1]
            free == {i \in 0..3 : \A q \in Panels \ {p} : all[q] # at(i)}
<1>1. PICK d \in 0..3 : IndexOf(desired) = d
  BY CycleOfFour
<1>2. PICK k \in 0..3 : IndexOf(all[p]) = k /\ CORNER_CYCLE[k + 1] = all[p]
  BY CycleOfFour
<1>3. PICK i \in 0..3 : (d + i) % 4 = k
  <2>1. k >= d => k - d \in 0..3 /\ (d + (k - d)) % 4 = k
    OBVIOUS
  <2>2. k < d => k - d + 4 \in 0..3 /\ (d + (k - d + 4)) % 4 = k
    OBVIOUS
  <2>. QED  BY <2>1, <2>2
<1>4. i \in free
  BY <1>1, <1>2, <1>3 DEF Apart
<1>5. \A S \in SUBSET (0..3) : S # {} => \E m \in S : \A j \in S : m <= j
  <2>. SUFFICES ASSUME NEW S \in SUBSET (0..3), S # {} PROVE \E m \in S : \A j \in S : m <= j
    OBVIOUS
  <2>1. CASE 0 \in S
    BY <2>1
  <2>2. CASE 0 \notin S /\ 1 \in S
    BY <2>2
  <2>3. CASE 0 \notin S /\ 1 \notin S /\ 2 \in S
    BY <2>3
  <2>4. CASE 0 \notin S /\ 1 \notin S /\ 2 \notin S
    <3>1. \A x \in S : x = 3
      BY <2>4
    <3>2. PICK x : x \in S
      BY Zenon
    <3>. QED  BY <3>1, <3>2
  <2>. QED  BY <2>1, <2>2, <2>3, <2>4
<1>. DEFINE m == CHOOSE x \in free : \A j \in free : x <= j
<1>6. m \in free
  <2>1. free \in SUBSET (0..3) /\ free # {}
    BY <1>4
  <2>2. \E x \in free : \A j \in free : x <= j
    BY <1>5, <2>1
  <2>. HIDE DEF free
  <2>. QED  BY <2>2
<1>7. nextAvailableCorner(p, desired, all) = at(m)
  <2>1. free # {}
    BY <1>4
  <2>. HIDE DEF free, at
  <2>2. nextAvailableCorner(p, desired, all) = IF free = {} THEN desired ELSE at(CHOOSE x \in free : \A j \in free : x <= j)
    BY DEF nextAvailableCorner, free, at
  <2>. QED  BY <2>1, <2>2
<1>8. at(m) \in Corners
  <2>1. \A x \in free : (d + x) % 4 \in 0..3
    OBVIOUS
  <2>2. \A x \in free : at(x) \in Corners
    BY <1>1, <2>1, CycleOfFour
  <2>. HIDE DEF free, m, at
  <2>. QED  BY <1>6, <2>2
<1>9. \A q \in Panels \ {p} : all[q] # at(m)
  <2>1. \A x \in free : \A q \in Panels \ {p} : all[q] # at(x)
    OBVIOUS
  <2>. HIDE DEF free, m, at
  <2>. QED  BY <1>6, <2>1
<1>. HIDE DEF at, free, m
<1>. QED  BY <1>7, <1>8, <1>9

CornerMap == [Panels -> Corners \union {""}]

LEMMA PositionsTyped ==
  ASSUME NEW corner \in CornerMap
  PROVE  getPanelPositions(corner) \in [Panels -> Corners]
BY PanelAssumption DEF getPanelPositions, CornerMap, Corners

LEMMA AdvanceKeepsApart ==
  ASSUME NEW corner \in CornerMap, NEW p \in Panels, Apart(getPanelPositions(corner))
  PROVE  advance(p, corner) \in CornerMap /\ Apart(getPanelPositions(advance(p, corner)))
<1>. DEFINE all == getPanelPositions(corner)
            nxt == CORNER_CYCLE[((IndexOf(all[p]) + 1) % 4) + 1]
            c == nextAvailableCorner(p, nxt, all)
<1>1. all \in [Panels -> Corners]
  BY PositionsTyped
<1>2. nxt \in Corners
  <2>1. all[p] \in Corners
    BY <1>1
  <2>2. (IndexOf(all[p]) + 1) % 4 \in 0..3
    BY <2>1, CycleOfFour
  <2>. QED  BY <2>2, CycleOfFour
<1>3. c \in Corners /\ \A q \in Panels \ {p} : all[q] # c
  <2>. HIDE DEF nxt, all
  <2>. QED  BY <1>1, <1>2, AvailableIsFree DEF all
<1>4. advance(p, corner) = [corner EXCEPT ![p] = c]
  BY DEF advance
<1>. HIDE DEF c, nxt
<1>5. advance(p, corner) \in CornerMap
  BY <1>3, <1>4 DEF CornerMap
<1>6. getPanelPositions(advance(p, corner)) = [all EXCEPT ![p] = c]
  <2>1. c # ""
    BY <1>3 DEF Corners
  <2>. QED  BY <1>4, <2>1 DEF getPanelPositions, CornerMap
<1>. HIDE DEF all
<1>7. Apart([all EXCEPT ![p] = c])
  BY <1>1, <1>3 DEF Apart, all
<1>. QED  BY <1>5, <1>6, <1>7

\* Free panels while something is being dragged, and while nothing may be.
PanelInv ==
    /\ pnState \in {"IDLE", "PENDING", "DRAGGING"}
    /\ pnCorner \in CornerMap /\ pnPos \in CornerMap /\ pnEnabled \in BOOLEAN
    /\ pnStored \subseteq Panels
    /\ Apart(getPanelPositions(pnCorner))
    /\ pnState # "IDLE" => pnActive \in Panels /\ pnEnabled
    /\ pnClass = IF pnState = "DRAGGING" THEN {pnActive} ELSE {}
    /\ pnEnabled => pnDragged = IF pnState = "DRAGGING" THEN pnStored \union {pnActive} ELSE pnStored
    /\ ~pnEnabled => pnDragged \subseteq pnStored
    /\ pnEnabled => \A p \in pnDragged : pnPos[p] = ""

LEMMA PanelInitHolds == PanelInit => PanelInv
<1>. SUFFICES ASSUME PanelInit PROVE PanelInv
  OBVIOUS
<1>1. pnCorner \in CornerMap /\ pnPos \in CornerMap
  BY PanelAssumption DEF PanelInit, CornerMap, Corners
<1>2. getPanelPositions(pnCorner) = PnDefaults
  BY PanelAssumption DEF PanelInit, getPanelPositions
<1>3. Apart(PnDefaults)
  BY PanelAssumption DEF Apart
<1>4. \A p \in pnDragged : pnPos[p] = ""
  BY DEF PanelInit
<1>. QED  BY <1>1, <1>2, <1>3, <1>4 DEF PanelInit, PanelInv

LEMMA PanelStep ==
  ASSUME PanelInv, [PanelNext]_panelVars
  PROVE  PanelInv'
<1>1. ASSUME NEW p \in Panels, panelDown(p)
      PROVE  PanelInv'
  BY <1>1 DEF panelDown, PanelInv, PanelUse
<1>2. ASSUME NEW p \in Panels, onCornerClick(p)
      PROVE  PanelInv'
  <2>. DEFINE once == advance(p, pnCorner)
              corner == IF pnWired = 1 THEN once ELSE advance(p, once)
  <2>1. once \in CornerMap /\ Apart(getPanelPositions(once))
    BY AdvanceKeepsApart DEF PanelInv
  <2>. HIDE DEF once
  <2>2. advance(p, once) \in CornerMap /\ Apart(getPanelPositions(advance(p, once)))
    BY <2>1, AdvanceKeepsApart
  <2>3. corner \in CornerMap /\ Apart(getPanelPositions(corner))
    BY <2>1, <2>2
  <2>. HIDE DEF corner
  <2>4. /\ pnState = "IDLE" /\ pnCorner' = corner
        /\ pnDragged' = pnDragged \ {p} /\ pnStored' = pnStored \ {p} /\ pnClass' = pnClass \ {p}
        /\ pnPos' = [pnPos EXCEPT ![p] = corner[p]] /\ UNCHANGED <<pnState, pnActive, pnEnabled>>
    BY <1>2, Zenon DEF onCornerClick, once, corner
  <2>5. pnPos' \in CornerMap
    BY <2>3, <2>4 DEF PanelInv, CornerMap
  <2>6. pnEnabled' => \A q \in pnDragged' : pnPos'[q] = ""
    BY <2>4 DEF PanelInv, CornerMap
  <2>. QED  BY <2>3, <2>4, <2>5, <2>6 DEF PanelInv
<1>3. CASE panelMove
  <2>1. pnPos' \in CornerMap
    BY <1>3 DEF PanelInv, panelMove, CornerMap
  <2>2. \A q \in pnDragged' : pnPos'[q] = ""
    BY <1>3 DEF PanelInv, panelMove, CornerMap
  <2>. QED  BY <1>3, <2>1, <2>2 DEF PanelInv, panelMove
<1>4. CASE panelUp
  BY <1>4 DEF PanelInv, panelUp, _reset
<1>5. CASE _handleKeyDown
  <2>0. /\ pnState = "DRAGGING" /\ pnState' = "IDLE" /\ pnClass' = pnClass \ {pnActive}
        /\ UNCHANGED <<pnStored, pnCorner, pnEnabled>>
    BY <1>5 DEF _handleKeyDown, _reset
  <2>1. CASE pnActive \in pnStored
    BY <1>5, <2>0, <2>1 DEF PanelInv, _handleKeyDown
  <2>2. CASE pnActive \notin pnStored
    <3>1. pnDragged' = pnDragged \ {pnActive} /\ pnPos' = [pnPos EXCEPT ![pnActive] = pnCorner[pnActive]]
      BY <1>5, <2>2 DEF _handleKeyDown
    <3>2. pnPos' \in CornerMap
      BY <2>0, <3>1 DEF PanelInv, CornerMap
    <3>3. pnEnabled' => \A q \in pnDragged' : pnPos'[q] = ""
      BY <2>0, <3>1 DEF PanelInv, CornerMap
    <3>. QED  BY <2>0, <2>2, <3>1, <3>2, <3>3 DEF PanelInv
  <2>. QED  BY <2>1, <2>2
<1>6. CASE onDragMediaChange
  <2>0. pnEnabled' = ~pnEnabled /\ UNCHANGED <<pnStored, pnCorner>>
    BY <1>6 DEF onDragMediaChange
  <2>1. CASE pnEnabled
    <3>1. pnDragged' = {} /\ pnClass' = {} /\ pnPos' = getPanelPositions(pnCorner) /\ pnState' = "IDLE"
      BY <1>6, <2>1 DEF onDragMediaChange, _reset
    <3>2. pnPos' \in CornerMap
      BY <3>1, PositionsTyped DEF PanelInv, CornerMap
    <3>. QED  BY <2>0, <2>1, <3>1, <3>2 DEF PanelInv
  <2>2. CASE ~pnEnabled
    <3>1. /\ pnDragged' = pnDragged \union pnStored /\ pnPos' = [p \in Panels |-> IF p \in pnStored THEN "" ELSE pnPos[p]]
          /\ UNCHANGED <<pnClass, pnState, pnActive>>
      BY <1>6, <2>2 DEF onDragMediaChange
    <3>2. pnPos' \in CornerMap
      BY <3>1 DEF PanelInv, CornerMap
    <3>3. pnDragged' = pnStored /\ \A q \in pnDragged' : pnPos'[q] = ""
      BY <2>2, <3>1 DEF PanelInv
    <3>. QED  BY <2>0, <2>2, <3>1, <3>2, <3>3 DEF PanelInv
  <2>. QED  BY <2>1, <2>2 DEF PanelInv
<1>7. CASE UNCHANGED panelVars
  BY <1>7 DEF panelVars, PanelInv
<1>. QED  BY <1>1, <1>2, <1>3, <1>4, <1>5, <1>6, <1>7 DEF PanelNext

\* No two panels share a corner and, in a wide window, the free panels are the
\* stored ones (live.js nextAvailableCorner, drag-manager.js).
THEOREM PanelThm == PanelSpec => [](CornersDistinct /\ FreeIsStored)
<1>1. PanelInv => CornersDistinct /\ FreeIsStored
  BY DEF PanelInv, CornersDistinct, FreeIsStored, Apart
<1>. QED  BY PanelInitHolds, PanelStep, <1>1, PTL DEF PanelSpec

------------------------------------------------------------------------------
(* Touches. *)

TouchSpec == TouchInit /\ [][TouchNext]_touchVars

\* Between touches nothing is moved; during one only its row and the panel,
\* and only once the axis is known.
TouchInv ==
    /\ tgSlide \in BOOLEAN
    /\ tgCtx \in {"", "row", "bottom-nav", "slide-over"} /\ tgAxis \in {"", "h", "v"}
    /\ tgMoved \subseteq {tgRow, "panel"}
    /\ tgAxis = "" => tgMoved = {}
    /\ tgCtx = "" => tgAxis = ""
    /\ tgTab \in 0..Len(TgTabs)
    /\ tgSeen \in (0..1) \X (0..1)
    /\ tgCtx = "slide-over" => tgTop = startScroll(tgSeen[1], tgSeen[2])

LEMMA TabsCounted == 0 \in 0..Len(TgTabs) /\ 1 \in 0..Len(TgTabs) /\ 1..Len(TgTabs) \subseteq 0..Len(TgTabs)
<1>1. \A n \in Nat \ {0} : 0 \in 0..n /\ 1 \in 0..n /\ 1..n \subseteq 0..n
  OBVIOUS
<1>2. Len(TgTabs) \in Nat \ {0}
  BY GestureAssumption, Zenon
<1>. QED  BY <1>1, <1>2, Zenon

LEMMA TouchInitHolds == TouchInit => TouchInv
<1>. SUFFICES ASSUME TouchInit PROVE TouchInv
  OBVIOUS
<1>1. 1 \in 0..Len(TgTabs)
  BY TabsCounted, Zenon
<1>2. tgTab \in 0..Len(TgTabs)
  BY <1>1 DEF TouchInit
<1>3. tgSeen \in (0..1) \X (0..1)
  <2>1. <<0, 0>> \in (0..1) \X (0..1)
    OBVIOUS
  <2>. QED  BY <2>1, Zenon DEF TouchInit
<1>. QED  BY <1>2, <1>3, Zenon DEF TouchInit, TouchInv

LEMMA TouchDownStep ==
  ASSUME TouchInv, NEW ctx \in {"row", "bottom-nav", "slide-over"}, NEW row, NEW p \in 0..1, NEW i \in 0..1, touchDown(ctx, row, p, i)
  PROVE  TouchInv'
<1>1. /\ tgCtx' = ctx /\ tgAxis' = "" /\ tgSeen' = <<p, i>> /\ UNCHANGED <<tgMoved, tgSlide, tgTab>>
      /\ ctx = "slide-over" => tgTop' = startScroll(p, i)
  BY DEF touchDown
<1>2. tgMoved = {}
  BY DEF touchDown, TouchInv
<1>3. tgSeen'[1] = p /\ tgSeen'[2] = i /\ tgSeen' \in (0..1) \X (0..1)
  BY <1>1
<1>. QED  BY <1>1, <1>2, <1>3 DEF TouchInv

LEMMA TouchStep ==
  ASSUME TouchInv, [TouchNext]_touchVars
  PROVE  TouchInv'
<1>0. "row" \in {"row", "bottom-nav", "slide-over"} /\ 0 \in 0..1
  OBVIOUS
<1>1. ASSUME NEW r \in TgRows, touchDown("row", r, 0, 0)
      PROVE  TouchInv'
  BY <1>1, <1>0, TouchDownStep
<1>2. CASE touchDown("bottom-nav", "", 0, 0)
  <2>1. "bottom-nav" \in {"row", "bottom-nav", "slide-over"} /\ 0 \in 0..1
    OBVIOUS
  <2>. QED  BY <1>2, <2>1, TouchDownStep
<1>3. ASSUME NEW p \in 0..1, NEW i \in 0..1, touchDown("slide-over", "", p, i)
      PROVE  TouchInv'
  BY <1>3, TouchDownStep
<1>4. ASSUME NEW a \in {"h", "v"}, chooseAxis(a)
      PROVE  TouchInv'
  <2>0. tgAxis = "" /\ tgMoved = {} /\ UNCHANGED <<tgRow, tgSeen, tgMoved, tgSlide, tgTab>>
    BY <1>4 DEF chooseAxis, TouchInv
  <2>1. (tgAxis' = a /\ UNCHANGED <<tgCtx, tgTop>> /\ tgCtx # "") \/ (tgCtx' = "" /\ tgAxis' = "")
    BY <1>4 DEF chooseAxis, releasePointer
  <2>. QED  BY <2>0, <2>1 DEF TouchInv
<1>5. ASSUME NEW f \in BOOLEAN, touchMove(f)
      PROVE  TouchInv'
  <2>0. tgAxis # "" /\ UNCHANGED <<tgCtx, tgAxis, tgRow, tgTop, tgSeen, tgSlide, tgTab>>
    BY <1>5 DEF touchMove
  <2>1. tgMoved' \subseteq tgMoved \union {tgRow, "panel"}
    BY <1>5, Zenon DEF touchMove
  <2>. QED  BY <2>0, <2>1 DEF TouchInv
<1>6. ASSUME NEW far \in BOOLEAN, NEW d \in {-1, 1}, touchUp(far, d)
      PROVE  TouchInv'
  <2>0. tgCtx' = "" /\ tgAxis' = "" /\ tgSeen' = tgSeen
    BY <1>6 DEF touchUp, releasePointer
  <2>1. tgMoved' = {}
    BY <1>6 DEF touchUp, TouchInv
  <2>2. tgTab' \in 0..Len(TgTabs)
    <3>1. 1..Len(TgTabs) \subseteq 0..Len(TgTabs)
      BY TabsCounted, Zenon
    <3>2. tgTab' = tgTab \/ tgTab' = navigateRelative(tgTab, d)
      BY <1>6 DEF touchUp
    <3>3. navigateRelative(tgTab, d) = tgTab \/ navigateRelative(tgTab, d) \in 1..Len(TgTabs)
      BY Zenon DEF navigateRelative
    <3>. QED  BY <3>1, <3>2, <3>3 DEF TouchInv
  <2>3. tgSlide' \in BOOLEAN
    BY <1>6 DEF touchUp
  <2>. QED  BY <2>0, <2>1, <2>2, <2>3 DEF TouchInv
<1>7. CASE touchCancel
  <2>1. tgCtx' = "" /\ tgAxis' = "" /\ tgMoved' = {} /\ UNCHANGED <<tgSeen, tgSlide, tgTab>>
    BY <1>7 DEF touchCancel, touchLost, releasePointer, TouchInv
  <2>. QED  BY <2>1 DEF TouchInv
<1>8. ASSUME NEW t \in BOOLEAN, onClickAction(t)
      PROVE  TouchInv'
  <2>0. UNCHANGED <<tgCtx, tgAxis, tgTop, tgSeen, tgSlide>> /\ tgMoved' = tgMoved \ {tgRow} /\ (tgTab' = 1 \/ tgTab' = tgTab)
    BY <1>8 DEF onClickAction
  <2>1. 1 \in 0..Len(TgTabs)
    BY TabsCounted, Zenon
  <2>2. tgTab' \in 0..Len(TgTabs)
    BY <2>0, <2>1 DEF TouchInv
  <2>3. tgMoved' \subseteq {tgRow', "panel"} /\ (tgAxis = "" => tgMoved' = {})
    BY <2>0 DEF TouchInv
  <2>. QED  BY <2>0, <2>2, <2>3 DEF TouchInv
<1>9. CASE slideOpens
  BY <1>9 DEF slideOpens, TouchInv
<1>10. CASE routeWithoutTab
  <2>1. 0 \in 0..Len(TgTabs)
    BY TabsCounted, Zenon
  <2>. QED  BY <1>10, <2>1 DEF routeWithoutTab, TouchInv
<1>11. CASE UNCHANGED touchVars
  BY <1>11 DEF touchVars, TouchInv
<1>. QED  BY <1>1, <1>2, <1>3, <1>4, <1>5, <1>6, <1>7, <1>8, <1>9, <1>10, <1>11 DEF TouchNext

\* No touch leaves a row or a panel pushed aside, and swiping the bar stays on
\* its tabs (touch-gestures.js).
THEOREM TouchThm == TouchSpec => [](NothingPushedAside /\ SwipeStaysOnTabs)
<1>1. TouchInv => NothingPushedAside /\ SwipeStaysOnTabs
  BY DEF TouchInv, NothingPushedAside, SwipeStaysOnTabs
<1>. QED  BY TouchInitHolds, TouchStep, <1>1, PTL DEF TouchSpec

SlideStep == (tgSlide /\ ~tgSlide') => tgSeen = <<0, 0>>

\* A touch that starts in a scrolled panel never dismisses it (the scroll
\* discriminator of touch-gestures.js).
THEOREM ScrollIsNoDismissThm == TouchSpec => ScrollIsNoDismiss
<1>1. ASSUME TouchInv, [TouchNext]_touchVars
      PROVE  [SlideStep]_touchVars
  <2>1. SUFFICES ASSUME tgSlide, ~tgSlide', TouchNext
                 PROVE  tgSeen = <<0, 0>>
    BY <1>1 DEF SlideStep
  <2>2. tgCtx = "slide-over" /\ tgTop = 0
    BY <1>1, <2>1, Zenon DEF TouchNext, touchDown, chooseAxis, touchMove, touchUp, touchCancel, touchLost, onClickAction, slideOpens, routeWithoutTab
  <2>3. PICK p \in 0..1, i \in 0..1 : tgSeen = <<p, i>>
    <3>1. tgSeen \in (0..1) \X (0..1)
      BY <1>1, Zenon DEF TouchInv
    <3>. QED  BY <3>1
  <2>4. startScroll(p, i) = 0
    BY <1>1, <2>2, <2>3 DEF TouchInv
  <2>5. p = 0 /\ i = 0
    BY <2>4 DEF startScroll
  <2>. QED  BY <2>3, <2>5
<1>. QED  BY <1>1, TouchInitHolds, TouchStep, PTL DEF TouchSpec, ScrollIsNoDismiss, SlideStep

------------------------------------------------------------------------------
(* Hints. *)

HintSpec == HintInit /\ [][HintNext]_hintVars

HintInv ==
    /\ ghShown \in [HintIds -> Nat] /\ ghMade \in Nat
    /\ ghSeen \subseteq HintIds
    /\ ghTimers \subseteq HintIds \X Nat \X {"fade", "drop"}
    /\ OneElementPerHint
    /\ DismissedStaysAway

LEMMA HintInitHolds == HintInit => HintInv
BY DEF HintInit, HintInv, OneElementPerHint, DismissedStaysAway

\* Taking hints out of the document.
LEMMA RemovedKeeps ==
  ASSUME HintInv, NEW hs \in SUBSET HintIds, Removed(hs)
  PROVE  /\ ghShown' \in [HintIds -> Nat]
         /\ ghTimers' \subseteq HintIds \X Nat \X {"fade", "drop"}
         /\ OneElementPerHint'
         /\ \A h \in HintIds : ghShown'[h] = IF h \in hs THEN 0 ELSE ghShown[h]
<1>1. /\ ghDom' = {e \in ghDom : ~(e[1] \in hs /\ ghShown[e[1]] = e[2])}
      /\ ghTimers' \subseteq ghTimers
      /\ ghShown' = [h \in HintIds |-> IF h \in hs THEN 0 ELSE ghShown[h]]
  BY DEF Removed
<1>2. ghShown' \in [HintIds -> Nat]
  BY <1>1 DEF HintInv
<1>3. \A h \in HintIds : ghShown'[h] = IF h \in hs THEN 0 ELSE ghShown[h]
  BY <1>1
<1>4. ghDom' = {<<h, ghShown'[h]>> : h \in {g \in HintIds : ghShown'[g] # 0}}
  <2>1. ASSUME NEW e \in ghDom'
        PROVE  e \in {<<h, ghShown'[h]>> : h \in {g \in HintIds : ghShown'[g] # 0}}
    <3>1. PICK h \in HintIds : ghShown[h] # 0 /\ e = <<h, ghShown[h]>>
      BY <1>1, <2>1 DEF HintInv, OneElementPerHint
    <3>2. h \notin hs
      BY <1>1, <2>1, <3>1
    <3>. QED  BY <1>3, <3>1, <3>2
  <2>2. ASSUME NEW h \in HintIds, ghShown'[h] # 0
        PROVE  <<h, ghShown'[h]>> \in ghDom'
    <3>1. h \notin hs /\ ghShown'[h] = ghShown[h]
      BY <1>3, <2>2
    <3>2. <<h, ghShown[h]>> \in ghDom
      BY <2>2, <3>1 DEF HintInv, OneElementPerHint
    <3>. QED  BY <1>1, <3>1, <3>2
  <2>. QED  BY <2>1, <2>2
<1>. QED  BY <1>1, <1>2, <1>3, <1>4 DEF HintInv, OneElementPerHint

LEMMA HintStep ==
  ASSUME HintInv, [HintNext]_hintVars
  PROVE  HintInv'
<1>1. CASE showHints
  <2>. DEFINE new == {<<h, ghMade + 1>> : h \in Eligible}
  <2>1. /\ ghMade' = ghMade + 1
        /\ ghShown' = [h \in HintIds |-> IF h \in Eligible THEN ghMade + 1 ELSE ghShown[h]]
        /\ ghDom' = ghDom \union new /\ ghTimers' = ghTimers \union {<<n[1], n[2], "fade">> : n \in new}
        /\ ghSeen' = ghSeen
    BY <1>1 DEF showHints
  <2>2. ghMade + 1 \in Nat /\ ghMade + 1 # 0
    BY DEF HintInv
  <2>3. ghShown' \in [HintIds -> Nat]
    BY <2>1, <2>2 DEF HintInv
  <2>4. {<<n[1], n[2], "fade">> : n \in new} \subseteq HintIds \X Nat \X {"fade", "drop"}
    BY <2>2 DEF Eligible
  <2>5. Eligible \subseteq HintIds /\ (\A h \in Eligible : ghShown[h] = 0) /\ Eligible \intersect ghSeen = {}
    BY DEF Eligible
  <2>6. ghDom' = {<<h, ghShown'[h]>> : h \in {g \in HintIds : ghShown'[g] # 0}}
    <3>1. ASSUME NEW e \in ghDom'
          PROVE  e \in {<<h, ghShown'[h]>> : h \in {g \in HintIds : ghShown'[g] # 0}}
      <4>1. CASE e \in ghDom
        <5>1. PICK h \in HintIds : ghShown[h] # 0 /\ e = <<h, ghShown[h]>>
          BY <4>1 DEF HintInv, OneElementPerHint
        <5>2. ghShown'[h] = ghShown[h]
          BY <2>1, <2>5, <5>1
        <5>. QED  BY <5>1, <5>2
      <4>2. CASE e \in new
        <5>1. PICK h \in Eligible : e = <<h, ghMade + 1>>
          BY <4>2
        <5>. QED  BY <2>1, <2>2, <2>5, <5>1
      <4>. QED  BY <2>1, <3>1, <4>1, <4>2
    <3>2. ASSUME NEW h \in HintIds, ghShown'[h] # 0
          PROVE  <<h, ghShown'[h]>> \in ghDom'
      <4>1. CASE h \in Eligible
        BY <2>1, <4>1
      <4>2. CASE h \notin Eligible
        <5>1. ghShown'[h] = ghShown[h]
          BY <2>1, <4>2
        <5>2. <<h, ghShown[h]>> \in ghDom
          BY <3>2, <5>1 DEF HintInv, OneElementPerHint
        <5>. QED  BY <2>1, <5>1, <5>2
      <4>. QED  BY <4>1, <4>2
    <3>. QED  BY <3>1, <3>2
  <2>7. \A h \in ghSeen' : ghShown'[h] = 0
    BY <2>1, <2>5 DEF HintInv, DismissedStaysAway
  <2>. HIDE DEF new
  <2>. QED  BY <2>1, <2>2, <2>3, <2>4, <2>6, <2>7 DEF HintInv, OneElementPerHint, DismissedStaysAway
<1>2. CASE resetHints
  <2>1. Removed(HintIds) /\ ghSeen' = {} /\ ghMade' = ghMade
    BY <1>2 DEF resetHints
  <2>. QED  BY <2>1, RemovedKeeps DEF HintInv, DismissedStaysAway
<1>3. ASSUME NEW t \in ghTimers, fadeHint(t)
      PROVE  HintInv'
  <2>1. PICK h \in HintIds, n \in Nat, k \in {"fade", "drop"} : t = <<h, n, k>>
    BY DEF HintInv
  <2>2. <<t[1], t[2], "drop">> \in HintIds \X Nat \X {"fade", "drop"}
    BY <2>1
  <2>3. ghTimers' \subseteq ghTimers \union {<<t[1], t[2], "drop">>}
    BY <1>3 DEF fadeHint
  <2>4. UNCHANGED <<ghSeen, ghShown, ghDom, ghMade>>
    BY <1>3 DEF fadeHint
  <2>. QED  BY <2>2, <2>3, <2>4 DEF HintInv, OneElementPerHint, DismissedStaysAway
<1>4. ASSUME NEW t \in ghTimers, dropHint(t)
      PROVE  HintInv'
  <2>1. PICK h \in HintIds, n \in Nat, k \in {"fade", "drop"} : t = <<h, n, k>>
    BY DEF HintInv
  <2>2. /\ ghTimers' = ghTimers \ {t} /\ ghDom' = ghDom \ {<<h, n>>} /\ UNCHANGED <<ghSeen, ghMade>>
        /\ ghShown' = IF ghShown[h] = n THEN [ghShown EXCEPT ![h] = 0] ELSE ghShown
    BY <1>4, <2>1 DEF dropHint, dropped
  <2>3. ghShown' \in [HintIds -> Nat] /\ \A g \in HintIds : ghShown'[g] = IF g = h /\ ghShown[h] = n THEN 0 ELSE ghShown[g]
    BY <2>2 DEF HintInv
  <2>4. ghDom' = {<<g, ghShown'[g]>> : g \in {f \in HintIds : ghShown'[f] # 0}}
    <3>1. ASSUME NEW e \in ghDom'
          PROVE  e \in {<<g, ghShown'[g]>> : g \in {f \in HintIds : ghShown'[f] # 0}}
      <4>1. e \in ghDom /\ e # <<h, n>>
        BY <2>2, <3>1
      <4>2. PICK g \in HintIds : ghShown[g] # 0 /\ e = <<g, ghShown[g]>>
        BY <4>1 DEF HintInv, OneElementPerHint
      <4>. QED  BY <2>3, <4>1, <4>2
    <3>2. ASSUME NEW g \in HintIds, ghShown'[g] # 0
          PROVE  <<g, ghShown'[g]>> \in ghDom'
      <4>1. ghShown'[g] = ghShown[g] /\ <<g, ghShown[g]>> # <<h, n>>
        BY <2>3, <3>2
      <4>2. <<g, ghShown[g]>> \in ghDom
        BY <3>2, <4>1 DEF HintInv, OneElementPerHint
      <4>. QED  BY <2>2, <4>1, <4>2
    <3>. QED  BY <3>1, <3>2
  <2>5. \A g \in ghSeen' : ghShown'[g] = 0
    BY <2>2, <2>3 DEF HintInv, DismissedStaysAway
  <2>. QED  BY <2>2, <2>3, <2>4, <2>5 DEF HintInv, OneElementPerHint, DismissedStaysAway
<1>5. ASSUME NEW h \in HintIds, dismissHint(h)
      PROVE  HintInv'
  <2>1. Removed({h}) /\ ghSeen' = ghSeen \union {h} /\ ghMade' = ghMade
    BY <1>5 DEF dismissHint
  <2>2. {h} \in SUBSET HintIds
    OBVIOUS
  <2>. QED  BY <2>1, <2>2, RemovedKeeps DEF HintInv, DismissedStaysAway
<1>6. CASE hintResize
  BY <1>6 DEF hintResize, HintInv, OneElementPerHint, DismissedStaysAway
<1>7. ASSUME NEW r \in HintRoutes, onRouteChange(r)
      PROVE  HintInv'
  <2>. DEFINE hs == {h \in HintIds : ~relevant(h, r)}
  <2>1. Removed(hs) /\ UNCHANGED <<ghSeen, ghMade>>
    BY <1>7 DEF onRouteChange
  <2>2. hs \in SUBSET HintIds
    OBVIOUS
  <2>. HIDE DEF hs
  <2>. QED  BY <2>1, <2>2, RemovedKeeps DEF HintInv, DismissedStaysAway
<1>8. CASE UNCHANGED hintVars
  BY <1>8 DEF hintVars, HintInv, OneElementPerHint, DismissedStaysAway
<1>. QED  BY <1>1, <1>2, <1>3, <1>4, <1>5, <1>6, <1>7, <1>8 DEF HintNext

\* One element for each hint that counts as shown, none for a dismissed one
\* (gesture-hints.js).
THEOREM HintThm == HintSpec => [](OneElementPerHint /\ DismissedStaysAway)
<1>1. HintInv => OneElementPerHint /\ DismissedStaysAway
  BY DEF HintInv
<1>. QED  BY HintInitHolds, HintStep, <1>1, PTL DEF HintSpec

WidgetsSpec == MenuSpec /\ PanelSpec /\ TouchSpec /\ HintSpec

\* Menus, draggable panels, gestures and hints show the state they are in,
\* side by side and for any panels, rows, tabs and routes.
THEOREM WidgetsConsistentThm == WidgetsSpec => []WidgetsConsistent
<1>1. (LitTabIsRoute /\ DrawerRests) /\ (CornersDistinct /\ FreeIsStored) /\ (NothingPushedAside /\ SwipeStaysOnTabs)
         /\ (OneElementPerHint /\ DismissedStaysAway) => WidgetsConsistent
  BY DEF WidgetsConsistent
<1>. QED  BY <1>1, MenuThm, PanelThm, TouchThm, HintThm, PTL DEF WidgetsSpec

------------------------------------------------------------------------------
(* Router and bar. *)

ShellSpec == ShellInit /\ [][ShellNext]_shellVars

LEMMA PlacesFinite ==
  /\ IsFiniteSet(Queued) /\ IsFiniteSet(Low) /\ Low \subseteq Queued
  /\ Queued \subseteq Int
  /\ Cardinality(Low) \in Nat
<1>1. DOMAIN Links = 1..Len(Links) /\ Len(Links) \in Nat
  BY AppShellAssumption
<1>2. IsFiniteSet(DOMAIN Links) /\ DOMAIN Links \subseteq Int
  BY <1>1, FS_Interval
<1>3. Queued \subseteq DOMAIN Links /\ Low \subseteq Queued
  BY DEF Queued, Low
<1>4. IsFiniteSet(Queued)
  BY <1>2, <1>3, FS_Subset
<1>5. IsFiniteSet(Low)
  BY <1>3, <1>4, FS_Subset
<1>. QED  BY <1>2, <1>3, <1>4, <1>5, FS_CardinalityType

\* A finite set of places has a last one.
LEMMA LastPlace ==
  ASSUME NEW S \in SUBSET Low, S # {}
  PROVE  \E i \in S : \A j \in S : j <= i
<1>. DEFINE Up == {n \in Nat : \A j \in S : j <= n}
            n == Len(Links)
<1>1. DOMAIN Links = 1..n /\ n \in Nat
  BY AppShellAssumption
<1>2. S \subseteq 1..n
  BY <1>1 DEF Low, Queued
<1>3. n \in Up
  BY <1>1, <1>2
<1>4. Up \in SUBSET Nat /\ Up # {}
  BY <1>3
<1>. HIDE DEF Up
<1>5. PICK m \in Up : \A k \in Up : m <= k
  BY <1>4, LeastNumber
<1>. USE DEF Up
<1>6. CASE m \in S
  BY <1>6
<1>7. CASE m \notin S
  <2>1. \A j \in S : j <= m - 1 /\ j >= 1
    BY <1>2, <1>7
  <2>2. PICK j \in S : TRUE
    BY Zenon
  <2>3. m - 1 \in Nat
    BY <1>2, <2>1, <2>2
  <2>4. m - 1 \in Up
    BY <2>1, <2>3
  <2>. QED  BY <1>5, <2>3, <2>4
<1>. QED  BY <1>6, <1>7

LowLinks == LinkSet \ (HighLinks \union ActiveLinks)

LEMMA LowLinksAre == LowLinks = {Links[i] : i \in Low}
BY AppShellAssumption DEF LowLinks, Low, Queued, LinkSet, ActiveLinks, ToSet

\* As long as one of them is left no link that must stay is reached.
LEMMA QueueStopsAtHigh ==
  ASSUME NEW n \in Nat, n <= Cardinality(Low)
  PROVE  buildOverflowQueue(n) \subseteq LowLinks
<1>. SUFFICES ASSUME NEW k \in Queued, Cardinality({j \in Queued : GoesBefore(j, k)}) < n
              PROVE  k \in Low
  BY LowLinksAre DEF buildOverflowQueue
<1>. SUFFICES ASSUME k \notin Low PROVE FALSE
  OBVIOUS
<1>. DEFINE B == {j \in Queued : GoesBefore(j, k)}
<1>1. Low \subseteq B
  BY PlacesFinite DEF GoesBefore
<1>2. IsFiniteSet(B)
  BY PlacesFinite, FS_Subset
<1>3. Cardinality(Low) <= Cardinality(B) /\ Cardinality(B) \in Nat
  BY <1>1, <1>2, FS_Subset, FS_CardinalityType
<1>. QED  BY <1>3, PlacesFinite

\* Of two links or more, two go when two are asked for.
LEMMA TwoGo ==
  ASSUME NEW n \in Nat, n >= 2, Cardinality(Low) >= 2
  PROVE  \E a, b \in buildOverflowQueue(n) : a # b
<1>1. Low # {}
  BY FS_EmptySet
<1>2. PICK i \in Low : \A j \in Low : j <= i
  BY <1>1, LastPlace
<1>3. Low \ {i} # {}
  <2>1. CASE Low \ {i} = {}
    <3>1. Low = {i}
      BY <2>1
    <3>. QED  BY <3>1, FS_Singleton
  <2>. QED  BY <2>1
<1>4. PICK k \in Low \ {i} : \A j \in Low \ {i} : j <= k
  BY <1>3, LastPlace
<1>0. Low \subseteq Queued /\ Queued \subseteq Int
  BY PlacesFinite
<1>5. {j \in Queued : GoesBefore(j, i)} = {}
  <2>1. \A j \in Queued : ~GoesBefore(j, i)
    <3>. SUFFICES ASSUME NEW j \in Queued, GoesBefore(j, i) PROVE FALSE
      OBVIOUS
    <3>1. j \in Low /\ j > i
      BY Zenon DEF GoesBefore
    <3>. QED  BY <1>0, <1>2, <3>1
  <2>. QED  BY <2>1
<1>6. {j \in Queued : GoesBefore(j, k)} = {i}
  <2>1. ASSUME NEW j \in Queued, GoesBefore(j, k)
        PROVE  j = i
    <3>1. j \in Low /\ j > k
      BY <1>4, <2>1, Zenon DEF GoesBefore
    <3>. QED  BY <1>0, <1>4, <3>1
  <2>2. GoesBefore(i, k)
    <3>1. i > k
      BY <1>0, <1>2, <1>4
    <3>. QED  BY <1>4, <3>1, Zenon DEF GoesBefore
  <2>. QED  BY <1>0, <2>1, <2>2
<1>7. Links[i] \in buildOverflowQueue(n)
  <2>1. Cardinality({j \in Queued : GoesBefore(j, i)}) < n
    BY <1>5, FS_EmptySet
  <2>. QED  BY <1>0, <2>1 DEF buildOverflowQueue
<1>8. Links[k] \in buildOverflowQueue(n)
  <2>1. Cardinality({j \in Queued : GoesBefore(j, k)}) < n
    BY <1>6, FS_Singleton
  <2>. QED  BY <1>0, <1>4, <2>1 DEF buildOverflowQueue
<1>9. Links[i] # Links[k]
  BY <1>4, AppShellAssumption DEF Low, Queued
<1>. QED  BY <1>7, <1>8, <1>9

LEMMA GreedyBounded == Greedy \in 0..Cardinality(Low)
<1>. DEFINE c == Cardinality(Low)
            S == {n \in 0..c : n = c \/ fits(buildOverflowQueue(n))}
<1>1. c \in Nat
  BY PlacesFinite
<1>2. c \in S
  BY <1>1
<1>3. S \subseteq Nat
  BY <1>1
<1>5. PICK m \in S : \A k \in S : m <= k
  <2>. HIDE DEF S
  <2>. QED  BY <1>2, <1>3, LeastNumber
<1>6. Greedy = Min(S)
  BY DEF Greedy
<1>7. Min(S) \in S
  <2>. HIDE DEF S
  <2>. QED  BY <1>5 DEF Min
<1>. QED  BY <1>6, <1>7

\* What the greedy walk and the floor leave.
LEMMA QueueComplete ==
  LET gone == buildOverflowQueue(WithFloor(Greedy))
  IN  gone \subseteq LowLinks /\ (Cardinality(gone) = 1 => Cardinality(LowLinks) = 1)
<1>. DEFINE n == WithFloor(Greedy)
            gone == buildOverflowQueue(n)
<1>1. Cardinality(Low) \in Nat /\ Greedy \in 0..Cardinality(Low)
  BY GreedyBounded, PlacesFinite
<1>2. n \in Nat /\ n <= Cardinality(Low) /\ (n = 1 => Cardinality(Low) = 1)
  BY <1>1 DEF WithFloor
<1>. HIDE DEF n
<1>3. gone \subseteq LowLinks
  BY <1>2, QueueStopsAtHigh
<1>4. ASSUME Cardinality(gone) = 1
      PROVE  Cardinality(LowLinks) = 1
  <2>1. CASE n = 0
    <3>1. \A k \in Queued : ~(Cardinality({j \in Queued : GoesBefore(j, k)}) < 0)
      <4>. SUFFICES ASSUME NEW k \in Queued PROVE ~(Cardinality({j \in Queued : GoesBefore(j, k)}) < 0)
        OBVIOUS
      <4>1. IsFiniteSet({j \in Queued : GoesBefore(j, k)})
        BY PlacesFinite, FS_Subset
      <4>. QED  BY <4>1, FS_CardinalityType
    <3>2. gone = {}
      BY <2>1, <3>1 DEF buildOverflowQueue
    <3>. QED  BY <1>4, <3>2, FS_EmptySet
  <2>2. CASE n = 1
    <3>1. PICK i : Low = {i}
      BY <1>2, <2>2, PlacesFinite, FS_Singleton
    <3>2. LowLinks = {Links[i]}
      BY <3>1, LowLinksAre
    <3>. QED  BY <3>2, FS_Singleton
  <2>3. CASE n >= 2
    <3>1. PICK a, b \in gone : a # b
      BY <1>2, <2>3, TwoGo, PlacesFinite
    <3>2. IsFiniteSet(gone)
      <4>1. IsFiniteSet({Links[i] : i \in Low})
        <5>. DEFINE f == [i \in Low |-> Links[i]]
        <5>1. f \in Surjection(Low, {Links[i] : i \in Low})
          BY DEF Surjection
        <5>. QED  BY <5>1, PlacesFinite, FS_Surjection
      <4>. QED  BY <1>3, <4>1, LowLinksAre, FS_Subset
    <3>3. PICK x : gone = {x}
      BY <1>4, <3>2, FS_Singleton
    <3>. QED  BY <3>1, <3>3
  <2>. QED  BY <1>2, <2>1, <2>2, <2>3
<1>. HIDE DEF gone
<1>5. gone \subseteq LowLinks /\ (Cardinality(gone) = 1 => Cardinality(LowLinks) = 1)
  BY <1>3, <1>4
<1>. QED  BY <1>5 DEF gone, n

ShellInv ==
    /\ room \in Rooms
    /\ OnePageMounted
    /\ NavComplete

LEMMA ShellInitHolds == ShellInit => ShellInv
BY DEF ShellInit, ShellInv, OnePageMounted, NavComplete

LEMMA NavigateOne ==
  ASSUME NEW hs, NEW p, NEW throws \in BOOLEAN, navigate(hs, p, throws), OnePageMounted
  PROVE  OnePageMounted' /\ navFrame' = TRUE
BY DEF navigate, OnePageMounted

LEMMA ShellStep ==
  ASSUME ShellInv, [ShellNext]_shellVars
  PROVE  ShellInv'
<1>. USE DEF ShellInv
<1>1. ASSUME NEW h \in Hashes_, NEW throws \in BOOLEAN, FollowLink(h, throws)
      PROVE  ShellInv'
  <2>1. navigate(Append(SubSeq(hist, 1, pos), h), pos + 1, throws) /\ room' = room
    BY <1>1 DEF FollowLink
  <2>. QED  BY <2>1, NavigateOne DEF NavComplete
<1>2. ASSUME NEW throws \in BOOLEAN, GoBack(throws)
      PROVE  ShellInv'
  <2>1. navigate(hist, pos - 1, throws) /\ room' = room
    BY <1>2 DEF GoBack
  <2>. QED  BY <2>1, NavigateOne DEF NavComplete
<1>3. ASSUME NEW r \in Rooms, Resize(r)
      PROVE  ShellInv'
  BY <1>3 DEF Resize, NavComplete, OnePageMounted
<1>4. CASE applyNavPriority
  <2>0. UNCHANGED <<currentPage, mounted, room>>
    BY <1>4 DEF applyNavPriority
  <2>1. OnePageMounted' /\ room' \in Rooms /\ room \in Int
    BY <2>0, AppShellAssumption DEF OnePageMounted
  <2>2. ASSUME room >= Mobile
        PROVE  overflow' \subseteq LowLinks /\ menu' = overflow' /\ moreHidden' = (menu' = {})
               /\ (Cardinality(menu') = 1 => Cardinality(LowLinks) = 1)
    <3>1. CASE room \in Mobile..Narrow
      <4>1. overflow' = LowLinks /\ menu' = overflow' /\ moreHidden' = (menu' = {})
        BY <1>4, <2>1, <2>2, <3>1 DEF applyNavPriority, LowLinks, Mobile, Narrow
      <4>. QED  BY <4>1
    <3>2. CASE room \notin Mobile..Narrow
      <4>1. overflow' = buildOverflowQueue(WithFloor(Greedy)) /\ menu' = overflow' /\ moreHidden' = (menu' = {})
        BY <1>4, <2>1, <2>2, <3>2 DEF applyNavPriority, Mobile, Narrow
      <4>. QED  BY <4>1, QueueComplete
    <3>. QED  BY <3>1, <3>2
  <2>3. NavComplete'
    <3>1. ActiveLinks' = ActiveLinks
      BY <2>0 DEF ActiveLinks
    <3>. QED  BY <2>0, <2>2, <3>1 DEF NavComplete, LowLinks
  <2>. QED  BY <2>1, <2>3
<1>5. CASE UNCHANGED shellVars
  BY <1>5 DEF shellVars, NavComplete, OnePageMounted, ActiveLinks
<1>. QED  BY <1>1, <1>2, <1>3, <1>4, <1>5 DEF ShellNext

\* One page is mounted; the bar, once its frame has run, has the active and
\* the high-priority links and its More menu every other one that does not
\* fit, never one alone that could have company (navigate and
\* applyNavPriority of app.js).
THEOREM ShellConsistentThm == ShellSpec => []ShellConsistent
<1>1. ShellInv => ShellConsistent
  BY DEF ShellInv, ShellConsistent
<1>. QED  BY ShellInitHolds, ShellStep, <1>1, PTL DEF ShellSpec

BackStep == \A t \in BOOLEAN : GoBack(t) => pos' < pos

\* Going back always gets nearer to where the session began: redirects replace
\* their entry (navigate of app.js).
THEOREM BackGetsBackThm == ShellSpec => BackGetsBack
<1>. DEFINE PosInt == pos \in Int
<1>1. ShellInit => PosInt
  <2>1. 1 \in Int
    OBVIOUS
  <2>. QED  BY <2>1, Zenon DEF ShellInit
<1>2. PosInt /\ [ShellNext]_shellVars => PosInt'
  BY DEF ShellNext, FollowLink, GoBack, Resize, applyNavPriority, navigate, shellVars
<1>3. PosInt => [BackStep]_shellVars
  BY DEF BackStep, GoBack, navigate
<1>. QED  BY <1>1, <1>2, <1>3, PTL DEF ShellSpec, BackGetsBack, BackStep

------------------------------------------------------------------------------
(* Requests. *)

FetchRec == [path : ApiPaths, keep : BOOLEAN, st : {"asked", "waits", "done"}, attempt : Nat, notified : BOOLEAN]

\* The open fetches the banner counts.
Told == {i \in Open : fetches[i].notified}

ApiInv ==
    /\ cache \in [ApiPaths -> 0..2] /\ inflight \in [ApiPaths -> 0..MaxApiCalls] /\ version \in [ApiPaths -> 1..2]
    /\ fetches \in Seq(FetchRec) /\ Len(fetches) <= MaxApiCalls
    /\ \A i \in DOMAIN fetches :
         fetches[i].attempt <= MaxAttempts /\ (fetches[i].st = "waits" => fetches[i].attempt < MaxAttempts)
    /\ warm = Cardinality(Told)
    /\ OneFetchPerPath

LEMMA SameLength == ASSUME NEW m \in Nat, NEW n \in Nat, 1..m = 1..n PROVE m = n
<1>1. ~(m < n)
  <2> SUFFICES ASSUME m < n PROVE FALSE
    OBVIOUS
  <2>1. n \in 1..n /\ n \notin 1..m
    OBVIOUS
  <2> QED BY <2>1
<1>2. ~(n < m)
  <2> SUFFICES ASSUME n < m PROVE FALSE
    OBVIOUS
  <2>1. m \in 1..m /\ m \notin 1..n
    OBVIOUS
  <2> QED BY <2>1
<1> QED BY <1>1, <1>2

LEMMA ToldCounted ==
  ASSUME fetches \in Seq(FetchRec)
  PROVE  IsFiniteSet(Told) /\ Cardinality(Told) \in Nat /\ Cardinality(Told) <= Len(fetches)
<1>1. Len(fetches) \in Nat /\ DOMAIN fetches = 1..Len(fetches)
  OBVIOUS
<1>2. IsFiniteSet(1..Len(fetches)) /\ Cardinality(1..Len(fetches)) = Len(fetches)
  <2>1. 1 \in Int /\ Len(fetches) \in Int
    BY <1>1
  <2>2. IsFiniteSet(1..Len(fetches))
    BY <2>1, FS_Interval
  <2>3. Cardinality(1..Len(fetches)) = IF 1 > Len(fetches) THEN 0 ELSE Len(fetches) - 1 + 1
    BY <2>1, FS_Interval
  <2> QED BY <1>1, <2>2, <2>3
<1>3. Told \subseteq 1..Len(fetches)
  BY <1>1 DEF Told, Open
<1> QED BY <1>2, <1>3, FS_Subset, FS_CardinalityType

LEMMA ApiTells == ApiInv => ApiTypeOK /\ WarmupBalanced /\ OneFetchPerPath
<1> SUFFICES ASSUME ApiInv PROVE ApiTypeOK /\ WarmupBalanced
  BY DEF ApiInv
<1>1. fetches \in Seq(FetchRec) /\ Len(fetches) <= MaxApiCalls /\ MaxApiCalls \in Nat /\ MaxAttempts \in Nat
  BY AppApiAssumption DEF ApiInv
<1>2. \A i \in DOMAIN fetches : fetches[i] \in FetchRec
  BY <1>1
<1>3. \A i \in DOMAIN fetches : fetches[i].st \in {"asked", "waits", "done"} /\ fetches[i].attempt \in Nat
  BY <1>2 DEF FetchRec
<1>4. \A i \in DOMAIN fetches : fetches[i].attempt \in 0..MaxAttempts
  BY <1>1, <1>3 DEF ApiInv
<1>5. WarmupBalanced
  BY DEF ApiInv, WarmupBalanced, Told
<1>6. warm \in 0..MaxApiCalls
  BY <1>1, ToldCounted DEF ApiInv
<1> QED BY <1>3, <1>4, <1>5, <1>6 DEF ApiInv, ApiTypeOK

LEMMA ApiStarts == ApiInit => ApiInv
<1> SUFFICES ASSUME ApiInit PROVE ApiInv
  OBVIOUS
<1>1. fetches = << >> /\ warm = 0 /\ cache = [p \in ApiPaths |-> 0] /\ inflight = [p \in ApiPaths |-> 0] /\ version = [p \in ApiPaths |-> 1]
  BY DEF ApiInit
<1>2. MaxApiCalls \in Nat
  BY AppApiAssumption
<1>3. fetches \in Seq(FetchRec) /\ Len(fetches) = 0 /\ DOMAIN fetches = {}
  BY <1>1
<1>4. Open = {} /\ Told = {}
  BY <1>3 DEF Open, Told
<1>5. warm = Cardinality(Told)
  BY <1>1, <1>4, FS_EmptySet
<1>6. OneFetchPerPath
  BY <1>1, <1>4 DEF OneFetchPerPath
<1>7. cache \in [ApiPaths -> 0..2] /\ inflight \in [ApiPaths -> 0..MaxApiCalls] /\ version \in [ApiPaths -> 1..2]
  BY <1>1, <1>2
<1> QED BY <1>2, <1>3, <1>5, <1>6, <1>7 DEF ApiInv

LEMMA StartKeeps ==
  ASSUME NEW p \in ApiPaths, NEW keep \in BOOLEAN, ApiInv, StartFetch(p, keep), inflight[p] = 0,
         UNCHANGED <<cache, warm, version>>
  PROVE  ApiInv'
<1> DEFINE n == Len(fetches) + 1
           f == [path |-> p, keep |-> keep, st |-> "asked", attempt |-> 0, notified |-> FALSE]
<1>1. /\ fetches \in Seq(FetchRec) /\ Len(fetches) < MaxApiCalls /\ MaxApiCalls \in Nat /\ MaxAttempts \in Nat
      /\ inflight \in [ApiPaths -> 0..MaxApiCalls] /\ warm = Cardinality(Told) /\ OneFetchPerPath
  BY AppApiAssumption DEF ApiInv, StartFetch
<1>2. fetches' = Append(fetches, f) /\ inflight' = [inflight EXCEPT ![p] = n] /\ cache' = cache /\ warm' = warm /\ version' = version
  BY DEF StartFetch
<1>3. f \in FetchRec
  BY DEF FetchRec
<1>4. f.path = p /\ f.st = "asked" /\ f.attempt = 0 /\ ~f.notified
  OBVIOUS
<1> HIDE DEF f
<1>5. Len(fetches) \in Nat /\ DOMAIN fetches = 1..Len(fetches) /\ n \in 1..MaxApiCalls
  BY <1>1
<1>6. /\ fetches' \in Seq(FetchRec) /\ Len(fetches') = n /\ DOMAIN fetches' = 1..n
      /\ fetches'[n] = f /\ \A i \in DOMAIN fetches : fetches'[i] = fetches[i]
  BY <1>1, <1>2, <1>3, <1>5
<1>7. Open' = Open \union {n} /\ n \notin Open
  BY <1>4, <1>5, <1>6 DEF Open
<1>8. Told' = Told
  BY <1>4, <1>5, <1>6, <1>7 DEF Told, Open
<1>9. \A i \in DOMAIN fetches' :
        fetches'[i].attempt <= MaxAttempts /\ (fetches'[i].st = "waits" => fetches'[i].attempt < MaxAttempts)
  <2> TAKE i \in DOMAIN fetches'
  <2>1. CASE i = n
    BY <2>1, <1>1, <1>4, <1>6
  <2>2. CASE i \in DOMAIN fetches
    BY <2>2, <1>6 DEF ApiInv
  <2> QED BY <2>1, <2>2, <1>5, <1>6
<1>10. OneFetchPerPath'
  <2> SUFFICES ASSUME NEW q \in ApiPaths
               PROVE  {i \in Open' : fetches'[i].path = q} = IF inflight'[q] = 0 THEN {} ELSE {inflight'[q]}
    BY DEF OneFetchPerPath
  <2>1. {i \in Open : fetches[i].path = q} = IF inflight[q] = 0 THEN {} ELSE {inflight[q]}
    BY <1>1 DEF OneFetchPerPath
  <2>2. \A i \in Open : i \in DOMAIN fetches /\ fetches'[i] = fetches[i]
    BY <1>6 DEF Open
  <2>3. CASE q = p
    <3>1. {i \in Open : fetches[i].path = q} = {} /\ inflight'[q] = n /\ n # 0
      BY <2>1, <2>3, <1>1, <1>2, <1>5
    <3>2. {i \in Open' : fetches'[i].path = q} = {n}
      BY <2>2, <2>3, <3>1, <1>4, <1>6, <1>7
    <3> QED BY <3>1, <3>2
  <2>4. CASE q # p
    <3>1. inflight'[q] = inflight[q]
      BY <2>4, <1>1, <1>2
    <3>2. {i \in Open' : fetches'[i].path = q} = {i \in Open : fetches[i].path = q}
      BY <2>2, <2>4, <1>4, <1>6, <1>7
    <3> QED BY <2>1, <3>1, <3>2
  <2> QED BY <2>3, <2>4
<1>11. /\ cache' \in [ApiPaths -> 0..2] /\ inflight' \in [ApiPaths -> 0..MaxApiCalls]
       /\ version' \in [ApiPaths -> 1..2] /\ Len(fetches') <= MaxApiCalls
  BY <1>1, <1>2, <1>5, <1>6 DEF ApiInv
<1>12. warm' = Cardinality(Told')
  BY <1>1, <1>2, <1>8
<1> QED BY <1>6, <1>9, <1>10, <1>11, <1>12 DEF ApiInv

\* A fetch that stays open.
LEMMA StaysOpen ==
  ASSUME NEW i \in DOMAIN fetches, NEW f \in FetchRec, ApiInv, fetches[i].st # "done",
         fetches' \in Seq(FetchRec), DOMAIN fetches' = DOMAIN fetches, fetches'[i] = f,
         \A j \in DOMAIN fetches : j # i => fetches'[j] = fetches[j],
         f.path = fetches[i].path, f.st \in {"asked", "waits"}, f.attempt <= MaxAttempts,
         f.st = "waits" => f.attempt < MaxAttempts,
         Told' = (IF f.notified THEN Told \union {i} ELSE Told \ {i}) => warm' = Cardinality(Told'),
         UNCHANGED <<cache, inflight, version>>
  PROVE  ApiInv'
<1>1. /\ fetches \in Seq(FetchRec) /\ Len(fetches) <= MaxApiCalls /\ OneFetchPerPath
      /\ \A j \in DOMAIN fetches : fetches[j].attempt <= MaxAttempts /\ (fetches[j].st = "waits" => fetches[j].attempt < MaxAttempts)
  BY DEF ApiInv
<1>2. f.st # "done"
  OBVIOUS
<1>3. Open' = Open /\ i \in Open
  BY <1>2 DEF Open
<1>4. \A j \in DOMAIN fetches : fetches'[j].path = fetches[j].path
  OBVIOUS
<1>5. OneFetchPerPath'
  <2> SUFFICES ASSUME NEW q \in ApiPaths
               PROVE  {j \in Open' : fetches'[j].path = q} = IF inflight'[q] = 0 THEN {} ELSE {inflight'[q]}
    BY DEF OneFetchPerPath
  <2>1. {j \in Open : fetches[j].path = q} = IF inflight[q] = 0 THEN {} ELSE {inflight[q]}
    BY <1>1 DEF OneFetchPerPath
  <2>2. {j \in Open' : fetches'[j].path = q} = {j \in Open : fetches[j].path = q}
    BY <1>3, <1>4 DEF Open
  <2> QED BY <2>1, <2>2
<1>6. Told' = IF f.notified THEN Told \union {i} ELSE Told \ {i}
  <2>1. \A j \in Open : j # i => (fetches'[j].notified <=> fetches[j].notified)
    BY DEF Open
  <2> QED BY <1>3, <2>1 DEF Told
<1>7. Len(fetches') <= MaxApiCalls
  <2>1. Len(fetches') \in Nat /\ DOMAIN fetches' = 1..Len(fetches')
    OBVIOUS
  <2>2. Len(fetches) \in Nat /\ DOMAIN fetches = 1..Len(fetches)
    BY <1>1
  <2>3. 1..Len(fetches') = 1..Len(fetches)
    BY <2>1, <2>2
  <2>4. Len(fetches') = Len(fetches)
    BY <2>1, <2>2, <2>3, SameLength
  <2> QED BY <1>1, <2>4
<1>8. \A j \in DOMAIN fetches' :
        fetches'[j].attempt <= MaxAttempts /\ (fetches'[j].st = "waits" => fetches'[j].attempt < MaxAttempts)
  BY <1>1
<1>9. warm' = Cardinality(Told')
  BY <1>6
<1>10. cache' \in [ApiPaths -> 0..2] /\ inflight' \in [ApiPaths -> 0..MaxApiCalls] /\ version' \in [ApiPaths -> 1..2]
  BY DEF ApiInv
<1> QED BY <1>5, <1>7, <1>8, <1>9, <1>10 DEF ApiInv

LEMMA WarmingKeeps == ASSUME NEW i \in DOMAIN fetches, ApiInv, WarmingUp(i) PROVE ApiInv'
<1> DEFINE f == [fetches[i] EXCEPT !.st = "waits", !.notified = TRUE]
<1>1. /\ fetches \in Seq(FetchRec) /\ fetches[i].st = "asked" /\ fetches[i].attempt < MaxAttempts
      /\ warm = Cardinality(Told) /\ MaxAttempts \in Nat
  BY AppApiAssumption DEF ApiInv, WarmingUp
<1>2. fetches[i] \in FetchRec
  BY <1>1
<1>3. f \in FetchRec
  BY <1>2, Zenon DEF FetchRec
<1>4. f.path = fetches[i].path /\ f.st = "waits" /\ f.attempt = fetches[i].attempt /\ f.notified
  BY <1>2 DEF FetchRec
<1>5. fetches' = [fetches EXCEPT ![i] = f]
  BY <1>1, <1>2 DEF WarmingUp, FetchRec
<1> HIDE DEF f
<1>6. /\ fetches' \in Seq(FetchRec) /\ DOMAIN fetches' = DOMAIN fetches /\ fetches'[i] = f
      /\ \A j \in DOMAIN fetches : j # i => fetches'[j] = fetches[j]
  BY <1>1, <1>3, <1>5
<1>7. f.attempt <= MaxAttempts /\ f.attempt < MaxAttempts
  <2>1. f.attempt \in Nat
    BY <1>3 DEF FetchRec
  <2> QED BY <1>1, <1>4, <2>1
<1>8. Told' = (IF f.notified THEN Told \union {i} ELSE Told \ {i}) => warm' = Cardinality(Told')
  <2> HAVE Told' = (IF f.notified THEN Told \union {i} ELSE Told \ {i})
  <2>1. Told' = Told \union {i}
    BY <1>4
  <2>2. i \in Open /\ (i \in Told <=> fetches[i].notified)
    BY <1>1 DEF Open, Told
  <2>3. warm' = IF fetches[i].notified THEN warm ELSE warm + 1
    BY DEF WarmingUp, _warmupNotify_1659
  <2>4. IsFiniteSet(Told)
    BY <1>1, ToldCounted
  <2>5. Cardinality(Told \union {i}) = IF i \in Told THEN Cardinality(Told) ELSE Cardinality(Told) + 1
    BY <2>4, FS_AddElement
  <2> QED BY <1>1, <2>1, <2>2, <2>3, <2>5
<1>9. UNCHANGED <<cache, inflight, version>> /\ fetches[i].st # "done" /\ f.st \in {"asked", "waits"}
  BY <1>1, <1>4 DEF WarmingUp
<1> QED BY <1>3, <1>4, <1>6, <1>7, <1>8, <1>9, StaysOpen

LEMMA RetryKeeps == ASSUME NEW i \in DOMAIN fetches, ApiInv, Retry(i) PROVE ApiInv'
<1> DEFINE a == fetches[i].attempt + 1
           f == [fetches[i] EXCEPT !.st = "asked", !.attempt = a]
<1>1. /\ fetches \in Seq(FetchRec) /\ fetches[i].st = "waits" /\ fetches[i].attempt < MaxAttempts
      /\ warm = Cardinality(Told) /\ MaxAttempts \in Nat
  BY AppApiAssumption DEF ApiInv, Retry
<1>2. fetches[i] \in FetchRec
  BY <1>1
<1>3. a \in Nat /\ a <= MaxAttempts
  <2>1. fetches[i].attempt \in Nat
    BY <1>2 DEF FetchRec
  <2> QED BY <1>1, <2>1
<1>4. fetches' = [fetches EXCEPT ![i] = f]
  BY <1>1, <1>2 DEF Retry, FetchRec
<1> HIDE DEF a
<1>5. f \in FetchRec
  BY <1>2, <1>3, Zenon DEF FetchRec
<1>6. f.path = fetches[i].path /\ f.st = "asked" /\ f.attempt = a /\ f.notified = fetches[i].notified
  BY <1>2 DEF FetchRec
<1> HIDE DEF f
<1>7. /\ fetches' \in Seq(FetchRec) /\ DOMAIN fetches' = DOMAIN fetches /\ fetches'[i] = f
      /\ \A j \in DOMAIN fetches : j # i => fetches'[j] = fetches[j]
  BY <1>1, <1>4, <1>5
<1>8. Told' = (IF f.notified THEN Told \union {i} ELSE Told \ {i}) => warm' = Cardinality(Told')
  <2> HAVE Told' = (IF f.notified THEN Told \union {i} ELSE Told \ {i})
  <2>1. i \in Open /\ (i \in Told <=> fetches[i].notified)
    BY <1>1 DEF Open, Told
  <2>2. Told' = Told
    BY <1>6, <2>1
  <2> QED BY <1>1, <2>2 DEF Retry
<1>9. UNCHANGED <<cache, inflight, version>> /\ fetches[i].st # "done" /\ f.st \in {"asked", "waits"} /\ f.st # "waits"
  BY <1>1, <1>6 DEF Retry
<1>10. f.attempt <= MaxAttempts
  BY <1>3, <1>6
<1> QED BY <1>5, <1>6, <1>7, <1>8, <1>9, <1>10, StaysOpen

LEMMA SettledKeeps == ASSUME NEW i \in DOMAIN fetches, NEW ok \in BOOLEAN, ApiInv, Settled(i, ok) PROVE ApiInv'
<1> DEFINE f == [fetches[i] EXCEPT !.st = "done"]
           p == fetches[i].path
<1>1. /\ fetches \in Seq(FetchRec) /\ Len(fetches) <= MaxApiCalls /\ fetches[i].st = "asked"
      /\ warm = Cardinality(Told) /\ MaxAttempts \in Nat /\ MaxApiCalls \in Nat /\ OneFetchPerPath
      /\ cache \in [ApiPaths -> 0..2] /\ inflight \in [ApiPaths -> 0..MaxApiCalls] /\ version \in [ApiPaths -> 1..2]
      /\ \A j \in DOMAIN fetches : fetches[j].attempt <= MaxAttempts /\ (fetches[j].st = "waits" => fetches[j].attempt < MaxAttempts)
  BY AppApiAssumption DEF ApiInv, Settled
<1>2. fetches[i] \in FetchRec
  BY <1>1
<1>3. f \in FetchRec
  BY <1>2, Zenon DEF FetchRec
<1>4. f.path = p /\ f.st = "done" /\ f.attempt = fetches[i].attempt /\ p \in ApiPaths
  BY <1>2 DEF FetchRec
<1>5. fetches' = [fetches EXCEPT ![i] = f]
  BY <1>1, <1>2 DEF Settled, FetchRec
<1> HIDE DEF f
<1>6. /\ fetches' \in Seq(FetchRec) /\ DOMAIN fetches' = DOMAIN fetches /\ fetches'[i] = f
      /\ \A j \in DOMAIN fetches : j # i => fetches'[j] = fetches[j]
  BY <1>1, <1>3, <1>5
<1>7. Open' = Open \ {i} /\ i \in Open
  BY <1>1, <1>4, <1>6 DEF Open
<1>8. \A j \in Open' : j \in Open /\ j # i /\ fetches'[j] = fetches[j]
  BY <1>6, <1>7 DEF Open
<1>9. Told' = Told \ {i}
  BY <1>7, <1>8 DEF Told
<1>10. warm' = Cardinality(Told')
  <2>1. IsFiniteSet(Told) /\ Cardinality(Told) \in Nat
    BY <1>1, ToldCounted
  <2>2. IsFiniteSet(Told \ {i}) /\ Cardinality(Told \ {i}) = IF i \in Told THEN Cardinality(Told) - 1 ELSE Cardinality(Told)
    BY <2>1, FS_RemoveElement
  <2>3. Cardinality(Told \ {i}) \in Nat
    BY <2>2, FS_CardinalityType
  <2>4. CASE fetches[i].notified
    <3>1. warm' = Max({0, warm - 1})
      BY <2>4 DEF Settled, _warmupNotify_1659
    <3>2. i \in Told
      BY <2>4, <1>7 DEF Told
    <3>3. warm - 1 = Cardinality(Told \ {i})
      BY <3>2, <2>2, <1>1
    <3>4. \A k \in Nat : Max({0, k}) = k
      <4> TAKE k \in Nat
      <4>1. k \in {0, k} /\ \A y \in {0, k} : k >= y
        OBVIOUS
      <4>2. \A x \in {0, k} : (\A y \in {0, k} : x >= y) => x = k
        OBVIOUS
      <4>3. Max({0, k}) \in {0, k} /\ \A y \in {0, k} : Max({0, k}) >= y
        BY <4>1 DEF Max
      <4> QED BY <4>2, <4>3
    <3> QED BY <3>1, <3>3, <3>4, <2>3, <1>9
  <2>5. CASE ~fetches[i].notified
    <3>1. warm' = warm
      BY <2>5 DEF Settled
    <3>2. i \notin Told
      BY <2>5 DEF Told
    <3> QED BY <3>1, <3>2, <2>2, <1>1, <1>9
  <2> QED BY <2>4, <2>5
<1>11. inflight' = [inflight EXCEPT ![p] = 0] /\ version' = version
  BY DEF Settled
<1>12. OneFetchPerPath'
  <2> SUFFICES ASSUME NEW q \in ApiPaths
               PROVE  {j \in Open' : fetches'[j].path = q} = IF inflight'[q] = 0 THEN {} ELSE {inflight'[q]}
    BY DEF OneFetchPerPath
  <2>1. {j \in Open : fetches[j].path = q} = IF inflight[q] = 0 THEN {} ELSE {inflight[q]}
    BY <1>1 DEF OneFetchPerPath
  <2>2. CASE q = p
    <3>1. i \in {j \in Open : fetches[j].path = q}
      BY <2>2, <1>7
    <3>2. {j \in Open : fetches[j].path = q} = {i}
      BY <3>1, <2>1
    <3>3. \A j \in Open' : fetches'[j].path # q
      BY <3>2, <1>8
    <3>4. inflight'[q] = 0
      BY <2>2, <1>1, <1>11
    <3> QED BY <3>3, <3>4
  <2>3. CASE q # p
    <3>1. inflight'[q] = inflight[q]
      BY <2>3, <1>1, <1>11
    <3>2. {j \in Open' : fetches'[j].path = q} = {j \in Open : fetches[j].path = q}
      BY <2>3, <1>7, <1>8
    <3> QED BY <2>1, <3>1, <3>2
  <2> QED BY <2>2, <2>3
<1>13. cache' \in [ApiPaths -> 0..2]
  <2>1. version[p] \in 0..2
    BY <1>1, <1>4
  <2>2. CASE ok /\ fetches[i].keep
    <3>1. cache' = [cache EXCEPT ![p] = version[p]]
      BY <2>2 DEF Settled
    <3> QED BY <3>1, <2>1, <1>1
  <2>3. CASE ~(ok /\ fetches[i].keep)
    <3>1. cache' = cache
      BY <2>3 DEF Settled
    <3> QED BY <3>1, <1>1
  <2> QED BY <2>2, <2>3
<1>14. inflight' \in [ApiPaths -> 0..MaxApiCalls] /\ version' \in [ApiPaths -> 1..2]
  <2>1. 0 \in 0..MaxApiCalls
    BY <1>1
  <2> QED BY <2>1, <1>1, <1>11
<1>15. Len(fetches') <= MaxApiCalls
  <2>1. Len(fetches') \in Nat /\ DOMAIN fetches' = 1..Len(fetches')
    BY <1>6
  <2>2. Len(fetches) \in Nat /\ DOMAIN fetches = 1..Len(fetches)
    BY <1>1
  <2>3. 1..Len(fetches') = 1..Len(fetches)
    BY <2>1, <2>2, <1>6
  <2>4. Len(fetches') = Len(fetches)
    BY <2>1, <2>2, <2>3, SameLength
  <2> QED BY <1>1, <2>4
<1>16. \A j \in DOMAIN fetches' :
        fetches'[j].attempt <= MaxAttempts /\ (fetches'[j].st = "waits" => fetches'[j].attempt < MaxAttempts)
  <2> TAKE j \in DOMAIN fetches'
  <2>1. CASE j = i
    BY <2>1, <1>1, <1>4, <1>6
  <2>2. CASE j # i
    BY <2>2, <1>1, <1>6
  <2> QED BY <2>1, <2>2
<1> QED BY <1>6, <1>10, <1>12, <1>13, <1>14, <1>15, <1>16 DEF ApiInv

\* Only the cache or the server's data change.
LEMMA FetchesStay ==
  ASSUME ApiInv, UNCHANGED <<fetches, inflight, warm>>,
         cache' \in [ApiPaths -> 0..2], version' \in [ApiPaths -> 1..2]
  PROVE  ApiInv'
<1>1. Open' = Open /\ Told' = Told
  BY DEF Open, Told
<1>2. OneFetchPerPath'
  BY <1>1 DEF OneFetchPerPath, ApiInv
<1> QED BY <1>1, <1>2 DEF ApiInv

LEMMA ApiStep == ApiInv /\ [ApiNext]_apiVars => ApiInv'
<1> SUFFICES ASSUME ApiInv, [ApiNext]_apiVars PROVE ApiInv'
  OBVIOUS
<1>1. cache \in [ApiPaths -> 0..2] /\ version \in [ApiPaths -> 1..2] /\ inflight \in [ApiPaths -> 0..MaxApiCalls]
  BY DEF ApiInv
<1>2. ASSUME NEW p \in ApiPaths, NEW keep \in BOOLEAN, NEW bust \in BOOLEAN, api(p, keep, bust) PROVE ApiInv'
  <2>1. CASE (~bust /\ keep /\ cache[p] # 0) \/ inflight[p] # 0
    <3>1. UNCHANGED <<fetches, inflight, warm>> /\ cache' = cache /\ version' = version
      BY <2>1, <1>2 DEF api
    <3> QED BY <3>1, <1>1, FetchesStay
  <2>2. CASE ~((~bust /\ keep /\ cache[p] # 0) \/ inflight[p] # 0)
    <3>1. StartFetch(p, keep) /\ inflight[p] = 0 /\ UNCHANGED <<cache, warm, version>>
      BY <2>2, <1>2 DEF api
    <3> QED BY <3>1, StartKeeps
  <2> QED BY <2>1, <2>2
<1>3. CASE Answers503
  BY <1>3, WarmingKeeps DEF Answers503
<1>4. CASE Timeouts
  BY <1>4, RetryKeeps DEF Timeouts
<1>5. CASE FetchEnds
  BY <1>5, SettledKeeps DEF FetchEnds
<1>6. ASSUME NEW p \in ApiPaths, invalidateApiCache({p}) PROVE ApiInv'
  <2>1. cache' = [q \in ApiPaths |-> IF q \in {p} THEN 0 ELSE cache[q]] /\ UNCHANGED <<inflight, fetches, warm, version>>
    BY <1>6 DEF invalidateApiCache
  <2>2. cache' \in [ApiPaths -> 0..2]
    BY <2>1, <1>1
  <2> QED BY <2>1, <2>2, <1>1, FetchesStay
<1>7. ASSUME NEW p \in ApiPaths, ServerMoves(p) PROVE ApiInv'
  <2>1. version' = [version EXCEPT ![p] = 2] /\ UNCHANGED <<inflight, fetches, warm, cache>>
    BY <1>7 DEF ServerMoves
  <2>2. version' \in [ApiPaths -> 1..2]
    BY <2>1, <1>1
  <2> QED BY <2>1, <2>2, <1>1, FetchesStay
<1>8. CASE UNCHANGED apiVars
  <2>1. UNCHANGED <<inflight, fetches, warm, cache, version>>
    BY <1>8 DEF apiVars
  <2> QED BY <2>1, <1>1, FetchesStay
<1> QED BY <1>2, <1>3, <1>4, <1>5, <1>6, <1>7, <1>8 DEF ApiNext

------------------------------------------------------------------------------
(* Paging. *)

AllInv ==
    /\ order \in Seq(Listed) /\ IsInjective(order) /\ moved \subseteq Listed
    /\ rows \in Seq(ToSet(order)) /\ offset \in Nat /\ paging \in BOOLEAN
    /\ paging => /\ Len(rows) = offset /\ offset <= Len(order)
                 /\ \A p \in 1..offset : order[p] \in moved \union ToSet(rows)
    /\ ~paging => /\ result = Capped(Deduped(rows))
                  /\ Len(rows) < offset => ToSet(order) \subseteq moved \union ToSet(rows)

\* Each key is left once, and none is lost.
LEMMA DedupedIs ==
  ASSUME NEW M, NEW s \in Seq(M)
  PROVE  Deduped(s) \in Seq(M) /\ IsInjective(Deduped(s)) /\ ToSet(Deduped(s)) = ToSet(s)
<1> DEFINE ps == {i \in DOMAIN s : \A j \in 1..(i - 1) : s[j] # s[i]}
           n == Cardinality(ps)
<1>1. ps \in SUBSET DOMAIN s /\ DOMAIN s = 1..Len(s) /\ Len(s) \in Nat
  OBVIOUS
<1>2. \A i \in ps : \A j \in 1..(i - 1) : s[j] # s[i]
  OBVIOUS
<1>3. \A i \in DOMAIN s : \E p \in ps : s[p] = s[i]
  <2> TAKE i \in DOMAIN s
  <2> DEFINE S == {k \in DOMAIN s : s[k] = s[i]}
  <2>1. S \in SUBSET Nat /\ S # {}
    BY <1>1
  <2> HIDE DEF S
  <2>2. PICK m \in S : \A k \in S : m <= k
    BY <2>1, LeastNumber
  <2>3. m \in DOMAIN s /\ s[m] = s[i]
    BY <2>2 DEF S
  <2>4. \A j \in 1..(m - 1) : s[j] # s[m]
    BY <1>1, <2>2, <2>3 DEF S
  <2> QED BY <2>3, <2>4
<1> HIDE DEF ps
<1>4. /\ n \in Nat
      /\ Picked(s, ps) \in Seq(M) /\ Len(Picked(s, ps)) = n
      /\ \A i \in 1..n : Nth(ps, i) \in ps /\ Picked(s, ps)[i] = s[Nth(ps, i)]
      /\ \A i, j \in 1..n : i < j => Nth(ps, i) < Nth(ps, j)
      /\ \A p \in ps : \E i \in 1..n : p = Nth(ps, i)
  BY <1>1, PickedIs
<1>5. Deduped(s) = Picked(s, ps)
  BY DEF Deduped, ps
<1>6. DOMAIN Deduped(s) = 1..n
  BY <1>4, <1>5
<1>7. \A i, j \in 1..n : i < j => Picked(s, ps)[i] # Picked(s, ps)[j]
  <2> TAKE i, j \in 1..n
  <2> HAVE i < j
  <2>1. Nth(ps, i) \in ps /\ Nth(ps, j) \in ps /\ Nth(ps, i) < Nth(ps, j)
    BY <1>4
  <2>2. Nth(ps, i) \in 1..(Nth(ps, j) - 1)
    BY <1>1, <2>1
  <2> QED BY <1>2, <1>4, <2>1, <2>2
<1>8. IsInjective(Deduped(s))
  <2> SUFFICES ASSUME NEW a \in 1..n, NEW b \in 1..n, Picked(s, ps)[a] = Picked(s, ps)[b]
               PROVE  a = b
    BY <1>5, <1>6 DEF IsInjective
  <2>1. ~(a < b) /\ ~(b < a)
    BY <1>7
  <2> QED BY <1>4, <2>1
<1>9. ToSet(Deduped(s)) \subseteq ToSet(s)
  BY <1>1, <1>4, <1>5, <1>6 DEF ToSet
<1>10. ToSet(s) \subseteq ToSet(Deduped(s))
  <2> SUFFICES ASSUME NEW i \in DOMAIN s PROVE s[i] \in ToSet(Deduped(s))
    BY DEF ToSet
  <2>1. PICK p \in ps : s[p] = s[i]
    BY <1>3
  <2>2. PICK k \in 1..n : p = Nth(ps, k)
    BY <1>4
  <2>3. Deduped(s)[k] = s[i]
    BY <1>4, <1>5, <2>1, <2>2
  <2> QED BY <1>6, <2>3 DEF ToSet
<1> QED BY <1>4, <1>5, <1>8, <1>9, <1>10

\* The smaller of two numbers.
LEMMA MinOfTwo ==
  \A a, b \in Nat : /\ Min({a, b}) \in Nat /\ Min({a, b}) <= a /\ Min({a, b}) <= b
                    /\ (a <= b => Min({a, b}) = a) /\ (b <= a => Min({a, b}) = b)
<1> TAKE a, b \in Nat
<1> DEFINE m == IF a <= b THEN a ELSE b
<1>1. m \in {a, b} /\ \A y \in {a, b} : m <= y
  OBVIOUS
<1>2. \A x \in {a, b} : (\A y \in {a, b} : x <= y) => x = m
  OBVIOUS
<1> HIDE DEF m
<1>3. Min({a, b}) \in {a, b} /\ \A y \in {a, b} : Min({a, b}) <= y
  BY <1>1 DEF Min
<1>4. Min({a, b}) = m
  BY <1>2, <1>3
<1> QED BY <1>4 DEF m

\* The cap keeps a beginning of the list.
LEMMA CappedIs ==
  ASSUME NEW M, NEW s \in Seq(M)
  PROVE  /\ Len(Capped(s)) <= SafetyCap /\ DOMAIN Capped(s) \subseteq DOMAIN s
         /\ \A i \in DOMAIN Capped(s) : Capped(s)[i] = s[i]
         /\ Len(s) <= SafetyCap => DOMAIN Capped(s) = DOMAIN s
<1>1. PICK l \in Nat : l = Len(s) /\ DOMAIN s = 1..l
  OBVIOUS
<1>2. PICK c \in Nat : c = SafetyCap
  BY AppApiAssumption
<1>3. PICK n \in Nat : n = Min({c, l}) /\ n <= l /\ n <= c /\ (l <= c => n = l)
  <2>1. /\ Min({c, l}) \in Nat /\ Min({c, l}) <= c /\ Min({c, l}) <= l
        /\ (c <= l => Min({c, l}) = c) /\ (l <= c => Min({c, l}) = l)
    BY MinOfTwo
  <2> QED BY <2>1
<1>4. Capped(s) = SubSeq(s, 1, n)
  BY <1>1, <1>2, <1>3 DEF Capped
<1>5. DOMAIN SubSeq(s, 1, n) = 1..n /\ Len(SubSeq(s, 1, n)) = n
  BY <1>1, <1>3
<1>6. \A i \in 1..n : SubSeq(s, 1, n)[i] = s[i]
  BY <1>1, <1>3
<1>7. 1..n \subseteq 1..l
  BY <1>3
<1> QED BY <1>1, <1>2, <1>3, <1>4, <1>5, <1>6, <1>7

LEMMA AllTells == AllInv => StillNodesKept
<1> SUFFICES ASSUME AllInv, ~paging
             PROVE  /\ Len(result) <= SafetyCap /\ IsInjective(result) /\ ToSet(result) \subseteq ToSet(order)
                    /\ Len(rows) < offset /\ Len(Deduped(rows)) <= SafetyCap => ToSet(order) \ moved \subseteq ToSet(result)
  BY DEF StillNodesKept
<1> DEFINE d == Deduped(rows)
<1>1. rows \in Seq(ToSet(order)) /\ result = Capped(d)
  BY DEF AllInv
<1>2. d \in Seq(ToSet(order)) /\ IsInjective(d) /\ ToSet(d) = ToSet(rows)
  BY <1>1, DedupedIs
<1> HIDE DEF d
<1>3. /\ Len(Capped(d)) <= SafetyCap /\ DOMAIN Capped(d) \subseteq DOMAIN d
      /\ \A i \in DOMAIN Capped(d) : Capped(d)[i] = d[i]
      /\ Len(d) <= SafetyCap => DOMAIN Capped(d) = DOMAIN d
  BY <1>2, CappedIs
<1>4. IsInjective(result)
  BY <1>1, <1>2, <1>3 DEF IsInjective
<1>5. ToSet(result) \subseteq ToSet(order)
  BY <1>1, <1>2, <1>3 DEF ToSet
<1>6. Len(rows) < offset /\ Len(d) <= SafetyCap => ToSet(order) \ moved \subseteq ToSet(result)
  <2> HAVE Len(rows) < offset /\ Len(d) <= SafetyCap
  <2>1. ToSet(order) \subseteq moved \union ToSet(rows)
    BY DEF AllInv
  <2>2. ToSet(result) = ToSet(d)
    BY <1>1, <1>3 DEF ToSet
  <2> QED BY <1>2, <2>1, <2>2
<1> QED BY <1>1, <1>3, <1>4, <1>5, <1>6 DEF d

LEMMA AllStarts == AllNodesInit => AllInv
<1> SUFFICES ASSUME AllNodesInit PROVE AllInv
  OBVIOUS
<1>1. PICK S \in SUBSET Listed : order \in SetToSeqs(S)
  BY DEF AllNodesInit
<1>2. IsFiniteSet(S) /\ Cardinality(S) \in Nat
  BY AppApiAssumption, FS_Subset, FS_CardinalityType
<1>3. order \in [1..Cardinality(S) -> S] /\ \A i, j \in 1..Cardinality(S) : i # j => order[i] # order[j]
  BY <1>1 DEF SetToSeqs
<1>4. order \in Seq(Listed) /\ IsInjective(order)
  BY <1>2, <1>3 DEF IsInjective
<1>5. rows = << >> /\ offset = 0 /\ paging = TRUE /\ moved = {}
  BY DEF AllNodesInit
<1>6. Len(order) \in Nat /\ rows \in Seq(ToSet(order)) /\ Len(rows) = 0
  BY <1>4, <1>5
<1> QED BY <1>4, <1>5, <1>6 DEF AllInv

LEMMA FetchKeeps == AllInv /\ fetchAllNodes => AllInv'
<1> SUFFICES ASSUME AllInv, fetchAllNodes PROVE AllInv'
  OBVIOUS
<1> DEFINE hi == Min({offset + PageSize, Len(order)})
           page == SubSeq(order, offset + 1, hi)
           more == offset + PageSize < SafetyCap /\ Len(page) = PageSize
<1>1. /\ paging /\ rows' = rows \o page /\ paging' = more /\ offset' = offset + PageSize
      /\ (~more => result' = Capped(Deduped(rows \o page))) /\ order' = order /\ moved' = moved
  BY DEF fetchAllNodes
<1>2. /\ order \in Seq(Listed) /\ IsInjective(order) /\ moved \subseteq Listed
      /\ rows \in Seq(ToSet(order)) /\ offset \in Nat /\ Len(rows) = offset /\ offset <= Len(order)
      /\ \A p \in 1..offset : order[p] \in moved \union ToSet(rows)
  BY <1>1 DEF AllInv
<1>3. Len(order) \in Nat /\ PageSize \in Nat \ {0} /\ DOMAIN order = 1..Len(order)
  BY <1>2, AppApiAssumption
<1>4. /\ hi \in Nat /\ hi <= Len(order)
      /\ offset + PageSize <= Len(order) => hi = offset + PageSize
      /\ Len(order) <= offset + PageSize => hi = Len(order)
  <2>1. offset + PageSize \in Nat
    BY <1>2, <1>3
  <2> QED BY <1>3, <2>1, MinOfTwo
<1>5. hi \in Nat /\ offset <= hi /\ hi <= Len(order)
  BY <1>2, <1>3, <1>4
<1> HIDE DEF hi
<1>6. \A i \in (offset + 1)..hi : order[i] \in ToSet(order)
  BY <1>2, <1>3, <1>5 DEF ToSet
<1>7. /\ page \in Seq(ToSet(order))
      /\ Len(page) = IF offset + 1 <= hi THEN hi - (offset + 1) + 1 ELSE 0
      /\ \A i \in 1..(hi - (offset + 1) + 1) : page[i] = order[(offset + 1) + i - 1]
  <2>1. offset + 1 \in Int /\ hi \in Int
    BY <1>2, <1>5
  <2> QED BY <1>6, <2>1, SubSeqProperties
<1> HIDE DEF page
<1>8. Len(page) = hi - offset /\ DOMAIN page = 1..(hi - offset)
  BY <1>2, <1>5, <1>7
<1>9. \A i \in 1..(hi - offset) : page[i] = order[offset + i]
  <2> TAKE i \in 1..(hi - offset)
  <2>1. i \in 1..(hi - (offset + 1) + 1) /\ (offset + 1) + i - 1 = offset + i
    BY <1>2, <1>5
  <2>2. page[i] = order[(offset + 1) + i - 1]
    BY <2>1, <1>7
  <2> QED BY <2>1, <2>2
<1>10. /\ rows \o page \in Seq(ToSet(order)) /\ Len(rows \o page) = hi
       /\ \A i \in 1..offset : (rows \o page)[i] = rows[i]
       /\ \A i \in 1..(hi - offset) : (rows \o page)[offset + i] = page[i]
  <2>1. /\ rows \o page \in Seq(ToSet(order)) /\ Len(rows \o page) = Len(rows) + Len(page)
        /\ \A i \in 1..Len(rows) + Len(page) :
             (rows \o page)[i] = IF i <= Len(rows) THEN rows[i] ELSE page[i - Len(rows)]
    BY <1>2, <1>7, ConcatProperties
  <2>2. Len(rows) + Len(page) = hi
    BY <1>2, <1>5, <1>8
  <2>3. \A i \in 1..hi : (rows \o page)[i] = IF i <= offset THEN rows[i] ELSE page[i - offset]
    BY <1>2, <2>1, <2>2
  <2>4. \A i \in 1..offset : i \in 1..hi /\ i <= offset
    BY <1>2, <1>5
  <2>5. \A i \in 1..(hi - offset) : (rows \o page)[offset + i] = page[i]
    <3> TAKE i \in 1..(hi - offset)
    <3>1. PICK k \in 1..hi : k = offset + i /\ ~(k <= offset) /\ k - offset = i
      BY <1>2, <1>5
    <3>2. (rows \o page)[k] = page[k - offset]
      BY <2>3, <3>1
    <3> QED BY <3>1, <3>2
  <2> QED BY <2>1, <2>2, <2>3, <2>4, <2>5
<1>11. DOMAIN (rows \o page) = 1..hi /\ DOMAIN rows = 1..offset
  BY <1>2, <1>5, <1>10
<1>12. \A p \in 1..hi : order[p] \in moved \union ToSet(rows \o page)
  <2> TAKE p \in 1..hi
  <2>1. CASE p <= offset
    <3>1. CASE order[p] \in moved
      BY <3>1
    <3>2. CASE order[p] \in ToSet(rows)
      <4>1. PICK q \in 1..offset : order[p] = rows[q]
        BY <3>2, <1>11 DEF ToSet
      <4>2. q \in 1..hi /\ (rows \o page)[q] = order[p]
        BY <4>1, <1>2, <1>5, <1>10
      <4> QED BY <4>2, <1>11 DEF ToSet
    <3> QED BY <2>1, <1>2, <1>5, <3>1, <3>2
  <2>2. CASE p > offset
    <3>1. p - offset \in 1..(hi - offset) /\ offset + (p - offset) = p
      BY <2>2, <1>2, <1>5
    <3>2. (rows \o page)[p] = order[p]
      BY <3>1, <1>9, <1>10
    <3> QED BY <3>2, <1>11 DEF ToSet
  <2> QED BY <2>1, <2>2, <1>2, <1>5
<1>13. more \in BOOLEAN /\ offset' \in Nat
  BY <1>1, <1>2, <1>3
<1>14. more => Len(rows \o page) = offset + PageSize /\ offset + PageSize <= Len(order) /\ hi = offset + PageSize
  <2>1. Len(rows \o page) = hi /\ (more => hi - offset = PageSize)
    BY <1>8, <1>10
  <2>2. more => hi = offset + PageSize
    BY <1>2, <1>3, <1>5, <2>1
  <2> QED BY <1>5, <2>1, <2>2
<1>15. Len(rows \o page) < offset + PageSize => hi = Len(order)
  <2>1. Len(rows \o page) = hi /\ offset + PageSize \in Nat
    BY <1>2, <1>3, <1>10
  <2>2. CASE offset + PageSize <= Len(order)
    <3>1. ~(hi < offset + PageSize)
      BY <2>1, <2>2, <1>4
    <3> QED BY <2>1, <3>1
  <2>3. CASE ~(offset + PageSize <= Len(order))
    <3>1. Len(order) \in Nat /\ offset + PageSize \in Nat
      BY <2>1, <1>3
    <3>2. Len(order) <= offset + PageSize
      BY <2>3, <3>1
    <3>3. hi = Len(order)
      BY <3>2, <1>4
    <3> QED BY <3>3
  <2> QED BY <2>2, <2>3
<1>16. hi = Len(order) => ToSet(order) \subseteq moved \union ToSet(rows \o page)
  BY <1>3, <1>12 DEF ToSet
<1> HIDE DEF more
<1>17. /\ order' \in Seq(Listed) /\ IsInjective(order)' /\ moved' \subseteq Listed
       /\ rows' \in Seq(ToSet(order)') /\ offset' \in Nat /\ paging' \in BOOLEAN
  <2>1. ToSet(order)' = ToSet(order) /\ IsInjective(order)' = IsInjective(order)
    BY <1>1
  <2> QED BY <2>1, <1>1, <1>2, <1>10, <1>13
<1>18. ToSet(rows)' = ToSet(rows \o page) /\ ToSet(order)' = ToSet(order)
  BY <1>1
<1>19. paging' => /\ Len(rows)' = offset' /\ offset' <= Len(order)'
                  /\ \A p \in 1..offset' : order'[p] \in moved' \union ToSet(rows)'
  BY <1>1, <1>12, <1>14, <1>18
<1>20. ~paging' => /\ result' = Capped(Deduped(rows))'
                   /\ Len(rows)' < offset' => ToSet(order)' \subseteq moved' \union ToSet(rows)'
  BY <1>1, <1>15, <1>16, <1>18
<1> QED BY <1>17, <1>19, <1>20 DEF AllInv

LEMMA HeardKeeps == ASSUME NEW n \in Listed, AllInv, NodeHeard(n) PROVE AllInv'
<1>1. /\ paging /\ offset > 0 /\ moved' = moved \union {n} /\ rows' = rows /\ offset' = offset
      /\ paging' = paging
  BY DEF NodeHeard
<1>2. PICK p \in DOMAIN order :
        /\ order[p] = n
        /\ order' = [i \in DOMAIN order |-> IF i = 1 THEN n ELSE IF i <= p THEN order[i - 1] ELSE order[i]]
  BY DEF NodeHeard
<1>3. /\ order \in Seq(Listed) /\ IsInjective(order) /\ moved \subseteq Listed
      /\ rows \in Seq(ToSet(order)) /\ offset \in Nat /\ Len(rows) = offset /\ offset <= Len(order)
      /\ \A q \in 1..offset : order[q] \in moved \union ToSet(rows)
  BY <1>1 DEF AllInv
<1>4. DOMAIN order = 1..Len(order) /\ Len(order) \in Nat /\ p \in 1..Len(order)
  BY <1>3, <1>2
<1>5. DOMAIN order' = 1..Len(order) /\ \A i \in 1..Len(order) : order'[i] = IF i = 1 THEN n ELSE IF i <= p THEN order[i - 1] ELSE order[i]
  BY <1>2, <1>4
<1>6. \A i \in 1..Len(order) : order'[i] \in Listed
  BY <1>3, <1>4, <1>5
<1>7. order' \in Seq(Listed) /\ Len(order') = Len(order)
  <2>1. order' = [i \in 1..Len(order) |-> order'[i]]
    BY <1>2, <1>4, <1>5
  <2>2. order' \in [1..Len(order) -> Listed]
    BY <2>1, <1>6
  <2> QED BY <2>2, <1>4, <1>5
\* From where the i-th came.
<1> DEFINE f(i) == IF i = 1 THEN p ELSE IF i <= p THEN i - 1 ELSE i
<1>8. \A i \in 1..Len(order) : f(i) \in 1..Len(order) /\ order'[i] = order[f(i)]
  BY <1>2, <1>4, <1>5
<1>9. \A i, j \in 1..Len(order) : f(i) = f(j) => i = j
  BY <1>4
<1>10. \A j \in 1..Len(order) : \E i \in 1..Len(order) : f(i) = j
  <2> TAKE j \in 1..Len(order)
  <2>1. CASE j = p
    <3>1. 1 \in 1..Len(order) /\ f(1) = j
      BY <2>1, <1>4
    <3> QED BY <3>1
  <2>2. CASE j < p
    <3>1. j + 1 \in 1..Len(order) /\ f(j + 1) = j
      BY <2>2, <1>4
    <3> QED BY <3>1
  <2>3. CASE j > p
    <3>1. f(j) = j
      BY <2>3, <1>4
    <3> QED BY <3>1
  <2> QED BY <2>1, <2>2, <2>3, <1>4
<1> HIDE DEF f
<1>11. IsInjective(order')
  <2>1. \A a, b \in 1..Len(order) : order[a] = order[b] => a = b
    BY <1>3, <1>4 DEF IsInjective
  <2>2. \A a, b \in 1..Len(order) : order'[a] = order'[b] => a = b
    BY <2>1, <1>8, <1>9
  <2> QED BY <2>2, <1>5 DEF IsInjective
<1>12. ToSet(order') = ToSet(order)
  <2>1. \A x \in ToSet(order') : x \in ToSet(order)
    BY <1>4, <1>5, <1>8 DEF ToSet
  <2>2. \A j \in 1..Len(order) : order[j] \in ToSet(order')
    <3> TAKE j \in 1..Len(order)
    <3>1. PICK i \in 1..Len(order) : f(i) = j
      BY <1>10
    <3>2. order'[i] = order[j]
      BY <3>1, <1>8
    <3> QED BY <3>2, <1>5 DEF ToSet
  <2> QED BY <2>1, <2>2, <1>4 DEF ToSet
<1>13. \A q \in 1..offset : order'[q] \in moved' \union ToSet(rows)
  <2> TAKE q \in 1..offset
  <2>1. CASE q = 1
    BY <2>1, <1>1, <1>3, <1>4, <1>5
  <2>2. CASE q # 1 /\ q <= p
    <3>1. q - 1 \in 1..offset /\ order'[q] = order[q - 1]
      BY <2>2, <1>3, <1>4, <1>5
    <3> QED BY <3>1, <1>1, <1>3
  <2>3. CASE q # 1 /\ ~(q <= p)
    <3>1. order'[q] = order[q]
      BY <2>3, <1>3, <1>4, <1>5
    <3> QED BY <3>1, <1>1, <1>3
  <2> QED BY <2>1, <2>2, <2>3
<1>14. /\ order' \in Seq(Listed) /\ IsInjective(order)' /\ moved' \subseteq Listed
       /\ rows' \in Seq(ToSet(order)') /\ offset' \in Nat /\ paging' \in BOOLEAN
  BY <1>1, <1>3, <1>7, <1>11, <1>12
<1>15. /\ Len(rows)' = offset' /\ offset' <= Len(order)'
       /\ \A q \in 1..offset' : order'[q] \in moved' \union ToSet(rows)'
  BY <1>1, <1>3, <1>7, <1>13
<1> QED BY <1>1, <1>14, <1>15 DEF AllInv

LEMMA AllStep == AllInv /\ [AllNodesNext]_allNodesVars => AllInv'
<1> SUFFICES ASSUME AllInv, [AllNodesNext]_allNodesVars PROVE AllInv'
  OBVIOUS
<1>1. CASE fetchAllNodes
  BY <1>1, FetchKeeps
<1>2. CASE \E n \in Listed : NodeHeard(n)
  BY <1>2, HeardKeeps
<1>3. CASE UNCHANGED allNodesVars
  BY <1>3 DEF allNodesVars, AllInv, Deduped, Capped
<1> QED BY <1>1, <1>2, <1>3 DEF AllNodesNext

------------------------------------------------------------------------------
(* Sockets and reconnects. *)

SockStates == {"connecting", "open", "closing", "failing", "closed"}

\* Unforced, there is one live socket, the newest, or one timer.
SockInv ==
    /\ socks \in Seq(SockStates) /\ Len(socks) >= 1 /\ ws = Len(socks)
    /\ reconnects \in Nat /\ forced \in Nat /\ connected \in BOOLEAN
    /\ Cardinality(Live) + reconnects = 1 + forced
    /\ forced = 0 => /\ Live \subseteq {ws}
                     /\ Live = {} => ~connected
                     /\ socks[ws] = "open" => connected
                     /\ Len(socks) > 1 /\ connected => socks[ws] \in {"open", "closing"}

LEMMA LiveFinite ==
  ASSUME socks \in Seq(SockStates)
  PROVE  IsFiniteSet(Live) /\ Cardinality(Live) \in Nat /\ DOMAIN socks = 1..Len(socks) /\ Len(socks) \in Nat
<1>1. DOMAIN socks = 1..Len(socks) /\ Len(socks) \in Nat
  OBVIOUS
<1>2. IsFiniteSet(1..Len(socks))
  <2>1. 1 \in Int /\ Len(socks) \in Int
    BY <1>1
  <2> QED BY <2>1, FS_Interval
<1>3. Live \subseteq 1..Len(socks)
  BY <1>1 DEF Live
<1> QED BY <1>1, <1>2, <1>3, FS_Subset, FS_CardinalityType

LEMMA SockTells == SockInv => SockTypeOK /\ ChainsCounted /\ LogoTellsTheTruth
<1> SUFFICES ASSUME SockInv PROVE SockTypeOK /\ ChainsCounted /\ LogoTellsTheTruth
  OBVIOUS
<1>1. socks \in Seq(SockStates)
  BY DEF SockInv
<1>2. \A i \in DOMAIN socks : socks[i] \in SockStates
  BY <1>1
<1>3. SockTypeOK
  BY <1>2 DEF SockInv, SockTypeOK, SockStates
<1>4. ChainsCounted
  BY DEF SockInv, ChainsCounted
<1>5. LogoTellsTheTruth
  BY DEF SockInv, LogoTellsTheTruth
<1> QED BY <1>3, <1>4, <1>5

LEMMA SockStarts == SockInit => SockInv
<1> SUFFICES ASSUME SockInit PROVE SockInv
  OBVIOUS
<1>1. socks = <<"connecting">> /\ ws = 1 /\ reconnects = 0 /\ connected = TRUE /\ forced = 0
  BY DEF SockInit
<1>2. socks \in Seq(SockStates) /\ Len(socks) = 1 /\ DOMAIN socks = {1} /\ socks[1] = "connecting"
  BY <1>1 DEF SockStates
<1>3. Live = {1}
  BY <1>2 DEF Live
<1>4. Cardinality(Live) = 1
  BY <1>3, FS_Singleton
<1> QED BY <1>1, <1>2, <1>3, <1>4 DEF SockInv

\* What close() leaves alive.
LEMMA ClosedIs ==
  ASSUME NEW ss \in Seq(SockStates), NEW i \in DOMAIN ss
  PROVE  /\ Closed(ss, i) \in Seq(SockStates) /\ Len(Closed(ss, i)) = Len(ss) /\ DOMAIN Closed(ss, i) = DOMAIN ss
         /\ \A j \in DOMAIN ss : j # i => Closed(ss, i)[j] = ss[j]
         /\ Closed(ss, i)[i] = CASE ss[i] = "open" -> "closing" [] ss[i] = "connecting" -> "failing" [] OTHER -> ss[i]
         /\ \A j \in DOMAIN ss : Closed(ss, i)[j] = "closed" <=> ss[j] = "closed"
<1>1. ss[i] \in SockStates /\ "closing" \in SockStates /\ "failing" \in SockStates
  BY DEF SockStates
<1>2. CASE ss[i] = "open"
  BY <1>1, <1>2 DEF Closed
<1>3. CASE ss[i] = "connecting"
  BY <1>1, <1>3 DEF Closed
<1>4. CASE ss[i] # "open" /\ ss[i] # "connecting"
  BY <1>1, <1>4 DEF Closed
<1> QED BY <1>2, <1>3, <1>4

LEMMA OpenKeeps == ASSUME NEW i \in DOMAIN socks, SockInv, onopen(i) PROVE SockInv'
<1>1. /\ socks \in Seq(SockStates) /\ Len(socks) >= 1 /\ ws = Len(socks) /\ socks[i] = "connecting"
      /\ forced = 0 => Live \subseteq {ws}
  BY DEF SockInv, onopen
<1>2. socks' = [socks EXCEPT ![i] = "open"] /\ connected' = TRUE /\ ws' = ws /\ reconnects' = reconnects /\ forced' = forced
  BY DEF onopen
<1>3. DOMAIN socks = 1..Len(socks) /\ Len(socks) \in Nat
  BY <1>1
<1>4. /\ socks' \in Seq(SockStates) /\ Len(socks') = Len(socks) /\ DOMAIN socks' = DOMAIN socks
      /\ socks'[i] = "open" /\ \A j \in DOMAIN socks : j # i => socks'[j] = socks[j]
  BY <1>1, <1>2 DEF SockStates
<1>5. Live' = Live /\ i \in Live
  BY <1>1, <1>4 DEF Live
<1>6. forced = 0 => i = ws
  BY <1>1, <1>5
<1>7. forced' = 0 => /\ Live' \subseteq {ws'}
                     /\ Live' = {} => ~connected'
                     /\ socks'[ws'] = "open" => connected'
                     /\ Len(socks') > 1 /\ connected' => socks'[ws'] \in {"open", "closing"}
  BY <1>1, <1>2, <1>4, <1>5, <1>6
<1> QED BY <1>1, <1>2, <1>4, <1>5, <1>7 DEF SockInv

LEMMA ErrorKeeps == ASSUME NEW i \in DOMAIN socks, SockInv, onerror(i) PROVE SockInv'
<1> DEFINE ss == [socks EXCEPT ![i] = "closing"]
<1>1. /\ socks \in Seq(SockStates) /\ Len(socks) >= 1 /\ ws = Len(socks) /\ socks[i] \in {"connecting", "failing"}
      /\ forced = 0 => /\ Live \subseteq {ws} /\ (Len(socks) > 1 /\ connected => socks[ws] \in {"open", "closing"})
  BY DEF SockInv, onerror
<1>2. socks' = Closed(ss, ws) /\ connected' = connected /\ ws' = ws /\ reconnects' = reconnects /\ forced' = forced
  BY DEF onerror
<1>3. DOMAIN socks = 1..Len(socks) /\ Len(socks) \in Nat /\ ws \in DOMAIN socks
  BY <1>1
<1>4. /\ ss \in Seq(SockStates) /\ Len(ss) = Len(socks) /\ DOMAIN ss = DOMAIN socks
      /\ ss[i] = "closing" /\ \A j \in DOMAIN socks : j # i => ss[j] = socks[j]
  BY <1>1 DEF SockStates
<1> HIDE DEF ss
<1>5. /\ socks' \in Seq(SockStates) /\ Len(socks') = Len(ss) /\ DOMAIN socks' = DOMAIN ss
      /\ \A j \in DOMAIN ss : socks'[j] = "closed" <=> ss[j] = "closed"
      /\ socks'[ws] = CASE ss[ws] = "open" -> "closing" [] ss[ws] = "connecting" -> "failing" [] OTHER -> ss[ws]
  BY <1>2, <1>3, <1>4, ClosedIs
<1>6. Live' = Live /\ i \in Live
  BY <1>1, <1>4, <1>5 DEF Live
<1>7. forced = 0 => i = ws /\ socks'[ws] = "closing"
  BY <1>1, <1>4, <1>5, <1>6
<1>8. forced' = 0 => /\ Live' \subseteq {ws'}
                     /\ Live' = {} => ~connected'
                     /\ socks'[ws'] = "open" => connected'
                     /\ Len(socks') > 1 /\ connected' => socks'[ws'] \in {"open", "closing"}
  BY <1>1, <1>2, <1>4, <1>5, <1>6, <1>7
<1>9. /\ socks' \in Seq(SockStates) /\ Len(socks') >= 1 /\ ws' = Len(socks')
      /\ reconnects' \in Nat /\ forced' \in Nat /\ connected' \in BOOLEAN
      /\ Cardinality(Live') + reconnects' = 1 + forced'
  BY <1>1, <1>2, <1>4, <1>5, <1>6 DEF SockInv
<1> QED BY <1>8, <1>9 DEF SockInv

LEMMA CloseKeeps == ASSUME NEW i \in DOMAIN socks, SockInv, onclose(i) PROVE SockInv'
<1>1. /\ socks \in Seq(SockStates) /\ Len(socks) >= 1 /\ ws = Len(socks) /\ socks[i] \in {"open", "closing"}
      /\ reconnects \in Nat /\ forced \in Nat /\ Cardinality(Live) + reconnects = 1 + forced
      /\ forced = 0 => Live \subseteq {ws}
  BY DEF SockInv, onclose
<1>2. socks' = [socks EXCEPT ![i] = "closed"] /\ connected' = FALSE /\ ws' = ws /\ reconnects' = reconnects + 1 /\ forced' = forced
  BY DEF onclose
<1>3. /\ socks' \in Seq(SockStates) /\ Len(socks') = Len(socks) /\ DOMAIN socks' = DOMAIN socks
      /\ socks'[i] = "closed" /\ \A j \in DOMAIN socks : j # i => socks'[j] = socks[j]
  BY <1>1, <1>2 DEF SockStates
<1>4. Live' = Live \ {i} /\ i \in Live
  BY <1>1, <1>3 DEF Live
<1>5. IsFiniteSet(Live) /\ Cardinality(Live) \in Nat
  BY <1>1, LiveFinite
<1>6. Cardinality(Live \ {i}) = Cardinality(Live) - 1
  BY <1>4, <1>5, FS_RemoveElement
<1>7. Cardinality(Live') + reconnects' = 1 + forced'
  BY <1>1, <1>2, <1>4, <1>5, <1>6
<1>8. forced = 0 => i = ws
  BY <1>1, <1>4
<1>9. forced' = 0 => /\ Live' \subseteq {ws'}
                     /\ Live' = {} => ~connected'
                     /\ socks'[ws'] = "open" => connected'
                     /\ Len(socks') > 1 /\ connected' => socks'[ws'] \in {"open", "closing"}
  BY <1>1, <1>2, <1>3, <1>4, <1>8
<1>10. /\ socks' \in Seq(SockStates) /\ Len(socks') >= 1 /\ ws' = Len(socks')
       /\ reconnects' \in Nat /\ forced' \in Nat /\ connected' \in BOOLEAN
  <2>1. Len(socks) \in Nat /\ reconnects + 1 \in Nat
    BY <1>1
  <2> QED BY <2>1, <1>1, <1>2, <1>3
<1> QED BY <1>7, <1>9, <1>10 DEF SockInv

\* A new socket is one more alive.
LEMMA Connected ==
  ASSUME NEW ss \in Seq(SockStates), socks \in Seq(SockStates), DOMAIN ss = DOMAIN socks, Len(ss) = Len(socks),
         \A j \in DOMAIN ss : ss[j] = "closed" <=> socks[j] = "closed", connectWS(ss)
  PROVE  /\ socks' \in Seq(SockStates) /\ Len(socks') = Len(socks) + 1 /\ ws' = Len(socks')
         /\ socks'[ws'] = "connecting" /\ Live' = Live \union {ws'} /\ Cardinality(Live') = Cardinality(Live) + 1
<1> DEFINE n == Len(ss) + 1
<1>1. socks' = Append(ss, "connecting") /\ ws' = n /\ "connecting" \in SockStates
  BY DEF connectWS, SockStates
<1>2. Len(ss) \in Nat /\ DOMAIN ss = 1..Len(ss)
  OBVIOUS
<1>3. /\ socks' \in Seq(SockStates) /\ Len(socks') = n /\ DOMAIN socks' = 1..n
      /\ socks'[n] = "connecting" /\ \A j \in DOMAIN ss : socks'[j] = ss[j]
  BY <1>1, <1>2
<1>4. Live' = Live \union {n} /\ n \notin Live
  BY <1>2, <1>3 DEF Live
<1>5. IsFiniteSet(Live) /\ Cardinality(Live) \in Nat
  BY LiveFinite
<1>6. Cardinality(Live \union {n}) = Cardinality(Live) + 1
  BY <1>4, <1>5, FS_AddElement
<1> QED BY <1>1, <1>3, <1>4, <1>6

LEMMA ReconnectKeeps == SockInv /\ Reconnect => SockInv'
<1> SUFFICES ASSUME SockInv, Reconnect PROVE SockInv'
  OBVIOUS
<1>1. /\ socks \in Seq(SockStates) /\ Len(socks) >= 1 /\ ws = Len(socks) /\ Len(socks) \in Nat
      /\ reconnects \in Nat /\ forced \in Nat /\ connected \in BOOLEAN /\ Cardinality(Live) + reconnects = 1 + forced
      /\ forced = 0 /\ Live = {} => ~connected
  BY DEF SockInv
<1>2. reconnects > 0 /\ connectWS(socks) /\ connected' = connected /\ reconnects' = reconnects - 1 /\ forced' = forced
  BY DEF Reconnect
<1>3. /\ socks' \in Seq(SockStates) /\ Len(socks') = Len(socks) + 1 /\ ws' = Len(socks')
      /\ socks'[ws'] = "connecting" /\ Live' = Live \union {ws'} /\ Cardinality(Live') = Cardinality(Live) + 1
  BY <1>1, <1>2, Connected
<1>4. IsFiniteSet(Live) /\ Cardinality(Live) \in Nat
  BY <1>1, LiveFinite
<1>5. forced = 0 => Live = {}
  <2> HAVE forced = 0
  <2>1. Cardinality(Live) = 0
    BY <1>1, <1>2, <1>4
  <2> QED BY <2>1, <1>4, FS_EmptySet
<1>6. Cardinality(Live') + reconnects' = 1 + forced'
  BY <1>1, <1>2, <1>3, <1>4
<1>7. forced' = 0 => /\ Live' \subseteq {ws'}
                     /\ Live' = {} => ~connected'
                     /\ socks'[ws'] = "open" => connected'
                     /\ Len(socks') > 1 /\ connected' => socks'[ws'] \in {"open", "closing"}
  BY <1>1, <1>2, <1>3, <1>5
<1>8. Len(socks') >= 1 /\ reconnects' \in Nat /\ forced' \in Nat /\ connected' \in BOOLEAN
  BY <1>1, <1>2, <1>3
<1> QED BY <1>3, <1>6, <1>7, <1>8 DEF SockInv

LEMMA PullKeeps == SockInv /\ pullReconnect => SockInv'
<1> SUFFICES ASSUME SockInv, pullReconnect PROVE SockInv'
  OBVIOUS
<1> DEFINE ss == Closed(socks, ws)
<1>1. /\ socks \in Seq(SockStates) /\ Len(socks) >= 1 /\ ws = Len(socks) /\ Len(socks) \in Nat
      /\ reconnects \in Nat /\ forced \in Nat /\ connected \in BOOLEAN /\ Cardinality(Live) + reconnects = 1 + forced
      /\ forced = 0 => /\ Live \subseteq {ws}
                       /\ Live = {} => ~connected
                       /\ socks[ws] = "open" => connected
  BY DEF SockInv
<1>2. ws \in DOMAIN socks
  BY <1>1
<1>3. /\ ss \in Seq(SockStates) /\ Len(ss) = Len(socks) /\ DOMAIN ss = DOMAIN socks
      /\ \A j \in DOMAIN socks : ss[j] = "closed" <=> socks[j] = "closed"
      /\ ss[ws] = CASE socks[ws] = "open" -> "closing" [] socks[ws] = "connecting" -> "failing" [] OTHER -> socks[ws]
  BY <1>1, <1>2, ClosedIs
<1>4. reconnects' = reconnects /\ connected' = connected
  BY DEF pullReconnect
<1>5. CASE socks[ws] = "open"
  <2>1. socks' = ss /\ ws' = ws /\ forced' = forced /\ ss[ws] = "closing"
    BY <1>3, <1>5 DEF pullReconnect
  <2> HIDE DEF ss
  <2>2. Live' = Live
    BY <2>1, <1>3 DEF Live
  <2> QED BY <2>1, <2>2, <1>1, <1>3, <1>4, <1>5 DEF SockInv
<1>6. CASE socks[ws] # "open"
  <2>1. connectWS(ss) /\ forced' = forced + 1
    BY <1>6 DEF pullReconnect
  <2> HIDE DEF ss
  <2>2. /\ socks' \in Seq(SockStates) /\ Len(socks') = Len(socks) + 1 /\ ws' = Len(socks')
        /\ Cardinality(Live') = Cardinality(Live) + 1
    BY <2>1, <1>1, <1>3, Connected
  <2>3. Cardinality(Live) \in Nat
    BY <1>1, LiveFinite
  <2>4. Cardinality(Live') + reconnects' = 1 + forced'
    BY <2>1, <2>2, <2>3, <1>1, <1>4
  <2> QED BY <2>1, <2>2, <2>4, <1>1, <1>4 DEF SockInv
<1> QED BY <1>5, <1>6

LEMMA SockStep == SockInv /\ [SockNext]_sockVars => SockInv'
<1> SUFFICES ASSUME SockInv, [SockNext]_sockVars PROVE SockInv'
  OBVIOUS
<1>1. ASSUME NEW i \in DOMAIN socks, onopen(i) \/ onerror(i) \/ onclose(i) PROVE SockInv'
  BY <1>1, OpenKeeps, ErrorKeeps, CloseKeeps
<1>2. CASE Reconnect
  BY <1>2, ReconnectKeeps
<1>3. CASE pullReconnect
  BY <1>3, PullKeeps
<1>4. CASE UNCHANGED sockVars
  BY <1>4 DEF sockVars, SockInv, Live
<1> QED BY <1>1, <1>2, <1>3, <1>4 DEF SockNext

------------------------------------------------------------------------------
(* The logo and the batches. *)

LogoInv == logoOn \in BOOLEAN /\ hidden \in BOOLEAN /\ NoZombiePulse

LEMMA LogoStarts == LogoInit => LogoInv
  BY DEF LogoInit, LogoInv, NoZombiePulse

LEMMA LogoStep == LogoInv /\ [LogoNext]_logoVars => LogoInv'
<1> SUFFICES ASSUME LogoInv, [LogoNext]_logoVars PROVE LogoInv'
  OBVIOUS
<1> USE DEF LogoInv, NoZombiePulse
<1>1. CASE pulse
  BY <1>1 DEF pulse
<1>2. ASSUME NEW on \in BOOLEAN, setConnected(on) PROVE LogoInv'
  BY <1>2 DEF setConnected
<1>3. CASE visibilitychange
  BY <1>3 DEF visibilitychange
<1>4. ASSUME NEW i \in DOMAIN pulses, srcHalfEnds(i) PROVE LogoInv'
  BY <1>4 DEF srcHalfEnds
<1>5. ASSUME NEW i \in DOMAIN pulses, dstHalf(i) PROVE LogoInv'
  BY <1>5 DEF dstHalf, Cancelled
<1>6. ASSUME NEW i \in DOMAIN pulses, dstHalfEnds(i) PROVE LogoInv'
  BY <1>6 DEF dstHalfEnds
<1>7. CASE UNCHANGED logoVars
  BY <1>7 DEF logoVars
<1> QED BY <1>1, <1>2, <1>3, <1>4, <1>5, <1>6, <1>7 DEF LogoNext

BatchInv ==
    /\ sent \in Nat /\ heard \in Seq(Nat) /\ pending \in Seq(Nat) /\ batches \in Seq(Nat)
    /\ wsListening \in BOOLEAN /\ batchTimer \in BOOLEAN
    /\ EveryMessageOnce

LEMMA BatchStarts == WsInit => BatchInv
<1> SUFFICES ASSUME WsInit PROVE BatchInv
  OBVIOUS
<1>1. << >> \in Seq(Nat)
  OBVIOUS
<1>2. << >> \o << >> = << >>
  BY <1>1, ConcatEmptySeq
<1> QED BY <1>1, <1>2 DEF WsInit, BatchInv, EveryMessageOnce

LEMMA AppendMoves ==
  ASSUME NEW a \in Seq(Nat), NEW b \in Seq(Nat), NEW x \in Nat
  PROVE  a \o Append(b, x) = Append(a \o b, x)
<1>1. Append(b, x) = b \o <<x>>
  BY AppendIsConcat, Zenon
<1>2. a \o b \in Seq(Nat) /\ <<x>> \in Seq(Nat)
  OBVIOUS
<1>3. Append(a \o b, x) = (a \o b) \o <<x>>
  BY <1>2, AppendIsConcat, Zenon
<1>4. (a \o b) \o <<x>> = a \o (b \o <<x>>)
  BY <1>2, ConcatAssociative
<1> QED BY <1>1, <1>3, <1>4, Zenon

LEMMA BatchStep == BatchInv /\ [WsNext]_wsVars => BatchInv'
<1> SUFFICES ASSUME BatchInv, [WsNext]_wsVars PROVE BatchInv'
  OBVIOUS
<1>1. CASE onWS
  BY <1>1 DEF onWS, BatchInv, EveryMessageOnce
<1>2. CASE offWS
  BY <1>2 DEF offWS, BatchInv, EveryMessageOnce
<1>3. CASE onmessage
  <2>1. /\ sent \in Nat /\ heard \in Seq(Nat) /\ pending \in Seq(Nat) /\ batches \in Seq(Nat)
        /\ batches \o pending = heard /\ (pending # << >> => batchTimer)
        /\ sent' = sent + 1 /\ wsListening' = wsListening /\ batches' = batches /\ batchTimer' = (batchTimer \/ wsListening)
    BY <1>3 DEF onmessage, BatchInv, EveryMessageOnce
  <2>2. sent' \in Nat
    BY <2>1
  <2>3. CASE wsListening
    <3>1. heard' = Append(heard, sent') /\ pending' = Append(pending, sent')
      BY <2>3, <1>3 DEF onmessage
    <3>2. batches \o Append(pending, sent') = Append(batches \o pending, sent')
      BY <2>1, <2>2, AppendMoves
    <3>3. heard' \in Seq(Nat) /\ pending' \in Seq(Nat)
      BY <3>1, <2>1, <2>2
    <3> QED BY <2>1, <2>2, <2>3, <3>1, <3>2, <3>3 DEF BatchInv, EveryMessageOnce
  <2>4. CASE ~wsListening
    <3>1. heard' = heard /\ pending' = pending
      BY <2>4, <1>3 DEF onmessage
    <3> QED BY <2>1, <2>2, <2>4, <3>1 DEF BatchInv, EveryMessageOnce
  <2> QED BY <2>3, <2>4
<1>4. CASE debouncedFlush
  <2>1. /\ sent \in Nat /\ heard \in Seq(Nat) /\ pending \in Seq(Nat) /\ batches \in Seq(Nat)
        /\ batches \o pending = heard
        /\ batches' = batches \o pending /\ pending' = << >> /\ batchTimer' = FALSE
        /\ sent' = sent /\ wsListening' = wsListening /\ heard' = heard
    BY <1>4 DEF debouncedFlush, BatchInv, EveryMessageOnce
  <2>2. heard \o << >> = heard
    BY <2>1, ConcatEmptySeq
  <2>3. << >> \in Seq(Nat)
    OBVIOUS
  <2> QED BY <2>1, <2>2, <2>3 DEF BatchInv, EveryMessageOnce
<1>5. CASE UNCHANGED wsVars
  BY <1>5 DEF wsVars, BatchInv, EveryMessageOnce
<1> QED BY <1>1, <1>2, <1>3, <1>4, <1>5 DEF WsNext

------------------------------------------------------------------------------
(* The banner of the server's warm-up. *)

WarmInv ==
    /\ wbTimer \in BOOLEAN /\ wbServer \in 1..3
    /\ wbPoll.at # "none" => wbTimer
    /\ wbStatus = "loading" \/ wbHealth.phase \in {1, 2} => wbTimer
    /\ wbShown = getWarmupMessages(wbHealth, wbStatus)

LEMMA WarmTells == WarmInv => WarmupPolled
  BY DEF WarmInv, WarmupPolled, getWarmupMessages

LEMMA WarmStarts == WarmInit => WarmInv
<1> SUFFICES ASSUME WarmInit PROVE WarmInv
  OBVIOUS
<1>1. wbTimer = TRUE /\ wbServer \in 1..3 /\ wbHealth = NoHealth /\ wbStatus = "" /\ wbShown = {}
  BY DEF WarmInit
<1>2. NoHealth.phase = 0 /\ NoHealth.silent = FALSE
  BY DEF NoHealth
<1>3. wbHealth.phase = 0 /\ wbHealth.silent = FALSE
  BY <1>1, <1>2
<1>4. wbStatus # "loading"
  BY <1>1
<1>5. wbHealth.phase \notin {1, 2} /\ wbHealth.phase # 1
  BY <1>3
<1>6. getWarmupMessages(wbHealth, wbStatus) = {}
  BY <1>3, <1>4, <1>5 DEF getWarmupMessages
<1> QED BY <1>1, <1>4, <1>5, <1>6 DEF WarmInv

LEMMA WarmStep == WarmInv /\ [WarmNext]_wbVars => WarmInv'
<1> SUFFICES ASSUME WarmInv, [WarmNext]_wbVars PROVE WarmInv'
  OBVIOUS
<1>0. /\ wbTimer \in BOOLEAN /\ wbServer \in 1..3 /\ (wbPoll.at # "none" => wbTimer)
      /\ (wbStatus = "loading" \/ wbHealth.phase \in {1, 2} => wbTimer)
      /\ wbShown = getWarmupMessages(wbHealth, wbStatus)
  BY DEF WarmInv
<1>1. CASE pollOnce
  BY <1>1 DEF pollOnce, WarmInv
<1>2. CASE pollHeader
  <2>1. setLoadStatus(LoadStatus(wbServer)) /\ wbTimer' = (wbTimer \/ (wbStatus' = "loading" /\ wbStatus' # wbStatus)) /\ wbTimer
        /\ wbHealth' = wbHealth /\ wbServer' = wbServer
    BY <1>0, <1>2 DEF pollHeader
  <2>2. wbShown' = getWarmupMessages(wbHealth', wbStatus')
    BY <1>0, <2>1 DEF setLoadStatus, renderBanner
  <2> QED BY <1>0, <2>1, <2>2 DEF WarmInv
<1>3. CASE pollBody
  <2>1. /\ wbTimer /\ wbPoll' = NoPoll /\ wbHealth' = wbPoll.body /\ wbStatus' = wbStatus /\ wbServer' = wbServer
        /\ wbTimer' = (wbTimer /\ ~(isSteadyState(wbHealth') /\ wbStatus # "loading"))
        /\ wbShown' = getWarmupMessages(wbHealth', wbStatus)
    BY <1>0, <1>3 DEF pollBody, renderBanner
  <2>2. wbTimer' \in BOOLEAN /\ (wbStatus' = "loading" \/ wbHealth'.phase \in {1, 2} => wbTimer')
    <3>1. wbHealth'.phase \in {1, 2} => ~isSteadyState(wbHealth')
      BY DEF isSteadyState
    <3>2. wbStatus' = "loading" => wbStatus = "loading"
      BY <2>1
    <3> QED BY <2>1, <3>1, <3>2, Zenon
  <2>3. wbPoll'.at = "none"
    BY <2>1 DEF NoPoll
  <2> QED BY <1>0, <2>1, <2>2, <2>3 DEF WarmInv
<1>4. CASE pollFails
  BY <1>4 DEF pollFails, WarmInv, NoPoll
<1>5. CASE otherRequest
  BY <1>5 DEF otherRequest, WarmInv
<1>6. ASSUME NEW v \in {"loading", "ready"}, installFetchInterceptor(v) PROVE WarmInv'
  <2>1. setLoadStatus(v) /\ wbHealth' = wbHealth /\ wbServer' = wbServer
    BY <1>6 DEF installFetchInterceptor, noteLoadStatus
  <2>2. wbShown' = getWarmupMessages(wbHealth', wbStatus') /\ wbStatus' = v
    BY <1>0, <2>1 DEF setLoadStatus, renderBanner
  <2>3. CASE v # wbStatus /\ v = "loading"
    <3>1. wbTimer' = TRUE
      BY <1>6, <2>3 DEF installFetchInterceptor, noteLoadStatus, startPolling
    <3> QED BY <1>0, <2>1, <2>2, <3>1 DEF WarmInv
  <2>4. CASE ~(v # wbStatus /\ v = "loading")
    <3>1. wbTimer' = wbTimer /\ wbPoll' = wbPoll
      BY <1>6, <2>4 DEF installFetchInterceptor, noteLoadStatus
    <3> QED BY <1>0, <2>1, <2>2, <2>4, <3>1 DEF WarmInv
  <2> QED BY <2>3, <2>4
<1>7. CASE serverAdvances
  BY <1>7 DEF serverAdvances, WarmInv
<1>8. CASE serverRestarts
  BY <1>8 DEF serverRestarts, WarmInv
<1>9. CASE sourceSilent
  BY <1>9 DEF sourceSilent, WarmInv
<1>10. CASE UNCHANGED wbVars
  BY <1>10 DEF wbVars, WarmInv
<1> QED BY <1>1, <1>2, <1>3, <1>4, <1>5, <1>6, <1>7, <1>8, <1>9, <1>10 DEF WarmNext

------------------------------------------------------------------------------
(* The parts of the net side by side. *)

NetSpec ==
    /\ ApiInit /\ [][ApiNext]_apiVars
    /\ AllNodesInit /\ [][AllNodesNext]_allNodesVars
    /\ SockInit /\ [][SockNext]_sockVars
    /\ LogoInit /\ [][LogoNext]_logoVars
    /\ WsInit /\ [][WsNext]_wsVars
    /\ WarmInit /\ [][WarmNext]_wbVars

\* The table of requests names the one open fetch of each path and the
\* warm-up counter counts the open fetches that met a 503 (api of app.js).
THEOREM ApiThm == ApiInit /\ [][ApiNext]_apiVars => [](WarmupBalanced /\ OneFetchPerPath)
<1>1. ApiInv => WarmupBalanced /\ OneFetchPerPath
  BY ApiTells
<1> QED BY ApiStarts, ApiStep, <1>1, PTL

\* Paging that a short page ended returns every node that kept its place in
\* the list, for any list, page size and cap (fetchAllNodes of app.js).
THEOREM StillNodesThm == AllNodesInit /\ [][AllNodesNext]_allNodesVars => []StillNodesKept
  BY AllStarts, AllStep, AllTells, PTL

\* There is always a socket or a timer left, and only pulls made while no
\* socket was open add one (connectWS and pullReconnect of app.js).
THEOREM SocketsThm == SockInit /\ [][SockNext]_sockVars => [](ChainsCounted /\ LogoTellsTheTruth)
<1>1. SockInv => ChainsCounted /\ LogoTellsTheTruth
  BY SockTells
<1> QED BY SockStarts, SockStep, <1>1, PTL

\* Requests, pages, sockets, pulses, messages and polls are each accounted
\* for in every interleaving of their steps (app.js and warmup-banner.js).
THEOREM NetAccountedThm == NetSpec => []NetAccounted
<1>1. ApiInv /\ AllInv /\ SockInv /\ LogoInv /\ BatchInv /\ WarmInv => NetAccounted
  BY ApiTells, AllTells, SockTells, WarmTells DEF LogoInv, BatchInv, NetAccounted
<1> QED BY ApiStarts, ApiStep, AllStarts, AllStep, SockStarts, SockStep, LogoStarts, LogoStep, BatchStarts, BatchStep,
           WarmStarts, WarmStep, <1>1, PTL DEF NetSpec
------------------------------------------------------------------------------
(* The region and the area bar. *)

\* Once the newest bar was filled, the codes are there or all have failed.
BarInv ==
    /\ rgServer \subseteq RgCodes /\ rgCodes \subseteq RgCodes /\ rgShown.codes \subseteq RgCodes
    /\ rgBar \in Nat /\ rgAsks \subseteq 1..rgBar /\ rgLost \in BOOLEAN /\ rgLoaded \in BOOLEAN
    /\ rgLoaded => rgSel \subseteq RgCodes \union rgLinked
    /\ ~rgLost /\ rgLoaded => rgCodes = rgServer
    /\ ~rgLost /\ rgBar > 0 /\ rgBar \notin rgAsks =>
         rgShown = render(rgCodes, rgSel) /\ (rgLoaded \/ rgAsks = {})

LEMMA BarTells == BarInv => BarIsTruthful /\ StoredIsKnown
<1> SUFFICES ASSUME BarInv PROVE BarIsTruthful /\ StoredIsKnown
  OBVIOUS
<1>1. BarIsTruthful
  BY DEF BarInv, BarIsTruthful
<1>2. StoredIsKnown
  BY DEF BarInv, StoredIsKnown
<1> QED BY <1>1, <1>2

LEMMA RenderedCodes == \A c, s : render(c, s).codes \subseteq c /\ Nothing.codes = {}
<1> TAKE c, s
<1>1. CASE Cardinality(c) < 2
  <2>1. render(c, s) = Nothing
    BY <1>1 DEF render
  <2> QED BY <2>1 DEF Nothing
<1>2. CASE ~(Cardinality(c) < 2) /\ Cardinality(c) > RgPills
  BY <1>2 DEF render, renderDropdown, Nothing
<1>3. CASE ~(Cardinality(c) < 2) /\ ~(Cardinality(c) > RgPills)
  BY <1>3 DEF render, renderPills, Nothing
<1> QED BY <1>1, <1>2, <1>3

LEMMA OneMore == ASSUME NEW n \in Nat, NEW A \in SUBSET (1..n)
                 PROVE  n + 1 \in Nat /\ A \subseteq 1..(n + 1) /\ n + 1 \in 1..(n + 1)
  OBVIOUS

LEMMA BarStarts == FilterInit => BarInv
<1> SUFFICES ASSUME FilterInit PROVE BarInv
  OBVIOUS
<1>1. rgShown.codes = {}
  BY RenderedCodes DEF FilterInit
<1>2. rgServer \subseteq RgCodes
  BY DEF FilterInit
<1>3. rgCodes = {} /\ rgLoaded = FALSE /\ rgAsks = {} /\ rgBar = 0 /\ rgLost = FALSE
  BY DEF FilterInit
<1>4. rgBar \in Nat /\ ~(rgBar > 0)
  BY <1>3
<1> QED BY <1>1, <1>2, <1>3, <1>4 DEF BarInv

LEMMA BarStep == BarInv /\ [FilterNext]_filterVars => BarInv'
<1> SUFFICES ASSUME BarInv, [FilterNext]_filterVars PROVE BarInv'
  OBVIOUS
<1>0. /\ rgServer \subseteq RgCodes /\ rgCodes \subseteq RgCodes /\ rgShown.codes \subseteq RgCodes
      /\ rgBar \in Nat /\ rgAsks \subseteq 1..rgBar /\ rgLost \in BOOLEAN /\ rgLoaded \in BOOLEAN
      /\ (rgLoaded => rgSel \subseteq RgCodes \union rgLinked)
      /\ (~rgLost /\ rgLoaded => rgCodes = rgServer)
      /\ (~rgLost /\ rgBar > 0 /\ rgBar \notin rgAsks =>
            rgShown = render(rgCodes, rgSel) /\ (rgLoaded \/ rgAsks = {}))
  BY DEF BarInv
<1>1. CASE initFilter
  <2>1. /\ rgBar' = rgBar + 1
        /\ UNCHANGED <<rgCodes, rgSel, rgStored, rgLoaded, rgLinked, rgServer, rgLost>>
    BY <1>1 DEF initFilter
  <2>2. CASE rgLoaded
    <3>1. rgShown' = render(rgCodes, rgSel) /\ rgAsks' = rgAsks
      BY <1>1, <2>2 DEF initFilter
    <3>2. rgShown'.codes \subseteq RgCodes
      BY <3>1, <1>0, RenderedCodes
    <3>3. rgShown' = render(rgCodes', rgSel')
      BY <3>1, <2>1
    <3>4. rgBar' \in Nat /\ rgAsks' \subseteq 1..rgBar'
      BY <1>0, <2>1, <3>1, OneMore
    <3> QED BY <1>0, <2>1, <2>2, <3>2, <3>3, <3>4 DEF BarInv
  <2>3. CASE ~rgLoaded
    <3>1. rgShown' = Nothing /\ rgAsks' = rgAsks \union {rgBar + 1}
      BY <1>1, <2>3 DEF initFilter
    <3>2. rgShown'.codes \subseteq RgCodes
      BY <3>1, RenderedCodes
    <3>3. rgBar' \in Nat /\ rgAsks' \subseteq 1..rgBar' /\ rgBar' \in rgAsks'
      <4>1. rgBar + 1 \in Nat /\ rgAsks \subseteq 1..(rgBar + 1) /\ rgBar + 1 \in 1..(rgBar + 1)
        BY <1>0, OneMore
      <4> QED BY <2>1, <3>1, <4>1
    <3> QED BY <1>0, <2>1, <2>3, <3>2, <3>3 DEF BarInv
  <2> QED BY <2>2, <2>3
<1>2. CASE showAllSet
  BY <1>2 DEF showAllSet, BarInv
<1>3. ASSUME NEW b \in rgAsks, fetchRegions(b) PROVE BarInv'
  <2> DEFINE sel == cleaned(rgSel, rgServer)
  <2>1. /\ rgAsks' = rgAsks \ {b} /\ rgCodes' = rgServer /\ rgLoaded' = TRUE /\ rgSel' = sel
        /\ rgShown' = (IF b = rgBar THEN render(rgServer, sel) ELSE rgShown)
        /\ rgLost' = (rgLost \/ (b # rgBar /\ sel # rgSel)) /\ UNCHANGED <<rgBar, rgServer>>
    BY <1>3 DEF fetchRegions
  <2>2. sel \subseteq RgCodes
    BY <1>0 DEF cleaned
  <2> HIDE DEF sel
  <2>3. rgShown'.codes \subseteq RgCodes
    <3>1. render(rgServer, sel).codes \subseteq RgCodes
      BY <1>0, RenderedCodes
    <3> QED BY <1>0, <2>1, <3>1
  <2>4. ~rgLost' /\ rgBar' > 0 /\ rgBar' \notin rgAsks' => rgShown' = render(rgCodes', rgSel')
    <3> HAVE ~rgLost' /\ rgBar' > 0 /\ rgBar' \notin rgAsks'
    <3>1. CASE b = rgBar
      BY <3>1, <2>1
    <3>2. CASE b # rgBar
      <4>1. rgBar \notin rgAsks /\ rgAsks # {} /\ ~rgLost /\ sel = rgSel
        BY <3>2, <2>1
      <4>2. rgShown = render(rgCodes, rgSel) /\ rgCodes = rgServer
        BY <4>1, <1>0, <2>1
      <4> QED BY <3>2, <4>1, <4>2, <2>1
    <3> QED BY <3>1, <3>2
  <2> QED BY <1>0, <2>1, <2>2, <2>3, <2>4 DEF BarInv
<1>4. ASSUME NEW b \in rgAsks, fetchRegionsFails(b) PROVE BarInv'
  <2>1. /\ rgAsks' = rgAsks \ {b} /\ rgCodes' = {} /\ rgShown' = (IF b = rgBar THEN render({}, rgSel) ELSE rgShown)
        /\ rgLost' = (rgLost \/ rgLoaded \/ rgAsks # {b})
        /\ UNCHANGED <<rgSel, rgLoaded, rgBar, rgLinked, rgServer>>
    BY <1>4 DEF fetchRegionsFails
  <2>2. rgShown'.codes \subseteq RgCodes
    <3>1. render({}, rgSel).codes \subseteq {}
      BY RenderedCodes
    <3> QED BY <1>0, <2>1, <3>1
  <2>3. ~rgLost' => ~rgLoaded /\ rgAsks = {b} /\ rgAsks' = {}
    BY <2>1
  <2>4. ~rgLost' /\ rgBar' > 0 => rgShown' = render(rgCodes', rgSel')
    <3> HAVE ~rgLost' /\ rgBar' > 0
    <3>1. b = rgBar
      BY <2>1, <2>3, <1>0
    <3> QED BY <2>1, <3>1
  <2> QED BY <1>0, <2>1, <2>2, <2>3, <2>4 DEF BarInv
<1>5. ASSUME NEW r \in rgShown.codes \union {"__all__"}, toggleRegion(r) PROVE BarInv'
  <2> DEFINE sel == Toggled(rgSel, r, Cardinality(rgShown.codes))
  <2>1. rgSel' = sel /\ rgShown' = render(rgCodes, sel) /\ UNCHANGED <<rgCodes, rgLoaded, rgAsks, rgBar, rgLinked, rgServer, rgLost>>
    BY <1>5 DEF toggleRegion
  <2>2. sel \subseteq rgSel \union RgCodes
    BY <1>0 DEF Toggled
  <2> HIDE DEF sel
  <2>3. rgShown'.codes \subseteq RgCodes
    BY <1>0, <2>1, RenderedCodes
  <2>4. rgShown' = render(rgCodes', rgSel')
    BY <2>1
  <2> QED BY <1>0, <2>1, <2>2, <2>3, <2>4 DEF BarInv
<1>6. ASSUME NEW c \in SUBSET RgUrl, setSelected(c) PROVE BarInv'
  <2>1. rgSel' = c /\ rgShown' = render(rgCodes, c) /\ rgLinked' = rgLinked \union c /\ UNCHANGED <<rgCodes, rgLoaded, rgAsks, rgBar, rgServer, rgLost>>
    BY <1>6 DEF setSelected
  <2>2. rgShown'.codes \subseteq RgCodes
    BY <1>0, <2>1, RenderedCodes
  <2>3. rgShown' = render(rgCodes', rgSel')
    BY <2>1
  <2> QED BY <1>0, <2>1, <2>2, <2>3 DEF BarInv
<1>7. CASE UNCHANGED filterVars
  BY <1>7 DEF filterVars, BarInv
<1> QED BY <1>1, <1>2, <1>3, <1>4, <1>5, <1>6, <1>7 DEF FilterNext

AreaInv ==
    /\ arStored = arSel /\ arList \subseteq arServer /\ arShown.codes \subseteq arServer
    /\ arBar \in Nat /\ arAsks \subseteq 1..arBar /\ arLost \in BOOLEAN /\ arLoaded \in BOOLEAN
    /\ arLoaded => arSel \in arServer \union {""}
    /\ ~arLost /\ arLoaded => arList = arServer
    /\ ~arLost /\ arBar > 0 /\ arBar \notin arAsks =>
         arShown = renderArea(arList, arSel) /\ (arLoaded \/ arAsks = {})

LEMMA AreaTells == AreaInv => AreaIsTruthful
  BY DEF AreaInv, AreaIsTruthful

LEMMA AreaCodes == \A c, s : renderArea(c, s).codes = c /\ Nothing.codes = {}
  BY DEF renderArea, Nothing

LEMMA AreaStarts == AreaInit => AreaInv
<1> SUFFICES ASSUME AreaInit PROVE AreaInv
  OBVIOUS
<1>1. arShown.codes = {}
  BY AreaCodes DEF AreaInit
<1>2. arList = {} /\ arStored = arSel /\ arLoaded = FALSE /\ arAsks = {} /\ arBar = 0 /\ arLost = FALSE
  BY DEF AreaInit
<1>3. arBar \in Nat /\ ~(arBar > 0)
  BY <1>2
<1> QED BY <1>1, <1>2, <1>3 DEF AreaInv

LEMMA AreaStep == AreaInv /\ [AreaNext]_areaVars => AreaInv'
<1> SUFFICES ASSUME AreaInv, [AreaNext]_areaVars PROVE AreaInv'
  OBVIOUS
<1>0. /\ arStored = arSel /\ arList \subseteq arServer /\ arShown.codes \subseteq arServer
      /\ arBar \in Nat /\ arAsks \subseteq 1..arBar /\ arLost \in BOOLEAN /\ arLoaded \in BOOLEAN
      /\ (arLoaded => arSel \in arServer \union {""})
      /\ (~arLost /\ arLoaded => arList = arServer)
      /\ (~arLost /\ arBar > 0 /\ arBar \notin arAsks =>
            arShown = renderArea(arList, arSel) /\ (arLoaded \/ arAsks = {}))
  BY DEF AreaInv
<1>1. CASE initArea
  <2>1. arBar' = arBar + 1 /\ UNCHANGED <<arList, arSel, arStored, arLoaded, arServer, arLost>>
    BY <1>1 DEF initArea
  <2>2. CASE arLoaded
    <3>1. arShown' = renderArea(arList, arSel) /\ arAsks' = arAsks
      BY <1>1, <2>2 DEF initArea
    <3>2. arShown'.codes \subseteq arServer
      BY <3>1, <1>0, AreaCodes
    <3>3. arShown' = renderArea(arList', arSel')
      BY <3>1, <2>1
    <3>4. arBar' \in Nat /\ arAsks' \subseteq 1..arBar'
      BY <1>0, <2>1, <3>1, OneMore
    <3> QED BY <1>0, <2>1, <2>2, <3>2, <3>3, <3>4 DEF AreaInv
  <2>3. CASE ~arLoaded
    <3>1. arShown' = Nothing /\ arAsks' = arAsks \union {arBar + 1}
      BY <1>1, <2>3 DEF initArea
    <3>2. arShown'.codes \subseteq arServer
      BY <3>1, AreaCodes
    <3>3. arBar' \in Nat /\ arAsks' \subseteq 1..arBar' /\ arBar' \in arAsks'
      <4>1. arBar + 1 \in Nat /\ arAsks \subseteq 1..(arBar + 1) /\ arBar + 1 \in 1..(arBar + 1)
        BY <1>0, OneMore
      <4> QED BY <2>1, <3>1, <4>1
    <3> QED BY <1>0, <2>1, <2>3, <3>2, <3>3 DEF AreaInv
  <2> QED BY <2>2, <2>3
<1>2. ASSUME NEW b \in arAsks, fetchAreas(b) PROVE AreaInv'
  <2> DEFINE sel == IF arSel \in arServer THEN arSel ELSE ""
  <2>1. /\ arAsks' = arAsks \ {b} /\ arList' = arServer /\ arLoaded' = TRUE /\ arSel' = sel /\ arStored' = sel
        /\ arShown' = (IF b = arBar THEN renderArea(arServer, sel) ELSE arShown) /\ UNCHANGED <<arBar, arServer, arLost>>
    BY <1>2 DEF fetchAreas
  <2>2. sel \in arServer \union {""} /\ (arLoaded => sel = arSel)
    BY <1>0
  <2> HIDE DEF sel
  <2>3. arShown'.codes \subseteq arServer
    BY <1>0, <2>1, AreaCodes
  <2>4. ~arLost' /\ arBar' > 0 /\ arBar' \notin arAsks' => arShown' = renderArea(arList', arSel')
    <3> HAVE ~arLost' /\ arBar' > 0 /\ arBar' \notin arAsks'
    <3>1. CASE b = arBar
      BY <3>1, <2>1
    <3>2. CASE b # arBar
      <4>1. arBar \notin arAsks /\ arAsks # {} /\ ~arLost
        BY <3>2, <2>1
      <4>2. arShown = renderArea(arList, arSel) /\ arLoaded /\ arList = arServer
        BY <4>1, <1>0, <2>1
      <4> QED BY <3>2, <4>1, <4>2, <2>1, <2>2
    <3> QED BY <3>1, <3>2
  <2> QED BY <1>0, <2>1, <2>2, <2>3, <2>4 DEF AreaInv
<1>3. ASSUME NEW b \in arAsks, fetchAreasFails(b) PROVE AreaInv'
  <2>1. /\ arAsks' = arAsks \ {b} /\ arList' = {} /\ arShown' = (IF b = arBar THEN Nothing ELSE arShown)
        /\ arLost' = (arLost \/ arLoaded \/ arAsks # {b}) /\ UNCHANGED <<arSel, arStored, arLoaded, arBar, arServer>>
    BY <1>3 DEF fetchAreasFails
  <2>2. arShown'.codes \subseteq arServer
    BY <1>0, <2>1, AreaCodes
  <2>3. ~arLost' => ~arLoaded /\ arAsks = {b} /\ arAsks' = {}
    BY <2>1
  <2>4. ~arLost' /\ arBar' > 0 => arShown' = renderArea(arList', arSel')
    <3> HAVE ~arLost' /\ arBar' > 0
    <3>1. b = arBar
      BY <2>1, <2>3, <1>0
    <3> QED BY <2>1, <3>1 DEF renderArea
  <2> QED BY <1>0, <2>1, <2>2, <2>3, <2>4 DEF AreaInv
<1>4. ASSUME NEW a \in arShown.codes \union {""}, chooseArea(a) PROVE AreaInv'
  <2>1. arSel' = a /\ arStored' = a /\ arShown' = renderArea(arList, a) /\ UNCHANGED <<arList, arLoaded, arAsks, arBar, arServer, arLost>>
    BY <1>4 DEF chooseArea
  <2>2. arShown'.codes \subseteq arServer
    BY <1>0, <2>1, AreaCodes
  <2>3. arShown' = renderArea(arList', arSel') /\ arSel' \in arServer \union {""}
    BY <1>0, <2>1
  <2> QED BY <1>0, <2>1, <2>2, <2>3 DEF AreaInv
<1>5. CASE UNCHANGED areaVars
  BY <1>5 DEF areaVars, AreaInv
<1> QED BY <1>1, <1>2, <1>3, <1>4, <1>5 DEF AreaNext

------------------------------------------------------------------------------
(* The filter expression's widgets. *)

BoxRec == [text : FbTexts, of : FbTexts, items : Nat, sel : Int, open : BOOLEAN, focus : BOOLEAN, closing : Nat, edits : Nat]
\* An open list marks one of its items; with the focus, they are the text's.
Marks(b) ==
    b.open => /\ b.sel \in 0..(b.items - 1)
              /\ b.focus => b.of = b.text /\ b.items = ShownOf(b.text)
BoxOK(b) == b \in BoxRec /\ Marks(b)

FilterRec == [name : FbNames, expr : FbTexts \union {"builtin"}]
NamedOnce(s) == \A i, j \in DOMAIN s : s[i].name = s[j].name => i = j
SavedOK(v) ==
    /\ NamedOnce(v.user)
    /\ v.open => v.shown = listFilters(v.user)
    /\ v.picked # << >> => v.picked[1] = v.picked[2]
SavedRec == [user : Seq(FilterRec), shown : Seq(FilterRec), open : BOOLEAN, picked : Seq(FilterRec)]
CtxRec == [menu : Nat, arming : SUBSET Nat, listening : SUBSET Nat, next : Nat]
CtxOK(c) == c \in CtxRec /\ (c.menu # 0 => c.arming \union c.listening # {})
BoxInv == BoxOK(fbBox) /\ CtxOK(fbCtx) /\ fbSaved \in SavedRec /\ SavedOK(fbSaved)

LEMMA ShownType == ASSUME NEW v \in FbTexts PROVE ShownOf(v) \in Nat
<1>1. FbSuggests[v] \in Nat /\ FbItems \in Nat
  BY FilterBoxAssumption DEF FbItems
<1> QED BY <1>1 DEF ShownOf

LEMMA RefreshOK == ASSUME NEW b \in BoxRec PROVE BoxOK(Refresh(b))
<1> DEFINE n == ShownOf(b.text)
<1>1. b.text \in FbTexts
  BY DEF BoxRec
<1>2. n \in Nat
  BY <1>1, ShownType
<1>3. CASE n = 0
  <2> DEFINE c == [b EXCEPT !.open = FALSE, !.sel = -1, !.items = 0]
             r == [c EXCEPT !.of = b.text]
  <2>1. -1 \in Int /\ 0 \in Nat /\ FALSE \in BOOLEAN
    OBVIOUS
  <2>2. c \in BoxRec
    BY <2>1, Zenon DEF BoxRec
  <2>3. c.open = FALSE
    BY DEF BoxRec
  <2> HIDE DEF c
  <2>4. r \in BoxRec
    BY <2>2, <1>1, Zenon DEF BoxRec
  <2>5. r.open = FALSE
    BY <2>2, <2>3 DEF BoxRec
  <2> HIDE DEF r
  <2>6. Refresh(b) = r
    BY <1>3 DEF Refresh, ClosedBox, c, r
  <2> QED BY <2>4, <2>5, <2>6 DEF BoxOK, Marks
<1>4. CASE n # 0
  <2> DEFINE r == [b EXCEPT !.of = b.text, !.items = n, !.sel = 0, !.open = TRUE]
  <2>1. Refresh(b) = r
    BY <1>4 DEF Refresh
  <2> HIDE DEF n
  <2>2. 0 \in Int /\ TRUE \in BOOLEAN
    OBVIOUS
  <2>3. r \in BoxRec
    BY <2>2, <1>1, <1>2, Zenon DEF BoxRec
  <2>4. r.sel = 0 /\ r.items = n /\ r.of = b.text /\ r.text = b.text
    BY DEF BoxRec
  <2> HIDE DEF r
  <2>5. 0 \in 0..(n - 1)
    BY <1>2, <1>4
  <2>6. r.items = ShownOf(r.text)
    BY <2>4 DEF n
  <2> QED BY <2>1, <2>3, <2>4, <2>5, <2>6 DEF BoxOK, Marks
<1> QED BY <1>3, <1>4

LEMMA PutOK == ASSUME NEW b \in BoxRec, NEW v \in FbTexts PROVE BoxOK(Put(b, v))
<1> DEFINE e == b.edits + 1
           c == [b EXCEPT !.text = v, !.edits = e]
<1>1. e \in Nat
  BY DEF BoxRec
<1>2. Put(b, v) = Refresh(c)
  BY DEF Put
<1> HIDE DEF e
<1>3. c \in BoxRec
  BY <1>1, Zenon DEF BoxRec
<1> HIDE DEF c
<1> QED BY <1>2, <1>3, RefreshOK

LEMMA ClosedOK == ASSUME NEW b \in BoxRec PROVE ClosedBox(b) \in BoxRec /\ ClosedBox(b).open = FALSE
<1>1. -1 \in Int /\ 0 \in Nat /\ FALSE \in BOOLEAN
  OBVIOUS
<1>2. [b EXCEPT !.open = FALSE, !.sel = -1, !.items = 0] \in BoxRec
  BY <1>1, Zenon DEF BoxRec
<1>3. [b EXCEPT !.open = FALSE, !.sel = -1, !.items = 0].open = FALSE
  BY DEF BoxRec
<1> QED BY <1>2, <1>3 DEF ClosedBox

\* Every change of input and list.
LEMMA BoxSteps ==
  ASSUME BoxOK(fbBox),
         typeText \/ focusBox \/ blurBox \/ closeTimer \/ arrow \/ escapeBox \/ acceptItem \/ clearText \/ chooseClause \/ pickSaved
  PROVE  BoxOK(fbBox')
<1>0. fbBox \in BoxRec /\ Marks(fbBox)
  BY DEF BoxOK
<1>1. CASE typeText
  BY <1>0, <1>1, PutOK DEF typeText
<1>2. CASE focusBox
  <2>1. [fbBox EXCEPT !.focus = TRUE] \in BoxRec
    BY <1>0, Zenon DEF BoxRec
  <2> QED BY <1>2, <2>1, RefreshOK DEF focusBox
<1>3. CASE blurBox
  <2> DEFINE k == fbBox.closing + 1
             b == [fbBox EXCEPT !.focus = FALSE, !.closing = k]
  <2>1. fbBox' = b
    BY <1>3 DEF blurBox
  <2>2. k \in Nat
    BY <1>0 DEF BoxRec
  <2> HIDE DEF k
  <2>3. b \in BoxRec
    BY <1>0, <2>2, Zenon DEF BoxRec
  <2>4. b.focus = FALSE /\ b.open = fbBox.open /\ b.sel = fbBox.sel /\ b.items = fbBox.items
    BY <1>0 DEF BoxRec
  <2> HIDE DEF b
  <2> QED BY <1>0, <2>1, <2>3, <2>4 DEF BoxOK, Marks
<1>4. CASE closeTimer
  <2> DEFINE c == ClosedBox(fbBox)
             k == c.closing - 1
             b == [c EXCEPT !.closing = k]
  <2>1. c \in BoxRec /\ c.open = FALSE /\ c.closing = fbBox.closing
    BY <1>0, ClosedOK DEF ClosedBox, BoxRec
  <2>2. fbBox' = b
    BY <1>4 DEF closeTimer
  <2>3. k \in Nat
    BY <1>0, <1>4, <2>1 DEF closeTimer, BoxRec
  <2> HIDE DEF c, k
  <2>4. b \in BoxRec
    BY <2>1, <2>3, Zenon DEF BoxRec
  <2>5. b.open = FALSE
    BY <2>1 DEF BoxRec
  <2> HIDE DEF b
  <2> QED BY <2>2, <2>4, <2>5 DEF BoxOK, Marks
<1>5. CASE arrow
  <2>1. PICK d \in {1, -1} : fbBox.open /\ fbBox' = [fbBox EXCEPT !.sel = (fbBox.sel + d + fbBox.items) % fbBox.items]
    BY <1>5 DEF arrow
  <2> DEFINE k == (fbBox.sel + d + fbBox.items) % fbBox.items
             b == [fbBox EXCEPT !.sel = k]
  <2>2. fbBox.items \in Nat /\ fbBox.sel \in 0..(fbBox.items - 1)
    BY <1>0, <2>1 DEF Marks, BoxRec
  <2>3. k \in 0..(fbBox.items - 1)
    <3>1. \A n \in Nat \ {0} : \A m \in Nat : m % n \in 0..(n - 1)
      OBVIOUS
    <3>2. fbBox.items \in Nat \ {0} /\ fbBox.sel + d + fbBox.items \in Nat
      BY <2>2
    <3> QED BY <3>1, <3>2
  <2>4. fbBox' = b
    BY <2>1
  <2> HIDE DEF k
  <2>5. k \in Int
    BY <2>2, <2>3
  <2>6. b \in BoxRec
    BY <1>0, <2>5, Zenon DEF BoxRec
  <2>7. b.sel = k /\ b.open = fbBox.open /\ b.focus = fbBox.focus /\ b.items = fbBox.items /\ b.of = fbBox.of /\ b.text = fbBox.text
    BY <1>0 DEF BoxRec
  <2> HIDE DEF b
  <2> QED BY <1>0, <2>3, <2>4, <2>6, <2>7 DEF BoxOK, Marks
<1>6. CASE escapeBox
  <2>1. fbBox' = ClosedBox(fbBox)
    BY <1>6 DEF escapeBox
  <2> QED BY <1>0, <2>1, ClosedOK DEF BoxOK, Marks
<1>7. CASE acceptItem
  <2>1. PICK v \in FbTexts : fbBox' = Put(ClosedBox(fbBox), v)
    BY <1>7 DEF acceptItem
  <2> QED BY <1>0, <2>1, ClosedOK, PutOK
<1>8. CASE clearText
  <2> DEFINE k == fbBox.edits + 1
             b == [fbBox EXCEPT !.text = "", !.edits = k]
  <2>1. fbBox' = b /\ ~fbBox.focus
    BY <1>8 DEF clearText
  <2>2. k \in Nat /\ "" \in FbTexts
    <3>1. k \in Nat
      BY <1>0 DEF BoxRec
    <3>2. "" \in FbTexts
      BY FilterBoxAssumption, Zenon
    <3> QED BY <3>1, <3>2
  <2> HIDE DEF k
  <2>3. b \in BoxRec
    BY <1>0, <2>2, Zenon DEF BoxRec
  <2>4. b.focus = fbBox.focus /\ b.open = fbBox.open /\ b.sel = fbBox.sel /\ b.items = fbBox.items
    BY <1>0 DEF BoxRec
  <2> HIDE DEF b
  <2> QED BY <1>0, <2>1, <2>3, <2>4 DEF BoxOK, Marks
<1>9. CASE chooseClause
  <2>1. PICK v \in FbTexts : fbBox' = Put(fbBox, v)
    BY <1>9 DEF chooseClause
  <2> QED BY <1>0, <2>1, PutOK
<1>10. CASE pickSaved
  <2>1. PICK i \in DOMAIN fbSaved.shown :
          LET now == listFilters(fbSaved.user) IN
          fbBox' = IF now[i].expr \in FbTexts THEN Put(fbBox, now[i].expr) ELSE [fbBox EXCEPT !.edits = @ + 1]
    BY <1>10 DEF pickSaved
  <2> DEFINE x == listFilters(fbSaved.user)[i].expr
             k == fbBox.edits + 1
             b == [fbBox EXCEPT !.edits = k]
  <2>2. CASE x \in FbTexts
    <3>1. fbBox' = Put(fbBox, x)
      BY <2>1, <2>2
    <3> HIDE DEF x
    <3> QED BY <2>2, <3>1, <1>0, PutOK
  <2>3. CASE x \notin FbTexts
    <3>1. fbBox' = b
      BY <2>1, <2>3
    <3>2. k \in Nat
      BY <1>0 DEF BoxRec
    <3> HIDE DEF k
    <3>3. b \in BoxRec
      BY <1>0, <3>2, Zenon DEF BoxRec
    <3>4. b.sel = fbBox.sel /\ b.open = fbBox.open /\ b.focus = fbBox.focus /\ b.items = fbBox.items /\ b.of = fbBox.of /\ b.text = fbBox.text
      BY <1>0 DEF BoxRec
    <3> HIDE DEF b
    <3> QED BY <1>0, <3>1, <3>3, <3>4 DEF BoxOK, Marks
  <2> QED BY <2>2, <2>3
<1> QED BY <1>1, <1>2, <1>3, <1>4, <1>5, <1>6, <1>7, <1>8, <1>9, <1>10

\* The context menu.
LEMMA DismissOK == ASSUME NEW c, CtxOK(c) PROVE CtxOK(Dismiss(c))
<1>1. CASE c.menu # 0 /\ c.listening # {}
  <2> DEFINE l == c.listening \ {Min(c.listening)}
             d == [c EXCEPT !.menu = 0, !.listening = l]
  <2>1. Dismiss(c) = d
    BY <1>1 DEF Dismiss
  <2>2. l \in SUBSET Nat /\ 0 \in Nat
    BY DEF CtxOK, CtxRec
  <2> HIDE DEF l
  <2>3. d \in CtxRec
    BY <2>2, Zenon DEF CtxOK, CtxRec
  <2>4. d.menu = 0
    BY DEF CtxOK, CtxRec
  <2> HIDE DEF d
  <2> QED BY <2>1, <2>3, <2>4 DEF CtxOK
<1>2. CASE ~(c.menu # 0 /\ c.listening # {})
  BY <1>2 DEF Dismiss
<1> QED BY <1>1, <1>2

LEMMA MenuSteps ==
  ASSUME CtxOK(fbCtx), showContextMenu \/ armMenu \/ pressOutside \/ chooseClause
  PROVE  CtxOK(fbCtx')
<1>1. CASE showContextMenu
  <2>1. PICK c \in {fbCtx, Dismiss(fbCtx)} : fbCtx' = OpenMenu(c)
    BY <1>1 DEF showContextMenu
  <2>2. CtxOK(c)
    BY <2>1, DismissOK
  <2> DEFINE n == c.next + 1
             a == c.arming \union {c.next}
             d == [c EXCEPT !.menu = c.next, !.next = n, !.arming = a]
  <2>3. OpenMenu(c) = d
    BY DEF OpenMenu
  <2>4. n \in Nat /\ a \in SUBSET Nat /\ c.next \in Nat
    BY <2>2 DEF CtxOK, CtxRec
  <2>5. a # {}
    OBVIOUS
  <2> HIDE DEF n, a
  <2>6. d \in CtxRec
    BY <2>2, <2>4, Zenon DEF CtxOK, CtxRec
  <2>7. d.arming = a
    BY <2>2 DEF CtxOK, CtxRec
  <2> HIDE DEF d
  <2> QED BY <2>1, <2>3, <2>5, <2>6, <2>7 DEF CtxOK
<1>2. CASE armMenu
  <2>1. PICK m \in fbCtx.arming : fbCtx' = [fbCtx EXCEPT !.arming = fbCtx.arming \ {m}, !.listening = fbCtx.listening \union {m}]
    BY <1>2 DEF armMenu
  <2> DEFINE a == fbCtx.arming \ {m}
             l == fbCtx.listening \union {m}
             d == [fbCtx EXCEPT !.arming = a, !.listening = l]
  <2>2. a \in SUBSET Nat /\ l \in SUBSET Nat /\ l # {}
    BY DEF CtxOK, CtxRec
  <2>3. fbCtx' = d
    BY <2>1
  <2> HIDE DEF a, l
  <2>4. d \in CtxRec
    BY <2>2, Zenon DEF CtxOK, CtxRec
  <2>5. d.listening = l
    BY DEF CtxOK, CtxRec
  <2> HIDE DEF d
  <2> QED BY <2>2, <2>3, <2>4, <2>5 DEF CtxOK
<1>3. CASE pressOutside
  BY <1>3, DismissOK DEF pressOutside
<1>4. CASE chooseClause
  <2>1. fbCtx' = [fbCtx EXCEPT !.menu = 0] /\ 0 \in Nat
    BY <1>4 DEF chooseClause
  <2>2. [fbCtx EXCEPT !.menu = 0] \in CtxRec
    BY <2>1, Zenon DEF CtxOK, CtxRec
  <2>3. [fbCtx EXCEPT !.menu = 0].menu = 0
    BY DEF CtxOK, CtxRec
  <2> QED BY <2>1, <2>2, <2>3 DEF CtxOK
<1> QED BY <1>1, <1>2, <1>3, <1>4

\* The saved filters.
LEMMA ListedIs ==
  ASSUME NEW user \in Seq(FilterRec), NamedOnce(user)
  PROVE  /\ listFilters(user) \in Seq(FilterRec) /\ NamedOnce(listFilters(user))
         /\ NamesOf(listFilters(user)) = Range(FbBuiltin) \union NamesOf(user)
<1> DEFINE ps == {i \in DOMAIN FbBuiltin : FbBuiltin[i] \notin NamesOf(user)}
           p == Picked(Builtin, ps)
           n == Cardinality(ps)
           m == Len(user)
           l == p \o user
<1>1. FbBuiltin \in Seq(FbNames) /\ IsInjective(FbBuiltin) /\ Len(FbBuiltin) \in Nat /\ DOMAIN FbBuiltin = 1..Len(FbBuiltin)
  <2>1. FbBuiltin \in Seq(FbNames) /\ IsInjective(FbBuiltin)
    BY FilterBoxAssumption, Zenon
  <2> QED BY <2>1
<1>2. \A i \in DOMAIN FbBuiltin : FbBuiltin[i] \in FbNames
  BY <1>1
<1>3. \A i \in DOMAIN FbBuiltin : Builtin[i] \in FilterRec /\ Builtin[i].name = FbBuiltin[i]
  BY <1>2 DEF Builtin, Filter, FilterRec
<1>4. Builtin \in Seq(FilterRec) /\ DOMAIN Builtin = DOMAIN FbBuiltin
  <2>1. Builtin \in [1..Len(FbBuiltin) -> FilterRec] /\ DOMAIN Builtin = DOMAIN FbBuiltin
    BY <1>1, <1>3 DEF Builtin
  <2> QED BY <2>1, <1>1
<1>5. ps \in SUBSET DOMAIN Builtin /\ \A i \in ps : i \in DOMAIN FbBuiltin /\ FbBuiltin[i] \notin NamesOf(user)
  BY <1>4
<1>6. \A i \in DOMAIN FbBuiltin : i \in ps \/ FbBuiltin[i] \in NamesOf(user)
  OBVIOUS
<1> HIDE DEF ps
<1>7. /\ n \in Nat /\ p \in Seq(FilterRec) /\ Len(p) = n
      /\ \A i \in 1..n : Nth(ps, i) \in ps /\ p[i] = Builtin[Nth(ps, i)]
      /\ \A i, j \in 1..n : i < j => Nth(ps, i) < Nth(ps, j)
      /\ \A k \in ps : \E i \in 1..n : k = Nth(ps, i)
  BY <1>4, <1>5, PickedIs
<1> HIDE DEF p, n
<1>8. \A i \in 1..n : p[i].name = FbBuiltin[Nth(ps, i)] /\ Nth(ps, i) \in DOMAIN FbBuiltin /\ p[i].name \notin NamesOf(user)
  BY <1>3, <1>5, <1>7
<1>9. \A i, j \in 1..n : p[i].name = p[j].name => i = j
  <2> TAKE i, j \in 1..n
  <2> HAVE p[i].name = p[j].name
  <2>1. Nth(ps, i) = Nth(ps, j)
    BY <1>1, <1>8 DEF IsInjective
  <2>2. \A k \in ps : k \in Int
    BY <1>1, <1>5
  <2>3. Nth(ps, i) \in Int /\ Nth(ps, j) \in Int
    BY <1>7, <2>2
  <2>4. ~(i < j) /\ ~(j < i)
    BY <1>7, <2>1, <2>3
  <2> QED BY <2>4
<1>10. m \in Nat /\ DOMAIN user = 1..m /\ \A i \in 1..m : user[i].name \in NamesOf(user)
  BY DEF NamesOf
<1>11. /\ l \in Seq(FilterRec) /\ Len(l) = n + m
       /\ \A i \in 1..(n + m) : l[i] = IF i <= n THEN p[i] ELSE user[i - n]
  <2>1. p \in Seq(FilterRec) /\ Len(p) = n
    BY <1>7
  <2>2. /\ p \o user \in Seq(FilterRec) /\ Len(p \o user) = Len(p) + Len(user)
        /\ \A i \in 1..(Len(p) + Len(user)) : (p \o user)[i] = IF i <= Len(p) THEN p[i] ELSE user[i - Len(p)]
    BY <2>1, ConcatProperties, Zenon
  <2> QED BY <2>1, <2>2
<1>12. DOMAIN l = 1..(n + m) /\ (\A i \in 1..n : i \in 1..(n + m) /\ l[i] = p[i])
  BY <1>7, <1>10, <1>11
<1>13. \A i \in 1..m : n + i \in 1..(n + m) /\ l[n + i] = user[i]
  <2> TAKE i \in 1..m
  <2>1. PICK k \in 1..(n + m) : k = n + i /\ ~(k <= n) /\ k - n = i
    BY <1>7, <1>10
  <2>2. l[k] = user[k - n]
    BY <1>11, <2>1
  <2> QED BY <2>1, <2>2
<1>14. \A i \in 1..(n + m) : i \in 1..n \/ \E j \in 1..m : i = n + j
  <2> TAKE i \in 1..(n + m)
  <2>1. CASE i <= n
    BY <2>1, <1>7
  <2>2. CASE ~(i <= n)
    <3>1. i - n \in 1..m /\ i = n + (i - n)
      BY <2>2, <1>7, <1>10
    <3> QED BY <3>1
  <2> QED BY <2>1, <2>2
<1> HIDE DEF l, m
<1>15. NamedOnce(l)
  <2> SUFFICES ASSUME NEW i \in 1..(n + m), NEW j \in 1..(n + m), l[i].name = l[j].name
               PROVE  i = j
    BY <1>12 DEF NamedOnce
  <2>1. CASE i \in 1..n /\ j \in 1..n
    BY <2>1, <1>9, <1>12
  <2>2. CASE i \in 1..n /\ \E k \in 1..m : j = n + k
    BY <2>2, <1>8, <1>10, <1>12, <1>13
  <2>3. CASE j \in 1..n /\ \E k \in 1..m : i = n + k
    BY <2>3, <1>8, <1>10, <1>12, <1>13
  <2>4. CASE \E k \in 1..m : i = n + k /\ \E h \in 1..m : j = n + h
    <3>1. PICK k \in 1..m : i = n + k
      BY <2>4
    <3>2. PICK h \in 1..m : j = n + h
      BY <2>4
    <3>3. user[k].name = user[h].name
      BY <3>1, <3>2, <1>13
    <3>4. k = h
      BY <3>3, <1>10 DEF NamedOnce
    <3> QED BY <3>1, <3>2, <3>4
  <2> QED BY <2>1, <2>2, <2>3, <2>4, <1>14
<1>16. NamesOf(l) \subseteq Range(FbBuiltin) \union NamesOf(user)
  <2> SUFFICES ASSUME NEW i \in 1..(n + m) PROVE l[i].name \in Range(FbBuiltin) \union NamesOf(user)
    BY <1>12 DEF NamesOf
  <2>1. CASE i \in 1..n
    BY <2>1, <1>8, <1>12 DEF Range
  <2>2. CASE \E k \in 1..m : i = n + k
    BY <2>2, <1>10, <1>13
  <2> QED BY <2>1, <2>2, <1>14
<1>17. \A i \in 1..m : user[i].name \in NamesOf(l)
  BY <1>12, <1>13 DEF NamesOf
<1>18. NamesOf(user) \subseteq NamesOf(l)
  BY <1>10, <1>17 DEF NamesOf
<1>19. \A k \in DOMAIN FbBuiltin : FbBuiltin[k] \in NamesOf(l)
  <2> TAKE k \in DOMAIN FbBuiltin
  <2>1. CASE FbBuiltin[k] \in NamesOf(user)
    BY <2>1, <1>18
  <2>2. CASE k \in ps
    <3>1. PICK i \in 1..n : k = Nth(ps, i)
      BY <2>2, <1>7
    <3>2. l[i].name = FbBuiltin[k] /\ i \in DOMAIN l
      BY <3>1, <1>8, <1>12
    <3> QED BY <3>2 DEF NamesOf
  <2> QED BY <2>1, <2>2, <1>6
<1>20. Range(FbBuiltin) \subseteq NamesOf(l)
  BY <1>19 DEF Range
<1>21. listFilters(user) = l
  BY DEF listFilters, l, p, ps
<1> QED BY <1>11, <1>15, <1>16, <1>18, <1>20, <1>21

LEMMA SaveKeeps ==
  ASSUME NEW user \in Seq(FilterRec), NamedOnce(user), NEW f \in FilterRec
  PROVE  saveFilter(user, f) \in Seq(FilterRec) /\ NamedOnce(saveFilter(user, f))
<1>1. Len(user) \in Nat /\ DOMAIN user = 1..Len(user) /\ \A i \in DOMAIN user : user[i] \in FilterRec
  OBVIOUS
<1>2. CASE f.name \in NamesOf(user)
  <2> DEFINE s == [i \in DOMAIN user |-> IF user[i].name = f.name THEN f ELSE user[i]]
  <2>1. saveFilter(user, f) = s
    BY <1>2 DEF saveFilter
  <2>2. s \in [1..Len(user) -> FilterRec] /\ DOMAIN s = DOMAIN user
    BY <1>1
  <2>3. \A i \in DOMAIN user : s[i].name = user[i].name
    OBVIOUS
  <2> HIDE DEF s
  <2>4. s \in Seq(FilterRec)
    BY <2>2, <1>1
  <2>5. NamedOnce(s)
    BY <2>2, <2>3 DEF NamedOnce
  <2> QED BY <2>1, <2>4, <2>5
<1>3. CASE f.name \notin NamesOf(user)
  <2> DEFINE s == Append(user, f)
             n == Len(user) + 1
  <2>1. saveFilter(user, f) = s
    BY <1>3 DEF saveFilter
  <2>2. s \in Seq(FilterRec) /\ DOMAIN s = 1..n /\ s[n] = f /\ n \notin DOMAIN user /\ \A i \in DOMAIN user : s[i] = user[i]
    BY <1>1
  <2>3. \A i \in 1..n : i \in DOMAIN user \/ i = n
    BY <1>1
  <2> HIDE DEF s, n
  <2>4. \A i \in DOMAIN user : user[i].name # f.name
    BY <1>3 DEF NamesOf
  <2>5. NamedOnce(s)
    BY <2>2, <2>3, <2>4 DEF NamedOnce
  <2> QED BY <2>1, <2>2, <2>5
<1> QED BY <1>2, <1>3

LEMMA DeleteKeeps ==
  ASSUME NEW user \in Seq(FilterRec), NamedOnce(user), NEW name
  PROVE  deleteFilter(user, name) \in Seq(FilterRec) /\ NamedOnce(deleteFilter(user, name))
<1> DEFINE ps == {i \in DOMAIN user : user[i].name # name}
           p == Picked(user, ps)
           n == Cardinality(ps)
<1>1. ps \in SUBSET DOMAIN user /\ DOMAIN user = 1..Len(user) /\ Len(user) \in Nat
  OBVIOUS
<1>2. deleteFilter(user, name) = p
  BY DEF deleteFilter
<1> HIDE DEF ps
<1>3. /\ n \in Nat /\ p \in Seq(FilterRec) /\ Len(p) = n
      /\ \A i \in 1..n : Nth(ps, i) \in ps /\ p[i] = user[Nth(ps, i)]
      /\ \A i, j \in 1..n : i < j => Nth(ps, i) < Nth(ps, j)
  BY <1>1, PickedIs
<1> HIDE DEF p, n
<1>4. DOMAIN p = 1..n
  BY <1>3
<1>5. NamedOnce(p)
  <2> SUFFICES ASSUME NEW i \in 1..n, NEW j \in 1..n, p[i].name = p[j].name PROVE i = j
    BY <1>4 DEF NamedOnce
  <2>1. Nth(ps, i) \in DOMAIN user /\ Nth(ps, j) \in DOMAIN user
    BY <1>1, <1>3
  <2>2. Nth(ps, i) = Nth(ps, j)
    BY <1>3, <2>1 DEF NamedOnce
  <2>3. Nth(ps, i) \in Int
    BY <1>1, <2>1
  <2>4. ~(i < j) /\ ~(j < i)
    BY <1>3, <2>2, <2>3
  <2> QED BY <2>4
<1> QED BY <1>2, <1>3, <1>5

LEMMA BuildKeeps ==
  ASSUME NEW s \in SavedRec, NamedOnce(s.user), s.picked = << >>
  PROVE  BuildSaved(s) \in SavedRec /\ SavedOK(BuildSaved(s))
<1> DEFINE l == listFilters(s.user)
           r == [s EXCEPT !.shown = l]
<1>1. s.user \in Seq(FilterRec)
  BY DEF SavedRec
<1>2. l \in Seq(FilterRec)
  BY <1>1, ListedIs
<1>3. BuildSaved(s) = r
  BY DEF BuildSaved
<1> HIDE DEF l
<1>4. r \in SavedRec
  BY <1>2, Zenon DEF SavedRec
<1>5. r.user = s.user /\ r.shown = l /\ r.picked = << >>
  BY DEF SavedRec
<1>6. l = listFilters(s.user)
  BY DEF l
<1> HIDE DEF r
<1> QED BY <1>3, <1>4, <1>5, <1>6 DEF SavedOK

LEMMA SavedSteps ==
  ASSUME fbBox \in BoxRec, fbSaved \in SavedRec, SavedOK(fbSaved),
         toggleSaved \/ closeSaved \/ saveCurrent \/ deleteSaved \/ pickSaved
  PROVE  fbSaved' \in SavedRec /\ SavedOK(fbSaved')
<1>0. /\ fbSaved.user \in Seq(FilterRec) /\ fbSaved.shown \in Seq(FilterRec) /\ NamedOnce(fbSaved.user)
      /\ (fbSaved.open => fbSaved.shown = listFilters(fbSaved.user))
  BY DEF SavedRec, SavedOK
<1>1. << >> \in Seq(FilterRec)
  OBVIOUS
<1>2. CASE toggleSaved
  <2> DEFINE o == ~fbSaved.open
             r == [fbSaved EXCEPT !.open = o, !.picked = << >>]
  <2>1. fbSaved' = BuildSaved(r)
    BY <1>2 DEF toggleSaved
  <2>2. o \in BOOLEAN
    OBVIOUS
  <2> HIDE DEF o
  <2>3. r \in SavedRec
    BY <1>1, <2>2, Zenon DEF SavedRec
  <2>4. r.user = fbSaved.user /\ r.picked = << >>
    BY DEF SavedRec
  <2> HIDE DEF r
  <2> QED BY <1>0, <2>1, <2>3, <2>4, BuildKeeps
<1>3. CASE closeSaved
  <2> DEFINE r == [fbSaved EXCEPT !.open = FALSE, !.picked = << >>]
  <2>1. fbSaved' = r
    BY <1>3 DEF closeSaved
  <2>2. r \in SavedRec
    BY <1>1, Zenon DEF SavedRec
  <2>3. r.user = fbSaved.user /\ r.open = FALSE /\ r.picked = << >>
    BY DEF SavedRec
  <2> HIDE DEF r
  <2> QED BY <1>0, <2>1, <2>2, <2>3 DEF SavedOK
<1>4. CASE saveCurrent
  <2>1. PICK n \in FbNames : fbSaved' = BuildSaved([fbSaved EXCEPT !.user = saveFilter(fbSaved.user, Filter(n, fbBox.text)), !.picked = << >>])
    BY <1>4 DEF saveCurrent
  <2> DEFINE u == saveFilter(fbSaved.user, Filter(n, fbBox.text))
             r == [fbSaved EXCEPT !.user = u, !.picked = << >>]
  <2>2. Filter(n, fbBox.text) \in FilterRec
    BY DEF Filter, FilterRec, BoxRec
  <2>3. u \in Seq(FilterRec) /\ NamedOnce(u)
    BY <1>0, <2>2, SaveKeeps
  <2>4. fbSaved' = BuildSaved(r)
    BY <2>1
  <2> HIDE DEF u
  <2>5. r \in SavedRec
    BY <1>1, <2>3, Zenon DEF SavedRec
  <2>6. r.user = u /\ r.picked = << >>
    BY DEF SavedRec
  <2> HIDE DEF r
  <2> QED BY <2>3, <2>4, <2>5, <2>6, BuildKeeps
<1>5. CASE deleteSaved
  <2>1. PICK n \in NamesOf(fbSaved.user) : fbSaved' = BuildSaved([fbSaved EXCEPT !.user = deleteFilter(fbSaved.user, n), !.picked = << >>])
    BY <1>5 DEF deleteSaved
  <2> DEFINE u == deleteFilter(fbSaved.user, n)
             r == [fbSaved EXCEPT !.user = u, !.picked = << >>]
  <2>2. u \in Seq(FilterRec) /\ NamedOnce(u)
    BY <1>0, DeleteKeeps
  <2>3. fbSaved' = BuildSaved(r)
    BY <2>1
  <2> HIDE DEF u
  <2>4. r \in SavedRec
    BY <1>1, <2>2, Zenon DEF SavedRec
  <2>5. r.user = u /\ r.picked = << >>
    BY DEF SavedRec
  <2> HIDE DEF r
  <2> QED BY <2>2, <2>3, <2>4, <2>5, BuildKeeps
<1>6. CASE pickSaved
  <2> DEFINE now == listFilters(fbSaved.user)
  <2>1. PICK i \in DOMAIN fbSaved.shown :
          fbSaved.open /\ fbSaved' = [fbSaved EXCEPT !.open = FALSE, !.picked = <<fbSaved.shown[i], now[i]>>]
    BY <1>6 DEF pickSaved
  <2> DEFINE f == fbSaved.shown[i]
             g == now[i]
             q == <<f, g>>
             r == [fbSaved EXCEPT !.open = FALSE, !.picked = q]
  <2>2. f = g /\ f \in FilterRec
    BY <1>0, <2>1
  <2>3. fbSaved' = r
    BY <2>1
  <2> HIDE DEF f, g
  <2>4. q \in Seq(FilterRec) /\ q[1] = f /\ q[2] = g
    BY <2>2
  <2> HIDE DEF q
  <2>5. r \in SavedRec
    BY <2>4, Zenon DEF SavedRec
  <2>6. r.user = fbSaved.user /\ r.open = FALSE /\ r.picked = q
    BY DEF SavedRec
  <2> HIDE DEF r
  <2> QED BY <1>0, <2>2, <2>3, <2>4, <2>5, <2>6 DEF SavedOK
<1> QED BY <1>2, <1>3, <1>4, <1>5, <1>6

LEMMA BoxTells == BoxInv => MarkedIsOffered /\ MenuDismissible /\ SavedAreHonest
<1> SUFFICES ASSUME BoxInv PROVE MarkedIsOffered /\ MenuDismissible /\ SavedAreHonest
  OBVIOUS
<1>1. MarkedIsOffered
  BY DEF BoxInv, BoxOK, Marks, MarkedIsOffered
<1>2. MenuDismissible
  BY DEF BoxInv, CtxOK, MenuDismissible
<1>3. fbSaved.user \in Seq(FilterRec) /\ NamedOnce(fbSaved.user) /\ (fbSaved.picked # << >> => fbSaved.picked[1] = fbSaved.picked[2])
  BY DEF BoxInv, SavedRec, SavedOK
<1>4. NamedOnce(listFilters(fbSaved.user)) /\ NamesOf(listFilters(fbSaved.user)) = Range(FbBuiltin) \union NamesOf(fbSaved.user)
  BY <1>3, ListedIs
<1>5. SavedAreHonest
  BY <1>3, <1>4 DEF SavedAreHonest, NamedOnce
<1> QED BY <1>1, <1>2, <1>5

LEMMA BoxStarts == FilterBoxInit => BoxInv
<1> SUFFICES ASSUME FilterBoxInit PROVE BoxInv
  OBVIOUS
<1>1. fbBox = [text |-> "", of |-> "", items |-> 0, sel |-> -1, open |-> FALSE, focus |-> FALSE, closing |-> 0, edits |-> 0]
  BY DEF FilterBoxInit
<1>2. "" \in FbTexts
  BY FilterBoxAssumption, Zenon
<1>3. 0 \in Nat /\ -1 \in Int /\ 1 \in Nat
  OBVIOUS
<1>4. fbBox \in BoxRec /\ fbBox.open = FALSE
  BY <1>1, <1>2, <1>3 DEF BoxRec
<1>5. fbCtx = [menu |-> 0, arming |-> {}, listening |-> {}, next |-> 1]
  BY DEF FilterBoxInit
<1>6. fbCtx \in CtxRec /\ fbCtx.menu = 0
  BY <1>3, <1>5 DEF CtxRec
<1>7. fbSaved = [user |-> << >>, shown |-> << >>, open |-> FALSE, picked |-> << >>]
  BY DEF FilterBoxInit
<1>8. << >> \in Seq(FilterRec)
  OBVIOUS
<1>9. fbSaved \in SavedRec /\ fbSaved.user = << >> /\ fbSaved.open = FALSE /\ fbSaved.picked = << >>
  BY <1>7, <1>8 DEF SavedRec
<1>10. NamedOnce(<< >>)
  BY DEF NamedOnce
<1> QED BY <1>4, <1>6, <1>9, <1>10 DEF BoxInv, BoxOK, Marks, CtxOK, SavedOK

LEMMA BoxStep == BoxInv /\ [FilterBoxNext]_boxVars => BoxInv'
<1> SUFFICES ASSUME BoxInv, [FilterBoxNext]_boxVars PROVE BoxInv'
  OBVIOUS
<1>0. BoxOK(fbBox) /\ CtxOK(fbCtx) /\ fbSaved \in SavedRec /\ SavedOK(fbSaved) /\ fbBox \in BoxRec
  BY DEF BoxInv, BoxOK
<1>1. CASE typeText \/ focusBox \/ blurBox \/ closeTimer \/ arrow \/ escapeBox \/ acceptItem \/ clearText
  <2>1. BoxOK(fbBox')
    BY <1>0, <1>1, BoxSteps
  <2>2. fbCtx' = fbCtx /\ fbSaved' = fbSaved
    BY <1>1 DEF typeText, focusBox, blurBox, closeTimer, arrow, escapeBox, acceptItem, clearText
  <2> QED BY <1>0, <2>1, <2>2 DEF BoxInv
<1>2. CASE showContextMenu \/ armMenu \/ pressOutside
  <2>1. CtxOK(fbCtx')
    BY <1>0, <1>2, MenuSteps
  <2>2. fbBox' = fbBox /\ fbSaved' = fbSaved
    BY <1>2 DEF showContextMenu, armMenu, pressOutside
  <2> QED BY <1>0, <2>1, <2>2 DEF BoxInv
<1>3. CASE chooseClause
  <2>1. CtxOK(fbCtx') /\ BoxOK(fbBox')
    BY <1>0, <1>3, MenuSteps, BoxSteps
  <2>2. fbSaved' = fbSaved
    BY <1>3 DEF chooseClause
  <2> QED BY <1>0, <2>1, <2>2 DEF BoxInv
<1>4. CASE toggleSaved \/ closeSaved \/ saveCurrent \/ deleteSaved
  <2>1. fbSaved' \in SavedRec /\ SavedOK(fbSaved')
    BY <1>0, <1>4, SavedSteps
  <2>2. fbBox' = fbBox /\ fbCtx' = fbCtx
    BY <1>4 DEF toggleSaved, closeSaved, saveCurrent, deleteSaved
  <2> QED BY <1>0, <2>1, <2>2 DEF BoxInv
<1>5. CASE pickSaved
  <2>1. fbSaved' \in SavedRec /\ SavedOK(fbSaved') /\ BoxOK(fbBox')
    BY <1>0, <1>5, SavedSteps, BoxSteps
  <2>2. fbCtx' = fbCtx
    BY <1>5 DEF pickSaved
  <2> QED BY <1>0, <2>1, <2>2 DEF BoxInv
<1>6. CASE UNCHANGED boxVars
  BY <1>6, <1>0 DEF boxVars, BoxInv
<1> QED BY <1>1, <1>2, <1>3, <1>4, <1>5, <1>6 DEF FilterBoxNext

------------------------------------------------------------------------------
(* The filter bars and the filter box together. *)

\* The bars and the box take their steps in any order.
FiltersSpec ==
    /\ FilterInit /\ [][FilterNext]_filterVars
    /\ AreaInit /\ [][AreaNext]_areaVars
    /\ FilterBoxInit /\ [][FilterBoxNext]_boxVars

\* A bar shows the selection it stands for once its request is answered; the
\* suggestion list offers what the text calls for and marks one of its items;
\* saved filters are listed once each (region-filter.js, area-filter.js and
\* filter-ux.js).
THEOREM FiltersTruthfulThm == FiltersSpec => []FiltersTruthful
<1>1. BarInv /\ AreaInv /\ BoxInv => FiltersTruthful
  BY BarTells, AreaTells, BoxTells DEF FiltersTruthful
<1> QED BY BarStarts, BarStep, AreaStarts, AreaStep, BoxStarts, BoxStep, <1>1, PTL DEF FiltersSpec
=============================================================================
