--------------------------------- MODULE PktPanels ---------------------------------
(***************************************************************************)
(* TableResponsive (public/packets.js): columns that are hidden below a    *)
(* breakpoint, the "+N hidden" pill that brings them back, and the         *)
(* observers that keep rows added later in step with the header.  A table  *)
(* is made anew on every visit of a page.                                  *)
(***************************************************************************)
EXTENDS Integers, FiniteSets, TLC

CONSTANTS Tables,       \* the tables of successive visits
          Prio,         \* column -> data-priority
          Widths,       \* widths of the window
          MaxFits       \* bound on what the user and the page do

ASSUME TableFitAssumption == Prio \in [DOMAIN Prio -> 1..6] /\ Widths \subseteq Nat /\ MaxFits \in Nat

VARIABLES tbl,          \* table -> [conn, reveal, hdr, body, pill]
          wired,        \* tables with a ResizeObserver
          wiredMO,      \* tables with a MutationObserver on their tbody
          vw,           \* window.innerWidth
          wrapW,        \* table -> lastWrapW
          roDue,        \* tables whose ResizeObserver is to be called
          winTimer, nfits

fitVars == <<tbl, wired, wiredMO, vw, wrapW, roDue, winTimer, nfits>>

BP == 2 :> 1280 @@ 3 :> 1024 @@ 4 :> 900 @@ 5 :> 768

\* A column without a breakpoint stays.
candidates(w) == {c \in DOMAIN Prio : Prio[c] \in DOMAIN BP /\ w <= BP[Prio[c]]}

\* hdr: hidden columns of the header; body: one set of hidden columns per row.
NoTable == [conn |-> FALSE, reveal |-> FALSE, hdr |-> {}, body |-> {}, pill |-> "none"]

FitInit ==
    /\ tbl = [t \in Tables |-> NoTable] /\ wired = {} /\ wiredMO = {} /\ vw \in Widths
    /\ wrapW = [t \in Tables |-> 0] /\ roDue = {} /\ winTimer = FALSE /\ nfits = 0

FitStep == nfits < MaxFits /\ nfits' = nfits + 1

clearHidden(r) == [r EXCEPT !.hdr = {}, !.body = {{} : b \in r.body}, !.pill = "none"]

applyHeadOnly(r, w) ==
    LET hide == candidates(w)
    IN IF ~r.conn THEN r ELSE IF r.reveal THEN clearHidden(r)
       ELSE [r EXCEPT !.hdr = hide, !.pill = IF hide = {} THEN "none" ELSE "reveal"]

apply(r, w) ==
    LET hide == candidates(w)
    IN IF ~r.conn THEN r ELSE IF r.reveal THEN clearHidden(r)
       ELSE [r EXCEPT !.hdr = hide, !.body = {hide : b \in r.body}, !.pill = IF hide = {} THEN "none" ELSE "reveal"]

sweepNothing == wired
sweepDetached == {t \in wired : tbl[t].conn}

\* A page is left: its table goes with it; the next navigate may sweep.
leaveTable(t, sweeps) ==
    /\ FitStep /\ tbl[t].conn /\ tbl' = [tbl EXCEPT ![t] = NoTable]
    /\ wired' = (IF sweeps THEN {u \in wired : u # t /\ tbl[u].conn} ELSE wired)
    /\ wiredMO' = (IF sweeps THEN wiredMO \intersect wired' ELSE wiredMO)
    /\ UNCHANGED <<vw, wrapW, roDue, winTimer>>

\* A page builds its table and registers it.
register(t) ==
    /\ FitStep /\ \A u \in Tables : ~tbl[u].conn
    /\ t \notin wired /\ wrapW[t] = 0
    /\ tbl' = [tbl EXCEPT ![t] = apply([NoTable EXCEPT !.conn = TRUE, !.body = {{}}], vw)]
    /\ wired' = sweepDetached \union {t} /\ wiredMO' = (wiredMO \intersect sweepDetached) \union {t}
    /\ wrapW' = [wrapW EXCEPT ![t] = vw] /\ UNCHANGED <<vw, roDue, winTimer>>

\* Rows are added or all replaced; the observer's callback runs before any
\* other task.
tbodyChanges(t, keep) ==
    /\ FitStep /\ tbl[t].conn
    /\ LET r == [tbl[t] EXCEPT !.body = (IF keep THEN @ ELSE {}) \union {{}}]
       IN tbl' = [tbl EXCEPT ![t] = IF t \in wiredMO THEN apply(r, vw) ELSE r]
    /\ UNCHANGED <<wired, wiredMO, vw, wrapW, roDue, winTimer>>

pillClick(t) ==
    /\ FitStep /\ tbl[t].conn /\ tbl[t].pill = "reveal"
    /\ tbl' = [tbl EXCEPT ![t] = [clearHidden([@ EXCEPT !.reveal = TRUE]) EXCEPT !.pill = "rehide"]]
    /\ UNCHANGED <<wired, wiredMO, vw, wrapW, roDue, winTimer>>
rehideClick(t) ==
    /\ FitStep /\ tbl[t].conn /\ tbl[t].pill = "rehide"
    /\ tbl' = [tbl EXCEPT ![t] = apply([@ EXCEPT !.reveal = FALSE], vw)]
    /\ UNCHANGED <<wired, wiredMO, vw, wrapW, roDue, winTimer>>

WindowResizes(w) ==
    /\ FitStep /\ w # vw /\ vw' = w /\ winTimer' = TRUE /\ roDue' = {t \in wired : tbl[t].conn}
    /\ UNCHANGED <<tbl, wired, wiredMO, wrapW>>

\* Only a container that really changed its width drops the reveal.
resizeObserved(t) ==
    /\ t \in roDue /\ roDue' = roDue \ {t}
    /\ IF t \notin wired \/ vw - wrapW[t] \in -2..2 THEN UNCHANGED <<tbl, wrapW>>
       ELSE /\ wrapW' = [wrapW EXCEPT ![t] = vw]
            /\ tbl' = [tbl EXCEPT ![t] = apply([@ EXCEPT !.reveal = FALSE], vw)]
    /\ UNCHANGED <<wired, wiredMO, vw, winTimer, nfits>>
winTimerSweepsOnly ==
    /\ winTimer /\ winTimer' = FALSE /\ wired' = sweepDetached /\ UNCHANGED <<tbl, wiredMO, vw, wrapW, roDue, nfits>>
winTimerFires ==
    /\ winTimer /\ winTimer' = FALSE /\ wired' = sweepDetached
    /\ tbl' = [t \in Tables |-> IF t \in wired' THEN apply([tbl[t] EXCEPT !.reveal = FALSE], vw) ELSE tbl[t]]
    /\ UNCHANGED <<wiredMO, vw, wrapW, roDue, nfits>>

FitNext ==
    \/ \E t \in Tables : register(t) \/ pillClick(t) \/ rehideClick(t) \/ resizeObserved(t)
    \/ \E t \in Tables, b \in BOOLEAN : tbodyChanges(t, b) \/ leaveTable(t, b)
    \/ \E w \in Widths : WindowResizes(w)
    \/ winTimerFires

(* A cell is hidden exactly when its column's header is, whenever its row   *)
(* was added.                                                               *)
CellsFollowHeader == \A t \in wired : tbl[t].conn => tbl[t].body \subseteq {tbl[t].hdr}

(* Unless the user asked for all of them, the hidden columns are those of   *)
(* the window's width as soon as the debounced resize has been handled.     *)
FitsTheWindow == \A t \in wired : tbl[t].conn /\ ~winTimer /\ ~tbl[t].reveal => tbl[t].hdr = candidates(vw)

(* Remounting a page never piles up observers: at most the table that was   *)
(* left last is still observed.                                             *)
NoObserverPile == Cardinality({t \in wired : ~tbl[t].conn}) <= 1

(* "so the user isn't stuck": a table with revealed columns has the button  *)
(* that hides them again.  Rows that arrive take it away.                   *)
WayBack == \A t \in wired : tbl[t].conn /\ tbl[t].reveal => tbl[t].pill = "rehide"

------------------------------------------------------------------------------
(***************************************************************************)
(* SlideOver (public/packets.js): the detail panel that slides over a      *)
(* table on narrow windows, the scroll lock it shares with other modals,   *)
(* and the chain of callbacks that brings the focus back to the row after  *)
(* the panel closed and the table was drawn again.                         *)
(***************************************************************************)

CONSTANTS Rows,         \* rows of the table
          NoRow,        \* none of them
          MaxSlides     \* bound on opens, re-renders and the like

ASSUME SlideOverAssumption == NoRow \notin Rows /\ Rows \intersect {"x", "body", "else"} = {} /\ MaxSlides \in Nat

VARIABLES slide,        \* [open, row, token]: panelOpen, whom for, scrollLockToken
          openSeq, selected,
          locks,        \* live tokens of __scrollLock
          nextToken, lockCount, scrollLocked,
          picker,       \* the token of another modal surface, 0 for none
          chains,       \* closes not done with the focus: [seq, row, at]
          focus,        \* a row, "x" in the panel, "body" or "else"
          inDom,        \* rows in the document
          wide, resizeT,
          closedRow, late,  \* history: last closed row; drawn again after its chain ended
          nslides

slideVars == <<slide, openSeq, selected, locks, nextToken, lockCount, scrollLocked, picker, chains, focus, inDom,
               wide, resizeT, closedRow, late, nslides>>
lockVars == <<locks, nextToken, lockCount, scrollLocked>>

SlideInit ==
    /\ slide = [open |-> FALSE, row |-> NoRow, token |-> 0] /\ openSeq = 0 /\ selected = NoRow
    /\ locks = {} /\ nextToken = 1 /\ lockCount = 0 /\ scrollLocked = FALSE /\ picker = 0
    /\ chains = {} /\ focus = "body" /\ inDom = Rows /\ wide = FALSE /\ resizeT = FALSE
    /\ closedRow = NoRow /\ late = FALSE /\ nslides = 0

SlideStep == nslides < MaxSlides /\ nslides' = nslides + 1

acquire == /\ locks' = locks \union {nextToken} /\ nextToken' = nextToken + 1
           /\ lockCount' = lockCount + 1 /\ scrollLocked' = TRUE
\* Releasing twice does nothing the second time.
release(tok) ==
    IF tok \notin locks THEN UNCHANGED lockVars
    ELSE /\ locks' = locks \ {tok} /\ lockCount' = lockCount - 1
         /\ scrollLocked' = (lockCount > 1) /\ UNCHANGED nextToken

\* Where the focus is once a close is through: on the row if it is there,
\* or nowhere if it was in the panel.  The rows were drawn again by onClose.
FocusAfterClose == IF slide.row \in inDom THEN slide.row ELSE IF focus \in Rows \union {"x"} THEN "body" ELSE focus
Chain(r) == [seq |-> openSeq, row |-> r, at |-> "frame"]

closeSilently ==
    /\ slide' = [open |-> FALSE, row |-> NoRow, token |-> 0] /\ release(slide.token)
    /\ focus' = FocusAfterClose
    /\ chains' = chains \union {Chain(slide.row)} /\ closedRow' = slide.row /\ late' = FALSE
    /\ UNCHANGED <<openSeq, selected, picker, inDom, wide>>

\* Token, onClose (selection cleared, rows drawn again), focus, detach, and
\* a chain for the case that the rows are replaced once more.
close ==
    /\ slide' = [open |-> FALSE, row |-> NoRow, token |-> 0] /\ release(slide.token)
    /\ selected' = NoRow /\ focus' = FocusAfterClose
    /\ chains' = chains \union {Chain(slide.row)} /\ closedRow' = slide.row /\ late' = FALSE
    /\ UNCHANGED <<openSeq, picker, inDom, wide>>

openOver(r) ==
    /\ SlideStep /\ ~wide /\ r \in inDom
    /\ acquire
    /\ slide' = [open |-> TRUE, row |-> r, token |-> nextToken]
    /\ openSeq' = openSeq + 1 /\ selected' = r /\ focus' = "x"
    /\ chains' = {c \in chains : c.at = "frame"}
    /\ UNCHANGED <<picker, inDom, wide, resizeT, closedRow, late>>

\* selectPacket: a panel that is open is closed first, with its onClose and
\* its token; observers of earlier closes are disconnected.
open(r) ==
    /\ SlideStep /\ ~wide /\ r \in inDom
    /\ IF slide.open
       THEN /\ locks' = (locks \ {slide.token}) \union {nextToken} /\ nextToken' = nextToken + 1
            /\ UNCHANGED lockCount /\ scrollLocked' = TRUE
            /\ chains' = {c \in chains : c.at = "frame"} \union {Chain(slide.row)} /\ closedRow' = slide.row
       ELSE acquire /\ chains' = {c \in chains : c.at = "frame"} /\ UNCHANGED closedRow
    /\ slide' = [open |-> TRUE, row |-> r, token |-> nextToken]
    /\ openSeq' = openSeq + 1 /\ selected' = r /\ focus' = "x"
    /\ UNCHANGED <<picker, inDom, wide, resizeT, late>>

\* X, backdrop, Escape, or a hash whose page segment differs.
UserCloses == SlideStep /\ slide.open /\ close /\ UNCHANGED resizeT

\* deferredRecheck, one frame later.
deferredRecheckTrusts(c) ==
    /\ c \in chains /\ c.at = "frame" /\ UNCHANGED focus
    /\ IF c.seq # openSeq \/ c.row \in inDom THEN chains' = chains \ {c}
       ELSE chains' = (chains \ {c}) \union {[c EXCEPT !.at = "observer"]}
    /\ UNCHANGED <<slide, openSeq, selected, locks, nextToken, lockCount, scrollLocked, picker, inDom, wide, resizeT, closedRow, late, nslides>>
deferredRecheckBlind(c) ==
    /\ c \in chains /\ c.at = "frame"
    /\ IF c.row \in inDom THEN focus' = c.row /\ chains' = chains \ {c}
       ELSE UNCHANGED focus /\ chains' = (chains \ {c}) \union {[c EXCEPT !.at = "observer"]}
    /\ UNCHANGED <<slide, openSeq, selected, locks, nextToken, lockCount, scrollLocked, picker, inDom, wide, resizeT, closedRow, late, nslides>>
deferredRecheck(c) ==
    /\ c \in chains /\ c.at = "frame"
    /\ IF c.seq # openSeq THEN chains' = chains \ {c} /\ UNCHANGED focus
       ELSE IF c.row \in inDom THEN focus' = c.row /\ chains' = chains \ {c}
       ELSE UNCHANGED focus /\ chains' = (chains \ {c}) \union {[c EXCEPT !.at = "observer"]}
    /\ UNCHANGED <<slide, openSeq, selected, locks, nextToken, lockCount, scrollLocked, picker, inDom, wide, resizeT, closedRow, late, nslides>>

\* The 200 ms are over.
observerTimeout(c) ==
    /\ c \in chains /\ c.at = "observer" /\ chains' = chains \ {c}
    /\ UNCHANGED <<slide, openSeq, selected, locks, nextToken, lockCount, scrollLocked, picker, focus, inDom, wide, resizeT, closedRow, late, nslides>>

\* The table is drawn again, with these rows; observers are called.
attachBodyObserver(rows) ==
    /\ SlideStep /\ inDom' = rows
    /\ LET watching == {c \in chains : c.at = "observer"}
           landed == {c \in watching : c.seq = openSeq /\ c.row \in rows}
           here == IF focus \in Rows THEN "body" ELSE focus
       IN /\ focus' = IF landed = {} THEN here ELSE (CHOOSE c \in landed : TRUE).row
          /\ chains' = chains \ (landed \union {c \in watching : c.seq # openSeq})
    /\ late' = (late \/ {c \in chains : c.seq = openSeq} = {})
    /\ UNCHANGED <<slide, openSeq, selected, locks, nextToken, lockCount, scrollLocked, picker, wide, resizeT, closedRow>>

\* The channel colour picker takes and returns its own token.
PickerToggles ==
    /\ SlideStep
    /\ IF picker = 0 THEN acquire /\ picker' = nextToken ELSE release(picker) /\ picker' = 0
    /\ UNCHANGED <<slide, openSeq, selected, chains, focus, inDom, wide, resizeT, closedRow, late>>

WindowWidens ==
    /\ SlideStep /\ wide' = ~wide /\ resizeT' = (resizeT \/ slide.open)
    /\ UNCHANGED <<slide, openSeq, selected, locks, nextToken, lockCount, scrollLocked, picker, chains, focus, inDom, closedRow, late>>
resizeTFires ==
    /\ resizeT /\ resizeT' = FALSE /\ UNCHANGED nslides
    /\ IF slide.open /\ wide THEN close
       ELSE UNCHANGED <<slide, openSeq, selected, locks, nextToken, lockCount, scrollLocked, picker, chains, focus, inDom, wide, closedRow, late>>

SlideNext ==
    \/ \E r \in Rows : open(r)
    \/ UserCloses \/ PickerToggles \/ WindowWidens \/ resizeTFires
    \/ \E c \in chains : deferredRecheck(c) \/ observerTimeout(c)
    \/ \E rows \in SUBSET Rows : attachBodyObserver(rows)

(* The page scrolls exactly when no surface that locks it is open, in       *)
(* whatever order the surfaces come and go.                                 *)
ScrollLockExact == scrollLocked <=> slide.open \/ picker # 0

(* While the panel is open no callback of an earlier close takes the focus  *)
(* out of it.                                                               *)
FocusInPanel == slide.open => focus = "x"

(* The row marked as selected is the one the panel shows; closing, in any   *)
(* of its ways, and replacing the panel leave no mark behind.               *)
SelectionIsShown == selected = slide.row

(* When the chain of the last close has run, the focus is on the row it     *)
(* came from if that row is there, however often it was replaced meanwhile. *)
FocusReturns ==
    ~slide.open /\ closedRow \in inDom /\ ~late /\ chains = {} => focus = closedRow

(* The cells follow their header and fit the window; the slide-over keeps
   the scroll lock, the focus and the selection exact. *)
PanelsConsistent ==
    /\ CellsFollowHeader
    /\ FitsTheWindow
    /\ NoObserverPile
    /\ ScrollLockExact
    /\ FocusInPanel
    /\ SelectionIsShown
    /\ FocusReturns
==============================================================================
