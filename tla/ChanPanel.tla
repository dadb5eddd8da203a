------------------------------- MODULE ChanPanel -------------------------------
(***************************************************************************)
(* What opens over the channels page: the panel and the tooltip of a       *)
(* sender (public/channels.js), the popover of channel colours (public/    *)
(* channel-color-picker.js), and the camera that scans a channel's code    *)
(* (public/channel-qr.js).                                                 *)
(***************************************************************************)
EXTENDS Integers, FiniteSets

CONSTANTS Senders, MaxPanelActs
ASSUME ChanPanelAssumption == MaxPanelActs \in Nat /\ "nobody" \notin Senders

VARIABLES panelOf,       \* sender in the panel, or nobody
          panelOpen, panelUrl,
          panelAsks,     \* showNodeDetail calls under way: [s, step]
          traps,         \* focus traps on the panel
          trapHeld,      \* _focusTrapCleanup is set
          tipOf, hovered, tipAsks, hideTimer,
          overlapped,    \* history: a panel was asked for while another was
          nPanel
panelVars == <<panelOf, panelOpen, panelUrl, panelAsks, traps, trapHeld, tipOf, hovered, tipAsks, hideTimer, overlapped, nPanel>>

Nobody == "nobody"
PanelInit ==
    /\ panelOf = Nobody /\ panelOpen = FALSE /\ panelUrl = Nobody /\ panelAsks = {} /\ traps = 0 /\ trapHeld = FALSE
    /\ tipOf = Nobody /\ hovered = Nobody /\ tipAsks = {} /\ hideTimer = FALSE /\ overlapped = FALSE /\ nPanel = 0
PanelAct == nPanel < MaxPanelActs /\ nPanel' = nPanel + 1

\* The trap that is held goes before the sender is looked up.
showNodeDetail(s) ==
    /\ PanelAct /\ panelAsks' = panelAsks \union {[s |-> s, step |-> 1]}
    /\ traps' = (IF trapHeld THEN traps - 1 ELSE traps) /\ trapHeld' = FALSE /\ overlapped' = (overlapped \/ panelAsks # {})
    /\ UNCHANGED <<panelOf, panelOpen, panelUrl, tipOf, hovered, tipAsks, hideTimer>>

\* The sender is known, or not: the panel opens, its address is written.
lookupNode(a) ==
    /\ a \in panelAsks /\ a.step = 1 /\ panelUrl' = a.s /\ panelOpen' = TRUE /\ panelOf' = a.s
    /\ \/ panelAsks' = (panelAsks \ {a}) \union {[a EXCEPT !.step = 2]} /\ UNCHANGED <<traps, trapHeld>>
       \/ panelAsks' = panelAsks \ {a} /\ traps' = traps + 1 /\ trapHeld' = TRUE
    /\ UNCHANGED <<tipOf, hovered, tipAsks, hideTimer, overlapped, nPanel>>
nodeDetailArrives(a) ==
    /\ a \in panelAsks /\ a.step = 2 /\ panelAsks' = panelAsks \ {a} /\ panelOf' = a.s /\ traps' = traps + 1 /\ trapHeld' = TRUE
    /\ UNCHANGED <<panelOpen, panelUrl, tipOf, hovered, tipAsks, hideTimer, overlapped, nPanel>>

closeKeepsTrap ==
    /\ PanelAct /\ panelOpen /\ trapHeld' = FALSE /\ panelOpen' = FALSE /\ panelUrl' = Nobody
    /\ UNCHANGED <<traps, panelOf, panelAsks, tipOf, hovered, tipAsks, hideTimer, overlapped>>
closeNodeDetail ==
    /\ PanelAct /\ panelOpen /\ traps' = (IF trapHeld THEN traps - 1 ELSE traps) /\ trapHeld' = FALSE
    /\ panelOpen' = FALSE /\ panelUrl' = Nobody
    /\ UNCHANGED <<panelOf, panelAsks, tipOf, hovered, tipAsks, hideTimer, overlapped>>

\* The tooltip is drawn when the lookup ends, and taken away a moment after
\* the pointer left.
mouseover(s) ==
    /\ PanelAct /\ hovered = Nobody /\ hovered' = s /\ hideTimer' = FALSE /\ tipAsks' = tipAsks \union {s}
    /\ UNCHANGED <<panelOf, panelOpen, panelUrl, panelAsks, traps, trapHeld, tipOf, overlapped>>
showNodeTooltip(s) ==
    /\ s \in tipAsks /\ tipAsks' = tipAsks \ {s} /\ tipOf' = s
    /\ UNCHANGED <<panelOf, panelOpen, panelUrl, panelAsks, traps, trapHeld, hovered, hideTimer, overlapped, nPanel>>
mouseout ==
    /\ PanelAct /\ hovered # Nobody /\ hovered' = Nobody /\ hideTimer' = TRUE
    /\ UNCHANGED <<panelOf, panelOpen, panelUrl, panelAsks, traps, trapHeld, tipOf, tipAsks, overlapped>>
hideNodeTooltip ==
    /\ hideTimer /\ hideTimer' = FALSE /\ tipOf' = Nobody
    /\ UNCHANGED <<panelOf, panelOpen, panelUrl, panelAsks, traps, trapHeld, hovered, tipAsks, overlapped, nPanel>>

PanelNext ==
    \/ \E s \in Senders : showNodeDetail(s) \/ mouseover(s) \/ showNodeTooltip(s)
    \/ \E a \in panelAsks : lookupNode(a) \/ nodeDetailArrives(a)
    \/ closeNodeDetail \/ mouseout \/ hideNodeTooltip

\* Focus traps do not pile up on the panel: at most the one that is held,
\* unless a panel was asked for while another was loading.
TrapsReleased == (~overlapped /\ panelAsks = {}) => traps = (IF trapHeld THEN 1 ELSE 0)

-------------------------------------------------------------------------------
(* The popover of channel colours.                                          *)
VARIABLES pickerOf,      \* channel it is open for, or nobody
          lockHeld, focusTimer,
          pickFocus,     \* "page", "first", "other": where the focus is
          listenTimers, listening,
          hidEarly,      \* history: hidden before its listeners were set
          nPick
pickVars == <<pickerOf, lockHeld, focusTimer, pickFocus, listenTimers, listening, hidEarly, nPick>>

PickInit ==
    /\ pickerOf = Nobody /\ lockHeld = FALSE /\ focusTimer = FALSE /\ pickFocus = "page" /\ listenTimers = 0
    /\ listening = FALSE /\ hidEarly = FALSE /\ nPick = 0
PickAct == nPick < MaxPanelActs /\ nPick' = nPick + 1

showPopover(c) ==
    /\ PickAct /\ pickerOf' = c /\ lockHeld' = TRUE /\ focusTimer' = TRUE /\ listenTimers' = listenTimers + 1
    /\ UNCHANGED <<pickFocus, listening, hidEarly>>
focusFirst == pickFocus' = "first"
focusUnlessInside == pickFocus' = (IF pickerOf = Nobody \/ pickFocus # "page" THEN pickFocus ELSE "first")
focusTimerFires ==
    /\ focusTimer /\ focusTimer' = FALSE /\ focusUnlessInside
    /\ UNCHANGED <<pickerOf, lockHeld, listenTimers, listening, hidEarly, nPick>>
listenTimerFires ==
    /\ listenTimers > 0 /\ listenTimers' = listenTimers - 1 /\ listening' = TRUE
    /\ UNCHANGED <<pickerOf, lockHeld, focusTimer, pickFocus, hidEarly, nPick>>
arrowKey ==
    /\ PickAct /\ pickerOf # Nobody /\ pickFocus' = "other"
    /\ UNCHANGED <<pickerOf, lockHeld, focusTimer, listenTimers, listening, hidEarly>>
HidesOnly ==
    /\ pickerOf' = Nobody /\ focusTimer' = FALSE /\ listening' = FALSE
    /\ pickFocus' = "page" /\ hidEarly' = (hidEarly \/ listenTimers > 0) /\ UNCHANGED <<lockHeld, listenTimers>>

HidesDeafLater ==
    /\ pickerOf' = Nobody /\ lockHeld' = FALSE /\ focusTimer' = FALSE /\ UNCHANGED listening
    /\ pickFocus' = "page" /\ hidEarly' = (hidEarly \/ listenTimers > 0) /\ UNCHANGED listenTimers

Hides ==
    /\ pickerOf' = Nobody /\ lockHeld' = FALSE /\ focusTimer' = FALSE /\ listening' = FALSE
    /\ pickFocus' = "page" /\ hidEarly' = (hidEarly \/ listenTimers > 0) /\ UNCHANGED listenTimers
hidePopover == PickAct /\ pickerOf # Nobody /\ Hides
onEscape == PickAct /\ listening /\ Hides

PickNext ==
    \/ \E c \in Senders : showPopover(c)
    \/ focusTimerFires \/ listenTimerFires \/ arrowKey \/ hidePopover \/ onEscape

\* The page scrolls exactly when no popover is open.
PickerLock == lockHeld = (pickerOf # Nobody)

\* A focus the user moved with the arrow keys is not taken back to the first
\* colour by the popover's timer (#1943).
FocusNotStolen == [][pickFocus = "other" => pickFocus' # "first"]_pickVars

\* The listeners that watch for clicks and keys outside are on while a
\* popover has settled, and off when none is open, unless one was hidden
\* before its listeners were set.
ListensWhileOpen ==
    listenTimers = 0 => /\ pickerOf # Nobody => listening
                        /\ (pickerOf = Nobody /\ ~hidEarly) => ~listening

-------------------------------------------------------------------------------
(* scan: the camera and its frames.                                         *)
VARIABLES scanDone, camera, frame, permission, playing, overlay, grantedLate, giveUp
scanVars == <<scanDone, camera, frame, permission, playing, overlay, grantedLate, giveUp>>

ScanInit ==
    /\ scanDone = FALSE /\ camera = FALSE /\ frame = FALSE /\ permission = "asked" /\ playing = FALSE /\ overlay = TRUE
    /\ grantedLate = FALSE /\ giveUp = FALSE

cleanupLeavesStream == scanDone' = TRUE /\ overlay' = FALSE /\ frame' = FALSE /\ UNCHANGED camera
cleanup ==
    IF scanDone THEN UNCHANGED <<scanDone, camera, frame, overlay>>
    ELSE scanDone' = TRUE /\ overlay' = FALSE /\ frame' = FALSE /\ camera' = FALSE
cancelClick == overlay /\ cleanup /\ UNCHANGED <<permission, playing, grantedLate, giveUp>>
getUserMedia(ok) ==
    /\ permission = "asked" /\ permission' = (IF ok THEN "granted" ELSE "denied")
    /\ camera' = ok /\ playing' = ok /\ grantedLate' = (ok /\ scanDone) /\ giveUp' = ~ok
    /\ UNCHANGED <<scanDone, frame, overlay>>
videoPlays == playing /\ playing' = FALSE /\ frame' = ~scanDone /\ UNCHANGED <<scanDone, camera, permission, overlay, grantedLate, giveUp>>
tick(found) ==
    /\ frame /\ UNCHANGED <<permission, playing, grantedLate, giveUp>>
    /\ IF ~found THEN UNCHANGED <<scanDone, camera, frame, overlay>> ELSE cleanup
giveUpTimer == giveUp /\ giveUp' = FALSE /\ cleanup /\ UNCHANGED <<permission, playing, grantedLate>>

ScanNext == cancelClick \/ (\E ok \in BOOLEAN : getUserMedia(ok) \/ tick(ok)) \/ videoPlays \/ giveUpTimer

\* When the scan is over the camera is off and no frame is read, unless the
\* browser granted the camera after the user had cancelled.
ScanReleases == scanDone => ~frame /\ ~overlay /\ (~grantedLate => ~camera)

\* "Closes camera on resolve/reject": when the scan is over, it is off.
CameraClosed == scanDone => ~camera

-------------------------------------------------------------------------------
(* The two modals: one adds a channel, the other shows a key to share.      *)
VARIABLES addModal,      \* the modal to add a channel is open
          pskKey,        \* its field for a key: "", "bad", "hex"
          pskError, scanning,
          shareModal,    \* "closed", "key", "error"
          shareTraps,    \* Tab handlers on the share modal
          _shareModalTrigger,
          focusOn,       \* "page", "row", "add", "share"
          nModal
modalVars == <<addModal, pskKey, pskError, scanning, shareModal, shareTraps, _shareModalTrigger, focusOn, nModal>>

ModalInit ==
    /\ addModal = FALSE /\ pskKey = "" /\ pskError = FALSE /\ scanning = FALSE /\ shareModal = "closed" /\ shareTraps = 0
    /\ _shareModalTrigger = "page" /\ focusOn = "page" /\ nModal = 0
ModalAct == nModal < MaxPanelActs /\ nModal' = nModal + 1

\* The overlay of an open modal keeps the pointer from the page.
openAddModal ==
    /\ ModalAct /\ shareModal = "closed" /\ addModal' = TRUE /\ focusOn' = "add"
    /\ UNCHANGED <<pskKey, pskError, scanning, shareModal, shareTraps, _shareModalTrigger>>
typeKey(k) ==
    /\ ModalAct /\ addModal /\ k \in {"bad", "hex"} /\ pskKey' = k /\ focusOn' = "add"
    /\ UNCHANGED <<addModal, pskError, scanning, shareModal, shareTraps, _shareModalTrigger>>
closeAddModal ==
    /\ addModal' = FALSE /\ pskError' = FALSE /\ focusOn' = (IF focusOn = "add" THEN "page" ELSE focusOn)
pskAddClick ==
    /\ ModalAct /\ addModal
    /\ IF pskKey = "hex" THEN closeAddModal /\ pskKey' = ""
       ELSE pskError' = TRUE /\ UNCHANGED <<addModal, pskKey, focusOn>>
    /\ UNCHANGED <<scanning, shareModal, shareTraps, _shareModalTrigger>>
scanClick ==
    /\ ModalAct /\ addModal /\ scanning' = TRUE
    /\ UNCHANGED <<addModal, pskKey, pskError, shareModal, shareTraps, _shareModalTrigger, focusOn>>
scanAnswers(res) ==
    /\ scanning /\ scanning' = FALSE /\ res \in {"hex", "cancel", "fail"}
    /\ pskKey' = (IF res = "hex" THEN "hex" ELSE pskKey)
    /\ pskError' = (IF res = "cancel" THEN pskError ELSE res = "fail")
    /\ UNCHANGED <<addModal, shareModal, shareTraps, _shareModalTrigger, focusOn, nModal>>

focusRow ==
    /\ ModalAct /\ ~addModal /\ shareModal = "closed" /\ focusOn' = "row"
    /\ UNCHANGED <<addModal, pskKey, pskError, scanning, shareModal, shareTraps, _shareModalTrigger>>
_trapShareModalFocus == shareTraps' = shareTraps + 1 /\ focusOn' = "share"
\* The button on a row of the list: with a stored key, or to say there is none.
openShareModal(how) ==
    /\ ModalAct /\ shareModal = "closed" /\ focusOn = "row" /\ shareModal' = how /\ _shareModalTrigger' = focusOn
    /\ _trapShareModalFocus /\ UNCHANGED <<addModal, pskKey, pskError, scanning>>
closeShareBlind ==
    /\ shareModal' = "closed" /\ shareTraps' = shareTraps - 1 /\ _shareModalTrigger' = "page" /\ focusOn' = "page"
closeShareTrapped ==
    /\ shareModal' = "closed" /\ shareTraps' = shareTraps /\ _shareModalTrigger' = "page" /\ focusOn' = _shareModalTrigger
closeShareModal ==
    /\ shareModal' = "closed" /\ shareTraps' = shareTraps - 1 /\ _shareModalTrigger' = "page" /\ focusOn' = _shareModalTrigger
clickClose ==
    /\ ModalAct
    /\ \/ addModal /\ closeAddModal /\ UNCHANGED <<shareModal, shareTraps, _shareModalTrigger>>
       \/ shareModal # "closed" /\ closeShareModal /\ UNCHANGED <<addModal, pskError>>
    /\ UNCHANGED <<pskKey, scanning>>
\* Each modal has a handler of its own on the document.
escapeKey ==
    /\ ModalAct /\ (addModal \/ shareModal # "closed")
    /\ IF shareModal # "closed" THEN closeShareModal /\ UNCHANGED <<addModal, pskError>>
       ELSE closeAddModal /\ UNCHANGED <<shareModal, shareTraps, _shareModalTrigger>>
    /\ UNCHANGED <<pskKey, scanning>>

ModalNext ==
    \/ openAddModal \/ pskAddClick \/ scanClick \/ focusRow \/ clickClose \/ escapeKey
    \/ \E k \in {"bad", "hex"} : typeKey(k)
    \/ \E res \in {"hex", "cancel", "fail"} : scanAnswers(res)
    \/ \E how \in {"key", "error"} : openShareModal(how)

\* However often the share modal is opened and closed, by the button, the
\* overlay or Escape, one Tab handler holds the focus in it while it is open
\* and none is left on it after.
ShareTrapExact == shareTraps = (IF shareModal = "closed" THEN 0 ELSE 1)

\* The focus stays in the share modal, and goes back to the row it was
\* opened from.
ShareFocusStep ==
    /\ shareModal # "closed" /\ shareModal' = "closed" => focusOn' = "row"
    /\ shareModal' # "closed" => focusOn' = "share"
ShareFocusReturns == [][ShareFocusStep]_modalVars

(* Dialogs release what they trap and listen while they are open; closing
   one gives the focus back and opening one never takes it from another. *)
DialogsBehave ==
    /\ [](TrapsReleased /\ PickerLock /\ ListensWhileOpen /\ ScanReleases /\ ShareTrapExact)
    /\ FocusNotStolen
    /\ ShareFocusReturns
================================================================================
