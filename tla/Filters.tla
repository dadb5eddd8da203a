---------------------------------- MODULE Filters ----------------------------------
(***************************************************************************)
(* The region and the area filter every page shares (public/               *)
(* region-filter.js, public/area-filter.js): the selection is kept in      *)
(* localStorage, the codes come from the server once, and each page puts a *)
(* bar of its own into the document.                                       *)
(***************************************************************************)
EXTENDS Integers, FiniteSets, Sequences, SequencesExt, FiniteSetsExt, Subsequences

CONSTANTS RgCodes,      \* codes the server may have
          RgUrl,        \* codes a link may name
          RgPills,      \* regions that fit a row of pills (4)
          MaxRgInits,   \* pages that put a bar into the document
          MaxRgUses     \* bound on what the user does

ASSUME FilterAssumption == RgCodes # {} /\ "__all__" \notin RgCodes \union RgUrl /\ RgPills \in Nat /\ MaxRgInits \in Nat /\ MaxRgUses \in Nat

\* No selection stands for all, in memory and in the storage.
VARIABLES rgCodes,      \* _regions
          rgSel,        \* _selected
          rgStored,     \* localStorage
          rgLoaded,     \* _loaded
          rgAsks,       \* requests under way, by the bar that awaits them
          rgBar,        \* the newest bar, 0 before the first; earlier ones are gone
          rgShown,      \* what it shows: [codes, sel]; nothing below two codes
          rgLinked,     \* history: codes links named since the codes came
          rgServer,     \* the server's codes
          rgLost,       \* history: of two pages' requests one failed, or the older
                        \* one's answer cleaned the selection
          rgAll, rgUses \* RegionShowAll

filterVars == <<rgCodes, rgSel, rgStored, rgLoaded, rgAsks, rgBar, rgShown, rgLinked, rgServer, rgLost, rgAll, rgUses>>

Nothing == [codes |-> {}, sel |-> {}]
\* Without a selection every pill, or box, is marked.
renderPills(codes, sel) == [codes |-> codes, sel |-> IF sel = {} THEN codes ELSE codes \intersect sel]
renderDropdown(codes, sel) == [codes |-> codes, sel |-> {c \in codes : sel = {} \/ c \in sel}]
render(codes, sel) ==
    IF Cardinality(codes) < 2 THEN Nothing
    ELSE IF Cardinality(codes) > RgPills THEN renderDropdown(codes, sel) ELSE renderPills(codes, sel)
\* A reload of the page starts with what was stored.
FilterInit ==
    /\ rgCodes = {} /\ rgStored \in SUBSET RgUrl /\ rgSel = rgStored /\ rgLoaded = FALSE /\ rgAsks = {} /\ rgBar = 0 /\ rgShown = Nothing
    /\ rgLinked = {} /\ rgServer \in {RgCodes} \union {RgCodes \ {r} : r \in RgCodes} /\ rgLost = FALSE /\ rgAll = FALSE /\ rgUses = 0

\* A page: its bar is filled at once when the codes are known.
initFilter ==
    /\ rgBar < MaxRgInits /\ rgBar' = rgBar + 1
    /\ IF rgLoaded THEN rgShown' = render(rgCodes, rgSel) /\ UNCHANGED rgAsks
       ELSE rgShown' = Nothing /\ rgAsks' = rgAsks \union {rgBar + 1}
    /\ UNCHANGED <<rgCodes, rgSel, rgStored, rgLoaded, rgLinked, rgServer, rgLost, rgAll, rgUses>>
keepUnknown(sel, codes) == sel
\* A stored selection loses the codes the server no longer has.
cleaned(sel, codes) == sel \intersect codes
fetchRegions(b) ==
    LET codes == rgServer
        sel == cleaned(rgSel, codes) IN
    /\ rgAsks' = rgAsks \ {b} /\ rgCodes' = codes /\ rgLoaded' = TRUE /\ rgSel' = sel /\ rgStored' = sel
    /\ rgShown' = (IF b = rgBar THEN render(codes, sel) ELSE rgShown) /\ rgLinked' = {}
    /\ rgLost' = (rgLost \/ (b # rgBar /\ sel # rgSel)) /\ UNCHANGED <<rgBar, rgServer, rgAll, rgUses>>
\* It is not tried again before the next page; the codes are dropped, even
\* those another request brought.
fetchRegionsFails(b) ==
    /\ rgAsks' = rgAsks \ {b} /\ rgCodes' = {} /\ rgShown' = (IF b = rgBar THEN render({}, rgSel) ELSE rgShown)
    /\ rgLost' = (rgLost \/ rgLoaded \/ rgAsks # {b})
    /\ UNCHANGED <<rgSel, rgStored, rgLoaded, rgBar, rgLinked, rgServer, rgAll, rgUses>>

FilterUse == rgUses < MaxRgUses /\ rgUses' = rgUses + 1
Toggled(sel, region, n) ==
    LET s == IF region \in sel THEN sel \ {region} ELSE sel \union {region} IN
    IF region = "__all__" \/ Cardinality(s) = n THEN {} ELSE s
\* A click on a pill or a box: stored, drawn, and the page is told.
toggleRegion(region) ==
    LET sel == Toggled(rgSel, region, Cardinality(rgShown.codes)) IN
    /\ FilterUse /\ rgShown # Nothing /\ rgSel' = sel /\ rgStored' = sel /\ rgShown' = render(rgCodes, sel)
    /\ UNCHANGED <<rgCodes, rgLoaded, rgAsks, rgBar, rgLinked, rgServer, rgLost, rgAll>>
setSelectedQuietly(codes) ==
    /\ FilterUse /\ rgSel' = codes /\ rgStored' = codes /\ UNCHANGED <<rgCodes, rgLoaded, rgAsks, rgBar, rgShown, rgServer, rgLost, rgAll>> /\ rgLinked' = rgLinked \union codes
\* A link names the regions, or a button clears them; nobody is told.
setSelected(codes) ==
    /\ FilterUse /\ rgBar > 0 /\ rgSel' = codes /\ rgStored' = codes /\ rgShown' = render(rgCodes, codes) /\ rgLinked' = rgLinked \union codes
    /\ UNCHANGED <<rgCodes, rgLoaded, rgAsks, rgBar, rgServer, rgLost, rgAll>>
\* The newest bar's page shows faded nodes of other regions too.
showAllSet == FilterUse /\ rgAll' = ~rgAll /\ UNCHANGED <<rgCodes, rgSel, rgStored, rgLoaded, rgAsks, rgBar, rgShown, rgLinked, rgServer, rgLost>>
nodesRegionQueryString == IF rgAll THEN {} ELSE rgSel

FilterNext ==
    \/ initFilter \/ showAllSet \/ (\E b \in rgAsks : fetchRegions(b) \/ fetchRegionsFails(b))
    \/ (\E r \in rgShown.codes \union {"__all__"} : toggleRegion(r)) \/ (\E c \in SUBSET RgUrl : setSelected(c))

\* Once the newest page's request has ended, its bar shows the codes and the
\* selection the queries use, whether they came from a click, a link, the
\* storage or the server, provided an older page's request did not interfere (it may
\* fail, or clean what a link has set since).
BarIsTruthful == (rgBar > 0 /\ rgAsks = {} /\ ~rgLost) => rgShown = render(rgCodes, rgSel)
\* Once the server's codes have arrived, a code it does not have is only asked
\* for when a link has put it there since: what older visits stored is cleaned.
StoredIsKnown == rgLoaded => rgSel \subseteq RgCodes \union rgLinked

(* --- the area filter: one area or all --- *)

VARIABLES arList, arSel, arStored, arLoaded, arAsks, arBar, arShown, arServer, arLost, arUses

areaVars == <<arList, arSel, arStored, arLoaded, arAsks, arBar, arShown, arServer, arLost, arUses>>

AreaInit ==
    /\ arList = {} /\ arStored \in RgUrl \union {""} /\ arSel = arStored /\ arLoaded = FALSE /\ arAsks = {} /\ arBar = 0 /\ arShown = Nothing
    /\ arServer \in {RgCodes, {}} /\ arLost = FALSE /\ arUses = 0
renderArea(list, sel) == IF list = {} THEN Nothing ELSE [codes |-> list, sel |-> {sel}]
initArea ==
    /\ arBar < MaxRgInits /\ arBar' = arBar + 1
    /\ IF arLoaded THEN arShown' = renderArea(arList, arSel) /\ UNCHANGED arAsks
       ELSE arShown' = Nothing /\ arAsks' = arAsks \union {arBar + 1}
    /\ UNCHANGED <<arList, arSel, arStored, arLoaded, arServer, arLost, arUses>>
fetchAreasForgets(b) ==
    LET list == arServer
        sel == IF arSel \in list THEN arSel ELSE "" IN
    /\ arAsks' = arAsks \ {b} /\ arList' = list /\ arLoaded' = TRUE /\ arSel' = sel
    /\ arShown' = (IF b = arBar THEN renderArea(list, sel) ELSE arShown) /\ UNCHANGED <<arBar, arStored, arServer, arLost, arUses>>
fetchAreas(b) ==
    LET list == arServer
        sel == IF arSel \in list THEN arSel ELSE "" IN
    /\ arAsks' = arAsks \ {b} /\ arList' = list /\ arLoaded' = TRUE /\ arSel' = sel /\ arStored' = sel
    /\ arShown' = (IF b = arBar THEN renderArea(list, sel) ELSE arShown) /\ UNCHANGED <<arBar, arServer, arLost, arUses>>
fetchAreasFails(b) ==
    /\ arAsks' = arAsks \ {b} /\ arList' = {} /\ arShown' = (IF b = arBar THEN Nothing ELSE arShown)
    /\ arLost' = (arLost \/ arLoaded \/ arAsks # {b}) /\ UNCHANGED <<arSel, arStored, arLoaded, arBar, arServer, arUses>>
chooseArea(a) ==
    /\ arUses < MaxRgUses /\ arUses' = arUses + 1 /\ arShown # Nothing /\ arSel' = a /\ arStored' = a /\ arShown' = renderArea(arList, a)
    /\ UNCHANGED <<arList, arLoaded, arAsks, arBar, arServer, arLost>>

AreaNext ==
    \/ initArea \/ (\E b \in arAsks : fetchAreas(b) \/ fetchAreasFails(b))
    \/ \E a \in arShown.codes \union {""} : chooseArea(a)

\* The area the queries ask for is the one the newest bar marks, and the one a
\* reload would start from.
AreaIsTruthful == /\ (arBar > 0 /\ arAsks = {} /\ ~arLost) => arShown = renderArea(arList, arSel)
                  /\ arStored = arSel

------------------------------------------------------------------------------
(***************************************************************************)
(* The widgets around the filter expression (public/filter-ux.js): the     *)
(* suggestions under the input, the context menu of a cell, and the menu   *)
(* of saved filters.                                                       *)
(***************************************************************************)

CONSTANTS FbTexts,      \* expressions, "" among them
          FbSuggests,   \* how many suggestions each has
          FbNames,      \* names of saved filters
          FbBuiltin,    \* the built-in ones, in order
          MaxCtxMenus,  \* context menus opened
          MaxFbEdits    \* expressions typed or picked

ASSUME FilterBoxAssumption ==
    /\ "" \in FbTexts /\ FbSuggests \in [FbTexts -> Nat] /\ MaxCtxMenus \in Nat /\ MaxFbEdits \in Nat
    /\ FbBuiltin \in Seq(FbNames) /\ IsInjective(FbBuiltin)

VARIABLES fbBox,      \* the input and its dropdown
          fbCtx,      \* the context menu and the document's listeners for it
          fbSaved     \* the stored filters and the menu that lists them
boxVars == <<fbBox, fbCtx, fbSaved>>

FbItems == 12
ShownOf(v) == IF FbSuggests[v] > FbItems THEN FbItems ELSE FbSuggests[v]
FilterBoxInit ==
    /\ fbBox = [text |-> "", of |-> "", items |-> 0, sel |-> -1, open |-> FALSE, focus |-> FALSE, closing |-> 0, edits |-> 0]
    /\ fbCtx = [menu |-> 0, arming |-> {}, listening |-> {}, next |-> 1]
    /\ fbSaved = [user |-> <<>>, shown |-> <<>>, open |-> FALSE, picked |-> <<>>]

(***************************************************************************)
(* Suggestions.  refresh runs at each input event and at focus, whoever    *)
(* sent the event.                                                         *)
(***************************************************************************)
ClosedBox(b) == [b EXCEPT !.open = FALSE, !.sel = -1, !.items = 0]
RefreshKeepSel(b) == IF ShownOf(b.text) = 0 THEN ClosedBox(b)
                     ELSE [b EXCEPT !.of = b.text, !.items = ShownOf(b.text), !.sel = IF b.sel < 0 THEN 0 ELSE b.sel, !.open = TRUE]
Refresh(b) == IF ShownOf(b.text) = 0 THEN [ClosedBox(b) EXCEPT !.of = b.text]
              ELSE [b EXCEPT !.of = b.text, !.items = ShownOf(b.text), !.sel = 0, !.open = TRUE]
Put(b, v) == Refresh([b EXCEPT !.text = v, !.edits = @ + 1])
CanEdit == fbBox.edits < MaxFbEdits
typeText == \E v \in FbTexts : fbBox.focus /\ CanEdit /\ fbBox' = Put(fbBox, v) /\ UNCHANGED <<fbCtx, fbSaved>>
focusBox == ~fbBox.focus /\ fbBox' = Refresh([fbBox EXCEPT !.focus = TRUE]) /\ UNCHANGED <<fbCtx, fbSaved>>
\* A blur closes the dropdown 150 ms later.
blurBox == fbBox.focus /\ fbBox.closing < 2 /\ fbBox' = [fbBox EXCEPT !.focus = FALSE, !.closing = @ + 1] /\ UNCHANGED <<fbCtx, fbSaved>>
closeTimer == fbBox.closing > 0 /\ fbBox' = [ClosedBox(fbBox) EXCEPT !.closing = @ - 1] /\ UNCHANGED <<fbCtx, fbSaved>>
arrow == \E d \in {1, -1} :
    fbBox.focus /\ fbBox.open /\ fbBox' = [fbBox EXCEPT !.sel = (@ + d + fbBox.items) % fbBox.items] /\ UNCHANGED <<fbCtx, fbSaved>>
escapeBox == fbBox.focus /\ fbBox.open /\ fbBox' = ClosedBox(fbBox) /\ UNCHANGED <<fbCtx, fbSaved>>
\* accept, by key or by mouse: the word is replaced, and the input event
\* it sends opens the suggestions for what is there now.
acceptItem ==
    \E v \in FbTexts, i \in 0..(fbBox.items - 1) :
       fbBox.open /\ CanEdit /\ fbBox' = Put(ClosedBox(fbBox), v) /\ UNCHANGED <<fbCtx, fbSaved>>
\* The page's Clear button empties the input without an event; pressing it
\* takes the focus away.
clearText == ~fbBox.focus /\ CanEdit /\ fbBox' = [fbBox EXCEPT !.text = "", !.edits = @ + 1] /\ UNCHANGED <<fbCtx, fbSaved>>

(***************************************************************************)
(* Context menu.  Each menu adds its own pair of document listeners, one   *)
(* task later; the first of them to see a press outside closes the menu    *)
(* and takes its pair away, the others find no menu.                       *)
(***************************************************************************)
Dismiss(c) == IF c.menu # 0 /\ c.listening # {} THEN [c EXCEPT !.menu = 0, !.listening = @ \ {Min(@)}] ELSE c
OpenMenuOnce(c) == [c EXCEPT !.menu = c.next, !.next = @ + 1, !.arming = IF c.next = 1 THEN {1} ELSE @]

OpenMenu(c) == [c EXCEPT !.menu = c.next, !.next = @ + 1, !.arming = @ \union {c.next}]
\* By mouse, whose press comes first, or by the menu key.
showContextMenu ==
    \E c \in {fbCtx, Dismiss(fbCtx)} : fbCtx.next <= MaxCtxMenus /\ fbCtx' = OpenMenu(c) /\ UNCHANGED <<fbBox, fbSaved>>
armMenu == \E m \in fbCtx.arming : fbCtx' = [fbCtx EXCEPT !.arming = @ \ {m}, !.listening = @ \union {m}] /\ UNCHANGED <<fbBox, fbSaved>>
pressOutside == fbCtx.menu # 0 /\ fbCtx' = Dismiss(fbCtx) /\ UNCHANGED <<fbBox, fbSaved>>
chooseClause ==
    \E v \in FbTexts \ {""} : fbCtx.menu # 0 /\ CanEdit /\ fbCtx' = [fbCtx EXCEPT !.menu = 0] /\ fbBox' = Put(fbBox, v) /\ UNCHANGED fbSaved

(***************************************************************************)
(* Saved filters: the user's, newest last, behind the built-in ones whose  *)
(* name they do not take.                                                  *)
(***************************************************************************)
Filter(name, expr) == [name |-> name, expr |-> expr]
NamesOf(s) == {s[i].name : i \in DOMAIN s}
Builtin == [i \in DOMAIN FbBuiltin |-> Filter(FbBuiltin[i], "builtin")]
listFilters(user) == Picked(Builtin, {i \in DOMAIN FbBuiltin : FbBuiltin[i] \notin NamesOf(user)}) \o user
saveAppend(user, f) == Append(user, f)

saveFilter(user, f) ==
    IF f.name \in NamesOf(user) THEN [i \in DOMAIN user |-> IF user[i].name = f.name THEN f ELSE user[i]] ELSE Append(user, f)
deleteFilter(user, name) == Picked(user, {i \in DOMAIN user : user[i].name # name})
BuildSaved(s) == [s EXCEPT !.shown = listFilters(s.user)]
toggleSaved == fbSaved' = BuildSaved([fbSaved EXCEPT !.open = ~@, !.picked = <<>>]) /\ UNCHANGED <<fbBox, fbCtx>>
closeSaved == fbSaved.open /\ fbSaved' = [fbSaved EXCEPT !.open = FALSE, !.picked = <<>>] /\ UNCHANGED <<fbBox, fbCtx>>
saveCurrent ==
    \E n \in FbNames :
       fbSaved.open /\ fbBox.text # "" /\ fbSaved' = BuildSaved([fbSaved EXCEPT !.user = saveFilter(@, Filter(n, fbBox.text)), !.picked = <<>>]) /\ UNCHANGED <<fbBox, fbCtx>>
deleteSaved ==
    \E n \in NamesOf(fbSaved.user) :
       fbSaved.open /\ fbSaved' = BuildSaved([fbSaved EXCEPT !.user = deleteFilter(@, n), !.picked = <<>>]) /\ UNCHANGED <<fbBox, fbCtx>>
\* A row's filter is read again from the store, by the row's number.
pickSaved ==
    \E i \in DOMAIN fbSaved.shown :
       LET now == listFilters(fbSaved.user) IN
       /\ fbSaved.open /\ CanEdit /\ i \in DOMAIN now
       /\ fbSaved' = [fbSaved EXCEPT !.open = FALSE, !.picked = <<fbSaved.shown[i], now[i]>>]
       /\ fbBox' = IF now[i].expr \in FbTexts THEN Put(fbBox, now[i].expr) ELSE [fbBox EXCEPT !.edits = @ + 1]
       /\ UNCHANGED fbCtx

FilterBoxNext ==
    \/ typeText \/ focusBox \/ blurBox \/ closeTimer \/ arrow \/ escapeBox \/ acceptItem \/ clearText
    \/ showContextMenu \/ armMenu \/ pressOutside \/ chooseClause
    \/ toggleSaved \/ closeSaved \/ saveCurrent \/ deleteSaved \/ pickSaved

(***************************************************************************)
(* An open dropdown marks one of its items, whatever was typed, picked or  *)
(* cleared since, and while the input has the focus its items are for the  *)
(* text there is: accepting one replaces the word it was offered for.      *)
(***************************************************************************)
MarkedIsOffered ==
    fbBox.open =>
       /\ fbBox.sel \in 0..(fbBox.items - 1)
       /\ fbBox.focus => fbBox.of = fbBox.text /\ fbBox.items = ShownOf(fbBox.text)
\* A context menu can always be dismissed: a pair of listeners is there for
\* it or on its way, although pairs of earlier menus are taken for it.
MenuDismissible == fbCtx.menu # 0 => fbCtx.arming \union fbCtx.listening # {}
\* Each name is listed once, a name the user took with the user's
\* expression, and a row picks the filter it shows.
SavedAreHonest ==
    /\ \A i, j \in DOMAIN listFilters(fbSaved.user) : listFilters(fbSaved.user)[i].name = listFilters(fbSaved.user)[j].name => i = j
    /\ NamesOf(listFilters(fbSaved.user)) = Range(FbBuiltin) \union NamesOf(fbSaved.user)
    /\ fbSaved.picked # <<>> => fbSaved.picked[1] = fbSaved.picked[2]

(* The filter bars, the suggestions and the saved filters show what is
   applied and stored. *)
FiltersTruthful ==
    /\ BarIsTruthful
    /\ StoredIsKnown
    /\ AreaIsTruthful
    /\ MarkedIsOffered
    /\ MenuDismissible
    /\ SavedAreHonest
==============================================================================
