------------------------------- MODULE AppShell -------------------------------
(***************************************************************************)
(* The browser shell (public/app.js): the router with its redirects, the   *)
(* navigation bar that moves links into the More menu, the search box, the *)
(* favourites menu, the pull-down gesture and the theme shared by tabs.    *)
(***************************************************************************)
EXTENDS Integers, Sequences, FiniteSets, FiniteSetsExt, SequencesExt

CONSTANTS Hashes_,      \* location hashes: [page, legacy]
          Links,        \* the links of the bar, in order
          HighLinks,    \* data-priority="high"
          Rooms,        \* widths of the window, in link widths
          MaxSteps      \* bound on what the user does

ASSUME AppShellAssumption ==
    /\ Links \in Seq(ToSet(Links)) /\ \A i, j \in DOMAIN Links : Links[i] = Links[j] => i = j
    /\ HighLinks \subseteq ToSet(Links) /\ Rooms \subseteq Int /\ MaxSteps \in Nat

VARIABLES hist, pos,    \* the session history and where the user is in it
          currentPage,  \* currentPage, "" before the first navigation
          mounted,      \* history: pages whose init ran and destroy did not
          overflow,     \* links with is-overflow
          menu,         \* clones in the More menu: set of links
          moreHidden, room, navFrame, usteps

shellVars == <<hist, pos, currentPage, mounted, overflow, menu, moreHidden, room, navFrame, usteps>>

\* Widths: below Mobile the hamburger owns the layout, up to Narrow only the
\* high-priority links stay, above that links are measured.
Mobile == 1
Narrow == 2
LinkSet == ToSet(Links)

ShellInit ==
    /\ hist = <<CHOOSE h \in Hashes_ : ~h.legacy>> /\ pos = 1 /\ currentPage = "" /\ mounted = {}
    /\ overflow = {} /\ menu = {} /\ moreHidden = TRUE /\ room \in Rooms /\ navFrame = TRUE /\ usteps = 0

UserStep == usteps < MaxSteps /\ usteps' = usteps + 1

\* A legacy hash is replaced where it stands, then navigate runs again.
Replaced(h) == [h EXCEPT !.legacy = FALSE]

\* navigate: the old page goes, then the new one is made; init may throw
\* after currentPage is set, or no page may be registered.
navigateTwice(hs, p, throws) ==
    LET h == hs[p]
        page == h.page
    IN /\ hist' = IF h.legacy THEN SubSeq(hs, 1, p) \o <<Replaced(h)>> ELSE hs
       /\ pos' = IF h.legacy THEN p + 1 ELSE p
       /\ mounted' = (mounted \ {currentPage}) \union IF throws THEN {} ELSE {page}
       /\ currentPage' = page /\ navFrame' = TRUE
navigateLeaves(hs, p, throws) ==
    LET h == hs[p]
    IN /\ hist' = [hs EXCEPT ![p] = Replaced(h)] /\ pos' = p
       /\ mounted' = (IF h.legacy THEN mounted ELSE mounted \ {currentPage}) \union IF throws THEN {} ELSE {h.page}
       /\ currentPage' = h.page /\ navFrame' = TRUE
navigate(hs, p, throws) ==
    LET h == hs[p]
    IN /\ hist' = [hs EXCEPT ![p] = Replaced(h)] /\ pos' = p
       /\ mounted' = (mounted \ {currentPage}) \union IF throws THEN {} ELSE {h.page}
       /\ currentPage' = h.page /\ navFrame' = TRUE

FollowLink(h, throws) ==
    /\ UserStep /\ navigate(Append(SubSeq(hist, 1, pos), h), pos + 1, throws)
    /\ UNCHANGED <<overflow, menu, moreHidden, room>>
GoBack(throws) ==
    /\ UserStep /\ pos > 1 /\ navigate(hist, pos - 1, throws)
    /\ UNCHANGED <<overflow, menu, moreHidden, room>>
Resize(r) ==
    /\ UserStep /\ room' = r /\ r # room /\ navFrame' = TRUE
    /\ UNCHANGED <<hist, pos, currentPage, mounted, overflow, menu, moreHidden>>

------------------------------------------------------------------------------
(* applyNavPriority. *)

ActiveLinks == LinkSet \intersect {currentPage}

\* The links that may be hidden, by their place in the bar: the active one is
\* not among them, and the high-priority ones are in the queue to stop it.
Queued == {i \in DOMAIN Links : Links[i] \notin ActiveLinks}
Low == {i \in Queued : Links[i] \notin HighLinks}
\* From right to left, the ones that may go first.
GoesBefore(i, j) == IF i \in Low <=> j \in Low THEN i > j ELSE i \in Low
buildOverflowQueue(n) == {Links[i] : i \in {k \in Queued : Cardinality({j \in Queued : GoesBefore(j, k)}) < n}}
\* The active pill is wider than the others.
fits(over) == Cardinality(LinkSet \ over) + Cardinality(ActiveLinks \ over) <= room

GreedyAll == Min({n \in 0..Cardinality(Queued) : n = Cardinality(Queued) \/ fits(buildOverflowQueue(n))})
\* The first n of the queue are hidden, with n as small as fits allows; the
\* walk stops at a link that must stay.
Greedy == Min({n \in 0..Cardinality(Low) : n = Cardinality(Low) \/ fits(buildOverflowQueue(n))})

\* One hidden link alone gets company, if some link may be hidden.
WithFloor(n) == IF n = 1 /\ Cardinality(Low) > 1 THEN 2 ELSE n
applyNavPriority ==
    /\ navFrame /\ navFrame' = FALSE
    /\ CASE room < Mobile -> overflow' = {} /\ moreHidden' = TRUE /\ UNCHANGED menu
         [] room \in Mobile..Narrow ->
              overflow' = LinkSet \ (HighLinks \union ActiveLinks) /\ menu' = overflow' /\ moreHidden' = (menu' = {})
         [] OTHER ->
              overflow' = buildOverflowQueue(WithFloor(Greedy)) /\ menu' = overflow' /\ moreHidden' = (menu' = {})
    /\ UNCHANGED <<hist, pos, currentPage, mounted, room, usteps>>

ShellNext ==
    \/ \E h \in Hashes_, throws \in BOOLEAN : FollowLink(h, throws)
    \/ \E throws \in BOOLEAN : GoBack(throws)
    \/ \E r \in Rooms : Resize(r)
    \/ applyNavPriority

(* The page that was initialised last is the only one that is not           *)
(* destroyed, through redirects, unknown pages and an init that throws.     *)
OnePageMounted == mounted \subseteq {currentPage}

(* A redirect leaves no entry behind that the back button would bounce off: *)
(* going back always gets nearer to where the session began.                *)
BackGetsBack == [][\A t \in BOOLEAN : GoBack(t) => pos' < pos]_shellVars

(* Once the frame after a change has run, the active link and every         *)
(* high-priority link are in the bar, every link is in the bar or in a menu *)
(* whose button shows, and the menu holds one link only if none other could *)
(* be hidden with it.                                                       *)
NavComplete ==
    ~navFrame /\ room >= Mobile =>
        /\ overflow \intersect (HighLinks \union ActiveLinks) = {}
        /\ overflow = menu /\ (menu # {} => ~moreHidden)
        /\ Cardinality(menu) = 1 => Cardinality(LinkSet \ (HighLinks \union ActiveLinks)) = 1

------------------------------------------------------------------------------
(* The search box: 300 ms after the last key three requests go out. *)

CONSTANTS Queries       \* texts; "" is the empty one
VARIABLES box,          \* [open, text, timer, shown]
          searches,     \* queries under way
          nkeys

searchVars == <<box, searches, nkeys>>
SearchInit == box = [open |-> FALSE, text |-> "", timer |-> FALSE, shown |-> ""] /\ searches = {} /\ nkeys = 0

searchToggle ==
    /\ nkeys < MaxSteps /\ nkeys' = nkeys + 1 /\ UNCHANGED searches
    /\ box' = IF box.open THEN [box EXCEPT !.open = FALSE]
              ELSE [box EXCEPT !.open = TRUE, !.text = "", !.shown = ""]
searchInputForgets(q) ==
    /\ box.open /\ q # box.text /\ nkeys < MaxSteps /\ nkeys' = nkeys + 1 /\ UNCHANGED searches
    /\ box' = [box EXCEPT !.text = q, !.timer = FALSE, !.shown = IF q = "" THEN "" ELSE @]

\* The timer holds the text of the last key that left one.
searchInput(q) ==
    /\ box.open /\ q # box.text /\ nkeys < MaxSteps /\ nkeys' = nkeys + 1 /\ UNCHANGED searches
    /\ box' = [box EXCEPT !.text = q, !.timer = q # "", !.shown = IF q = "" THEN "" ELSE @]
searchTimeout ==
    /\ box.timer /\ box' = [box EXCEPT !.timer = FALSE] /\ searches' = searches \union {box.text} /\ UNCHANGED nkeys
\* Whatever comes is shown, late or not.
searchAnswer(q) == q \in searches /\ searches' = searches \ {q} /\ box' = [box EXCEPT !.shown = q] /\ UNCHANGED nkeys
activateSearchItem ==
    /\ box.open /\ box.shown # "" /\ nkeys < MaxSteps /\ nkeys' = nkeys + 1
    /\ box' = [box EXCEPT !.open = FALSE] /\ UNCHANGED searches

SearchAnswers == \E q \in Queries : searchAnswer(q)
SearchNext == searchToggle \/ (\E q \in Queries : searchInput(q)) \/ searchTimeout \/ SearchAnswers \/ activateSearchItem

(* Text that stays in the search box is searched for: something is shown.   *)
SearchIsAnswered == <>[](box.open /\ box.text # "" => box.shown # "")

------------------------------------------------------------------------------
(* setupPullToReconnect, in quarters of the threshold. *)

Threshold == 4
VARIABLES touch,        \* [start, pulling, dist]; start 0 for null
          scrolled, pulled, over
pullVars == <<touch, scrolled, pulled, over>>
NoTouch == [start |-> FALSE, pulling |-> FALSE, dist |-> 0]
PullInit == touch = NoTouch /\ scrolled = FALSE /\ pulled = FALSE /\ over = 0

\* over is where the finger is, below where it started.
onStart == touch' = (IF scrolled THEN [touch EXCEPT !.start = FALSE, !.pulling = FALSE] ELSE [NoTouch EXCEPT !.start = TRUE])
           /\ over' = 0 /\ pulled' = FALSE /\ UNCHANGED scrolled
onMoveNoCancel(dy) ==
    /\ over' = dy /\ pulled' = FALSE /\ UNCHANGED scrolled
    /\ touch' = IF ~touch.start THEN touch ELSE IF scrolled THEN NoTouch
                ELSE IF dy <= 0 THEN touch ELSE [touch EXCEPT !.dist = dy, !.pulling = @ \/ dy > 0]
onMove(dy) ==
    /\ over' = dy /\ pulled' = FALSE /\ UNCHANGED scrolled
    /\ touch' = CASE ~touch.start -> touch
                  [] touch.start /\ scrolled -> NoTouch
                  [] touch.start /\ ~scrolled /\ dy <= 0 ->
                       IF touch.pulling THEN [touch EXCEPT !.pulling = FALSE, !.dist = 0] ELSE touch
                  [] OTHER -> [touch EXCEPT !.dist = dy, !.pulling = TRUE]
onEnd == /\ pulled' = (touch.pulling /\ touch.dist >= Threshold /\ ~scrolled)
         /\ touch' = NoTouch /\ UNCHANGED <<scrolled, over>>
PageScrolls == scrolled' = ~scrolled /\ pulled' = FALSE /\ UNCHANGED <<touch, over>>
PullNext == onStart \/ (\E dy \in -1..Threshold : onMove(dy)) \/ onEnd \/ PageScrolls

(* A reconnect is forced only by a finger that lifts off past the threshold *)
(* on a page at its top: pulling back, or a page that scrolled away, is a   *)
(* change of mind.                                                          *)
PullIsMeant == [][pulled' /\ ~pulled => over >= Threshold /\ ~scrolled]_pullVars

------------------------------------------------------------------------------
(* The dark mode of two tabs, through localStorage and its events. *)

Tabs == {1, 2}
MaxThemeToggles == 3     \* bound on toggles
VARIABLES theme,        \* tab -> data-theme
          stored,       \* meshcore-theme
          events,       \* storage events under way: tab -> values
          ntoggles
themeVars == <<theme, stored, events, ntoggles>>
ThemeInit == theme = [t \in Tabs |-> "light"] /\ stored = "light" /\ events = [t \in Tabs |-> << >>] /\ ntoggles = 0

\* A changed value is an event in every other tab.
Persist(t, v) ==
    /\ stored' = v
    /\ events' = [u \in Tabs |-> IF u # t /\ stored # v THEN Append(events[u], v) ELSE events[u]]
applyTheme(t) ==
    /\ ntoggles < MaxThemeToggles /\ ntoggles' = ntoggles + 1
    /\ LET v == IF theme[t] = "dark" THEN "light" ELSE "dark"
       IN theme' = [theme EXCEPT ![t] = v] /\ Persist(t, v)
onStoragePersists(t) ==
    /\ events[t] # << >> /\ theme' = [theme EXCEPT ![t] = Head(events[t])] /\ UNCHANGED ntoggles
    /\ stored' = Head(events[t])
    /\ events' = [u \in Tabs |-> IF u # t THEN IF stored # Head(events[t]) THEN Append(events[u], Head(events[t])) ELSE events[u]
                                 ELSE Tail(events[t])]
\* Mirrored without storing it again.
onStorage(t) ==
    /\ events[t] # << >> /\ theme' = [theme EXCEPT ![t] = Head(events[t])]
    /\ events' = [events EXCEPT ![t] = Tail(@)] /\ UNCHANGED <<stored, ntoggles>>
StorageEvents == \E t \in Tabs : onStorage(t)
ThemeNext == (\E t \in Tabs : applyTheme(t)) \/ StorageEvents

(* "avoid loop": tabs that mirror each other's theme fall silent, even when *)
(* both were toggled at the same time.                                      *)
TabsFallSilent == <>[](\A t \in Tabs : events[t] = << >>)

(* "cross-tab sync": what a tab shows is what is stored once every event    *)
(* has been handled.  Two toggles that cross leave the tabs apart.          *)
TabsAgree == (\A t \in Tabs : events[t] = << >>) => \A t \in Tabs : theme[t] = stored

(* One page is mounted, and the bar and its More menu hold every link once. *)
ShellConsistent ==
    /\ OnePageMounted
    /\ NavComplete
==============================================================================
