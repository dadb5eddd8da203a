------------------------------ MODULE PktFilters ------------------------------
(***************************************************************************)
(* The controls of the packets page (public/packets.js): filters that are  *)
(* applied by the server or in the browser, the debounced text fields, the *)
(* multi-select menus and their closures, the detail panel, the columns    *)
(* the user chose, and the two sorts.                                      *)
(***************************************************************************)
EXTENDS Integers, Sequences, FiniteSets, FiniteSetsExt, Subsequences

CONSTANTS Texts,        \* what a text field may hold; "" is empty
          Channels,     \* values of the channel filter; "" for all
          Obs,          \* observers
          MaxEdits      \* bound on what the user does

ASSUME PktFiltersAssumption == "" \in Texts \intersect Channels /\ IsFiniteSet(Obs) /\ MaxEdits \in Nat

VARIABLES filters,      \* [hash, channel, observer, expr]
          chosen,       \* selectedObservers, the closure of the menu
          ticked,       \* the boxes the menu shows
          grouping,     \* groupByHash
          field,        \* [hash, expr]: the text fields
          timers,       \* fields whose debounce is due
          asks,         \* requests under way: [n, p]
          shown,        \* parameters the listed packets were asked with
          outOfOrder,   \* history: an answer came after that of a later request
          nask, nshown, nedits

filterVars == <<filters, chosen, ticked, grouping, field, timers, asks, shown, outOfOrder, nask, nshown, nedits>>

NoFilters == [hash |-> "", channel |-> "", observer |-> {}, expr |-> ""]

\* A hash stands alone; what is typed as an expression stays in the browser.
buildPacketsParams(f, g) ==
    IF f.hash # "" THEN [hash |-> f.hash, channel |-> "", observer |-> {}, grouped |-> g]
    ELSE [hash |-> "", channel |-> f.channel, observer |-> f.observer, grouped |-> g]

FilterInit ==
    /\ filters \in {NoFilters, [NoFilters EXCEPT !.observer = {CHOOSE o \in Obs : TRUE}]}
    /\ chosen = filters.observer /\ ticked = filters.observer /\ grouping = TRUE
    /\ field = [hash |-> "", expr |-> ""] /\ timers = {} /\ asks = {} /\ shown = buildPacketsParams(filters, TRUE)
    /\ outOfOrder = FALSE /\ nask = 0 /\ nshown = 0 /\ nedits = 0

Edit == nedits < MaxEdits /\ nedits' = nedits + 1
Ask(f, g) == nask' = nask + 1 /\ asks' = asks \union {[n |-> nask + 1, p |-> buildPacketsParams(f, g)]}
Quiet == UNCHANGED <<asks, nask>>

\* Only a render: the list is filtered here.
obsMenuChange(o, checked) ==
    /\ Edit /\ checked = (o \notin ticked)
    /\ chosen' = (IF checked THEN chosen \union {o} ELSE chosen \ {o}) /\ ticked' = chosen'
    /\ filters' = [filters EXCEPT !.observer = chosen'] /\ Quiet
    /\ UNCHANGED <<grouping, field, timers, shown, outOfOrder, nshown>>
channelNoReload(c) ==
    /\ Edit /\ c # filters.channel /\ filters' = [filters EXCEPT !.channel = c] /\ Quiet
    /\ UNCHANGED <<chosen, ticked, grouping, field, timers, shown, outOfOrder, nshown>>
channelChange(c) ==
    /\ Edit /\ c # filters.channel /\ filters' = [filters EXCEPT !.channel = c] /\ Ask(filters', grouping)
    /\ UNCHANGED <<chosen, ticked, grouping, field, timers, shown, outOfOrder, nshown>>
groupClick ==
    /\ Edit /\ grouping' = ~grouping /\ Ask(filters, grouping')
    /\ UNCHANGED <<filters, chosen, ticked, field, timers, shown, outOfOrder, nshown>>
TypeInto(f, x) ==
    /\ Edit /\ field[f] # x /\ field' = [field EXCEPT ![f] = x] /\ timers' = timers \union {f} /\ Quiet
    /\ UNCHANGED <<filters, chosen, ticked, grouping, shown, outOfOrder, nshown>>

\* 300 ms later the field is read, not what it held when the key was hit.
fHashTimer ==
    /\ "hash" \in timers /\ timers' = timers \ {"hash"}
    /\ filters' = [filters EXCEPT !.hash = field.hash] /\ Ask(filters', grouping)
    /\ UNCHANGED <<chosen, ticked, grouping, field, shown, outOfOrder, nshown, nedits>>
pfTimerFires ==
    /\ "expr" \in timers /\ timers' = timers \ {"expr"} /\ filters' = [filters EXCEPT !.expr = field.expr] /\ Quiet
    /\ UNCHANGED <<chosen, ticked, grouping, field, shown, outOfOrder, nshown, nedits>>
clearFiltersKeepsFields ==
    /\ Edit /\ filters' = NoFilters /\ ticked' = {} /\ Ask(filters', grouping)
    /\ UNCHANGED <<chosen, grouping, field, timers, shown, outOfOrder, nshown>>

\* The boxes are cleared; what the menu remembers is not.
clearFilters ==
    /\ Edit /\ filters' = NoFilters /\ ticked' = {} /\ field' = [hash |-> "", expr |-> ""] /\ Ask(filters', grouping)
    /\ UNCHANGED <<chosen, grouping, timers, shown, outOfOrder, nshown>>

PktAnswer(a) ==
    /\ a \in asks /\ asks' = asks \ {a} /\ shown' = a.p /\ nshown' = a.n /\ outOfOrder' = (outOfOrder \/ a.n < nshown)
    /\ UNCHANGED <<filters, chosen, ticked, grouping, field, timers, nask, nedits>>

FilterNext ==
    \/ \E o \in Obs, c \in BOOLEAN : obsMenuChange(o, c)
    \/ \E c \in Channels : channelChange(c)
    \/ \E f \in {"hash", "expr"}, x \in Texts : TypeInto(f, x)
    \/ groupClick \/ fHashTimer \/ pfTimerFires \/ clearFilters
    \/ \E a \in asks : PktAnswer(a)

Settled_ == asks = {} /\ timers = {}

(* Unless answers overtook one another, once every timer and request is     *)
(* done the list was asked for with the hash, the channel and the grouping  *)
(* the controls show.                                                       *)
ServerFiltersApplied ==
    Settled_ /\ ~outOfOrder => /\ shown.hash = filters.hash /\ shown.grouped = grouping
                               /\ shown.channel = buildPacketsParams(filters, grouping).channel

(* What a text field shows when its debounce is over is what filters: not   *)
(* even clearing everything while a key stroke is pending brings it back.   *)
FieldsAreFilters == timers = {} => filters.hash = field.hash /\ filters.expr = field.expr

(* "The server-side EXISTS filter is authoritative for grouped rows": the   *)
(* grouped list was asked for with the observers the menu shows.            *)
ObserversApplied ==
    Settled_ /\ ~outOfOrder /\ grouping => shown.observer = buildPacketsParams(filters, grouping).observer

------------------------------------------------------------------------------
(* Visible columns, over releases of the page that add a column. *)

LegacyCols == {"region", "time"}
ColDefs(version) == IF version = 1 THEN LegacyCols ELSE LegacyCols \union {"scope"}
VARIABLES colVersion,   \* release of the page
          visibleCols,  \* packets-visible-cols, NoCols when never stored
          knownCols,    \* packets-known-cols, NoCols when never stored
          choice,       \* history: column -> "on", "off" or "none"
          loaded, narrow, ncols
colVars == <<colVersion, visibleCols, knownCols, choice, loaded, narrow, ncols>>
NoCols == {"never stored"}
MaxColSteps == 6        \* bound on visits and toggles

ColInit ==
    /\ colVersion = 1 /\ visibleCols = NoCols /\ knownCols = NoCols /\ choice = [c \in ColDefs(2) |-> "none"]
    /\ loaded = FALSE /\ narrow \in BOOLEAN /\ ncols = 0

defaultHidden == IF narrow THEN {"region", "scope"} ELSE {"region"}
restoredWithoutKnown == visibleCols \union (ColDefs(colVersion) \ defaultHidden)
restored ==
    IF visibleCols = NoCols THEN ColDefs(colVersion) \ defaultHidden
    ELSE visibleCols \union (ColDefs(colVersion) \ ((IF knownCols = NoCols THEN LegacyCols ELSE knownCols) \union defaultHidden))

\* The first release stored no list of known columns.
KnownCols == IF colVersion = 1 THEN NoCols ELSE ColDefs(colVersion)
loadColumns(n) ==
    /\ ~loaded /\ ncols < MaxColSteps /\ ncols' = ncols + 1 /\ loaded' = TRUE /\ narrow' = n
    /\ visibleCols' = restored /\ knownCols' = KnownCols /\ UNCHANGED <<colVersion, choice>>
colMenuChange(c) ==
    /\ loaded /\ ncols < MaxColSteps /\ ncols' = ncols + 1 /\ c \in ColDefs(colVersion)
    /\ visibleCols' = (IF c \in visibleCols THEN visibleCols \ {c} ELSE visibleCols \union {c})
    /\ knownCols' = KnownCols /\ choice' = [choice EXCEPT ![c] = IF c \in visibleCols THEN "off" ELSE "on"]
    /\ UNCHANGED <<colVersion, loaded, narrow>>
LeaveOrUpgrade(v) ==
    /\ loaded /\ ncols < MaxColSteps /\ ncols' = ncols + 1 /\ loaded' = FALSE /\ v \in colVersion..2 /\ colVersion' = v
    /\ UNCHANGED <<visibleCols, knownCols, choice, narrow>>
ColNext == (\E n \in BOOLEAN : loadColumns(n)) \/ (\E c \in ColDefs(2) : colMenuChange(c)) \/ (\E v \in {1, 2} : LeaveOrUpgrade(v))

(* What the user hid stays hidden and what was brought back stays, over     *)
(* visits on windows of any width and over a release that adds a column.    *)
ChoicesSurvive ==
    loaded => \A c \in ColDefs(colVersion) : (choice[c] = "off" => c \notin visibleCols) /\ (choice[c] = "on" => c \in visibleCols)

------------------------------------------------------------------------------
(* The sorts, over every small input. *)

VARIABLES childs,       \* children of a group: <<[obs, t, hops]>>
          sortMode, sortedYet
sortVars == <<childs, sortMode, sortedYet>>
Child == [obs : Obs, t : 1..2, hops : 0..1]
SortInit == /\ childs \in UNION {[1..n -> Child] : n \in 1..3}
            /\ sortMode \in {"observer", "path-asc", "path-desc", "chrono-asc", "chrono-desc"} /\ sortedYet = FALSE

\* The order of the observers' names, which are distinct.
ObsRank == CHOOSE rank \in [Obs -> 1..Cardinality(Obs)] : \A o, p \in Obs : rank[o] = rank[p] => o = p
earliest(cs, o) == Min({cs[i].t : i \in {j \in 1..Len(cs) : cs[j].obs = o}})
childLessByTime(cs, mode, a, b) ==
    CASE mode = "chrono-asc" -> a.t < b.t
      [] mode = "chrono-desc" -> a.t > b.t
      [] mode = "path-asc" -> a.hops < b.hops
      [] mode = "path-desc" -> a.hops > b.hops
      [] OTHER -> a.t < b.t
\* Is a to come before b?
childLess(cs, mode, a, b) ==
    CASE mode = "chrono-asc" -> a.t < b.t
      [] mode = "chrono-desc" -> a.t > b.t
      [] mode = "path-asc" -> a.hops < b.hops \/ (a.hops = b.hops /\ ObsRank[a.obs] < ObsRank[b.obs])
      [] mode = "path-desc" -> a.hops > b.hops \/ (a.hops = b.hops /\ ObsRank[a.obs] < ObsRank[b.obs])
      [] OTHER -> LET ea == earliest(cs, a.obs)
                      eb == earliest(cs, b.obs)
                  IN \/ ea < eb
                     \/ ea = eb /\ ObsRank[a.obs] < ObsRank[b.obs]
                     \/ a.obs = b.obs /\ a.t < b.t
ChildOrder(cs, mode) == {ij \in (DOMAIN cs) \X (DOMAIN cs) : childLess(cs, mode, cs[ij[1]], cs[ij[2]])}
sortGroupChildren ==
    /\ ~sortedYet /\ sortedYet' = TRUE /\ UNCHANGED sortMode
    /\ childs' = Arranged(childs, Stably(DOMAIN childs, ChildOrder(childs, sortMode)))
SortNext == sortGroupChildren

(* "group by observer, earliest-observer first, then ascending time within  *)
(* each": the children of one observer are neighbours, observers come in    *)
(* the order they first heard the packet, and the header row shows the      *)
(* observation that was first of all.                                       *)
ObserversTogether ==
    sortedYet /\ sortMode = "observer" =>
        \A i, j \in 1..Len(childs) : i < j =>
            /\ earliest(childs, childs[i].obs) <= earliest(childs, childs[j].obs)
            /\ childs[i].obs = childs[j].obs => childs[i].t <= childs[j].t /\ \A k \in i..j : childs[k].obs = childs[i].obs

------------------------------------------------------------------------------
(* The table's own sort: scope first by having one, then by the column. *)

VARIABLES tableRows, sortDir, tableSorted
tableVars == <<tableRows, sortDir, tableSorted>>
TableInit == /\ tableRows \in [1..3 -> [v : 0..2, t : 1..2]] /\ sortDir \in {1, -1} /\ tableSorted = FALSE
rowLessAllDirs(a, b) == sortDir * a.v < sortDir * b.v \/ (a.v = b.v /\ sortDir * a.t > sortDir * b.t)

rowLess(a, b) ==
    \/ a.v # 0 /\ b.v = 0
    \/ (a.v # 0 <=> b.v # 0) /\ (sortDir * a.v < sortDir * b.v \/ (a.v = b.v /\ sortDir * a.t > sortDir * b.t))
RowOrder(rs) == {ij \in (DOMAIN rs) \X (DOMAIN rs) : rowLess(rs[ij[1]], rs[ij[2]])}
sortPacketsArray ==
    /\ ~tableSorted /\ tableSorted' = TRUE /\ UNCHANGED sortDir
    /\ tableRows' = Arranged(tableRows, Stably(DOMAIN tableRows, RowOrder(tableRows)))
TableNext == sortPacketsArray

(* "Pin the empties last in BOTH directions."                               *)
EmptiesLast == tableSorted => \A i, j \in 1..3 : i < j /\ tableRows[i].v = 0 => tableRows[j].v = 0

(* "desc (newest first)": rows equal in the column are newest first.  In a  *)
(* descending sort they are oldest first.                                   *)
TiesNewestFirst == tableSorted => \A i, j \in 1..3 : i < j /\ tableRows[i].v = tableRows[j].v => tableRows[i].t >= tableRows[j].t
==============================================================================
