------------------------------- MODULE PktDetail -------------------------------
(***************************************************************************)
(* The detail view of the packets page (public/packets.js), beside the     *)
(* controls: the three surfaces a packet is shown on, the requests that    *)
(* fill them, the groups that are expanded and sorted while requests are   *)
(* under way, the names of hops, and the byte ranges shown for a packet.   *)
(***************************************************************************)
EXTENDS Integers, Sequences, FiniteSets, PktFilters

CONSTANTS DPkts,        \* packets; each has two observations
          MaxSel        \* bound on what the user does

ASSUME PktDetailAssumption == MaxSel \in Nat

VARIABLES surface,      \* where the width of the window puts a detail view
          box,          \* surface -> what is in it: nothing, a notice or an element
          drawn,        \* element -> <<packet, observation>> once drawn
          selPkt, selObs,
          dAsks,        \* requests: [el, p, s]
          draws,        \* renderDetail calls under way: [el, p, obs]
          covering,     \* surfaces that cover the page: "slide", "sheet"
          onMap,        \* the route of the packet is shown instead
          turned,       \* history: the width changed while something covered the page
          elPkt,        \* history: element -> packet it was made for
          nsel
detailVars == <<surface, box, drawn, selPkt, selObs, dAsks, draws, covering, onMap, turned, elPkt, nsel>>

Surfaces == {"side", "slide", "sheet"}
NoPkt == "no packet"
NoObs == <<>>
Notice(n) == [notice |-> n, el |-> 0]
Element(e) == [notice |-> "", el |-> e]
ObsOf(p) == {<<p, 1>>, <<p, 2>>}

DetailInit ==
    /\ surface \in Surfaces /\ box = [s \in Surfaces |-> Notice("empty")] /\ drawn = [e \in 1..MaxSel |-> NoObs]
    /\ selPkt = NoPkt /\ selObs = NoObs /\ dAsks = {} /\ draws = {}
    /\ covering = {} /\ onMap = FALSE /\ turned = FALSE /\ elPkt = [e \in 1..MaxSel |-> NoPkt] /\ nsel = 0

DAct == nsel < MaxSel /\ nsel' = nsel + 1 /\ ~onMap

\* A row, a child row with its observation, or a group that was expanded.
selectPacket(p, o) ==
    /\ DAct /\ o \in {NoObs} \union ObsOf(p) /\ selPkt' = p /\ selObs' = o
    /\ box' = [box EXCEPT ![surface] = Notice("loading")] /\ dAsks' = dAsks \union {[el |-> nsel + 1, p |-> p, s |-> surface]}
    /\ covering' = (IF surface = "side" THEN covering ELSE covering \union {surface})
    /\ elPkt' = [elPkt EXCEPT ![nsel + 1] = p] /\ UNCHANGED <<surface, drawn, draws, onMap, turned>>

\* The observation asked for, or the first when it is not one of this packet's.
currentObsBlind(p, o) == IF o = NoObs THEN <<p, 1>> ELSE o
currentObs(p, o) == IF o \in ObsOf(p) THEN o ELSE <<p, 1>>

\* A new element takes the place of what the surface holds; it is drawn
\* after more awaits.  The observation selected by now is passed.
detailAnswers(a) ==
    /\ a \in dAsks /\ dAsks' = dAsks \ {a} /\ box' = [box EXCEPT ![a.s] = Element(a.el)]
    /\ draws' = draws \union {[el |-> a.el, p |-> a.p, obs |-> selObs]}
    /\ UNCHANGED <<surface, drawn, selPkt, selObs, covering, onMap, turned, elPkt, nsel>>
detailFailsSilently(a) ==
    /\ a \in dAsks /\ dAsks' = dAsks \ {a} /\ UNCHANGED <<surface, box, drawn, selPkt, selObs, draws, covering, onMap, turned, elPkt, nsel>>
detailFails(a) ==
    /\ a \in dAsks /\ dAsks' = dAsks \ {a} /\ box' = [box EXCEPT ![a.s] = Notice("error")]
    /\ UNCHANGED <<surface, drawn, selPkt, selObs, draws, covering, onMap, turned, elPkt, nsel>>

\* The sender's position and the hops are known: into the element, wherever it is.
renderDetail(d) ==
    /\ d \in draws /\ draws' = draws \ {d}
    /\ drawn' = [drawn EXCEPT ![d.el] = currentObs(d.p, IF d.obs = NoObs THEN selObs ELSE d.obs)]
    /\ UNCHANGED <<surface, box, selPkt, selObs, dAsks, covering, onMap, turned, elPkt, nsel>>

Showing(s) == {e \in 1..MaxSel : box[s] = Element(e) /\ drawn[e] # NoObs}
detailObsRowClick(s, i) ==
    /\ DAct /\ \E e \in Showing(s) : /\ selObs' = <<drawn[e][1], i>>
                                    /\ draws' = draws \union {[el |-> e, p |-> drawn[e][1], obs |-> selObs']}
    /\ UNCHANGED <<surface, box, drawn, selPkt, dAsks, covering, onMap, turned, elPkt>>

\* The side panel forgets the packet only, the sheet nothing.
closeDetailPanel ==
    /\ DAct /\ box' = [box EXCEPT !["side"] = Notice("empty")] /\ selPkt' = NoPkt
    /\ UNCHANGED <<surface, drawn, selObs, dAsks, draws, covering, onMap, turned, elPkt>>
slideOnClose ==
    /\ DAct /\ "slide" \in covering /\ covering' = covering \ {"slide"} /\ selPkt' = NoPkt /\ selObs' = NoObs
    /\ UNCHANGED <<surface, box, drawn, dAsks, draws, onMap, turned, elPkt>>
mobileSheetClose ==
    /\ DAct /\ "sheet" \in covering /\ covering' = covering \ {"sheet"}
    /\ UNCHANGED <<surface, box, drawn, selPkt, selObs, dAsks, draws, onMap, turned, elPkt>>
Rotate(s) ==
    /\ DAct /\ surface' = s /\ turned' = (turned \/ covering # {})
    /\ UNCHANGED <<box, drawn, selPkt, selObs, dAsks, draws, covering, onMap, elPkt>>

\* Leaving the page closes the slide-over; the sheet is closed on a narrow window.
routeBtnKeepsSheet(s) ==
    /\ DAct /\ Showing(s) # {} /\ onMap' = TRUE /\ covering' = covering \ {"slide"}
    /\ UNCHANGED <<surface, box, drawn, selPkt, selObs, dAsks, draws, turned, elPkt>>
routeBtn(s) ==
    /\ DAct /\ Showing(s) # {} /\ onMap' = TRUE
    /\ covering' = covering \ (IF surface = "sheet" THEN {"slide", "sheet"} ELSE {"slide"})
    /\ UNCHANGED <<surface, box, drawn, selPkt, selObs, dAsks, draws, turned, elPkt>>

DetailNext ==
    \/ \E p \in DPkts, o \in {NoObs} \union UNION {ObsOf(q) : q \in DPkts} : selectPacket(p, o)
    \/ \E a \in dAsks : detailAnswers(a) \/ detailFails(a)
    \/ \E d \in draws : renderDetail(d)
    \/ \E s \in Surfaces, i \in 1..2 : detailObsRowClick(s, i)
    \/ closeDetailPanel \/ slideOnClose \/ mobileSheetClose
    \/ \E s \in Surfaces : Rotate(s) \/ routeBtn(s)

(* Whatever answers late, a surface never shows an observation of another   *)
(* packet: the selection read after an await is checked against the packet  *)
(* at hand.                                                                 *)
ShownIsOfPacket == \A e \in 1..MaxSel : drawn[e] # NoObs => drawn[e] \in ObsOf(elPkt[e])

(* "Loading" is never the last word: some request for that surface is still *)
(* under way.                                                               *)
NoOrphanLoading == \A s \in Surfaces : box[s] = Notice("loading") => \E a \in dAsks : a.s = s

(* "close ALL mobile packet panels so operator lands on the route view":    *)
(* nothing covers the route, unless the window changed its width meanwhile. *)
NothingOverRoute == onMap /\ ~turned => covering = {}

------------------------------------------------------------------------------
(* Groups of observations: expanded, fetched in bulk and sorted while loads *)
(* replace the rows.                                                        *)

CONSTANTS GHashes,      \* groups listed
          MaxGroup      \* bound on user actions and loads
VARIABLES gMode,        \* obsSortMode
          gKids,        \* group -> the mode its children are sorted by, or "none"
          gOpen,        \* expandedHashes
          gAsks,        \* requests: [n, kind, hs, gen]
          gGen,         \* history: which load the rows are of
          ngroup
groupVars == <<gMode, gKids, gOpen, gAsks, gGen, ngroup>>
SortModes == {"observer", "path-asc", "chrono-desc"}

GroupInit == gMode \in SortModes /\ gKids = [h \in GHashes |-> "none"] /\ gOpen = {} /\ gAsks = {} /\ gGen = 0 /\ ngroup = 0
GStep == ngroup < MaxGroup /\ ngroup' = ngroup + 1
GAsk(kind, hs, gen) == gAsks' = gAsks \union {[n |-> ngroup, kind |-> kind, hs |-> hs, gen |-> gen]}
Resorted(kids, m) == [h \in GHashes |-> IF kids[h] = "none" THEN "none" ELSE m]

\* Children are fetched for the groups that have none, unless the order is
\* by observer, which the rows have already.
obsSortChange(m) ==
    /\ GStep /\ m # gMode /\ gMode' = m /\ UNCHANGED <<gOpen, gGen>>
    /\ LET toFetch == {h \in GHashes : gKids[h] = "none"}
       IN IF m # "observer" /\ toFetch # {} THEN GAsk("sort", toFetch, gGen) /\ UNCHANGED gKids
          ELSE gKids' = Resorted(gKids, m) /\ UNCHANGED gAsks
\* The rows that were asked for may be gone; all rows there are get sorted.
obsSortAnswers(a) ==
    /\ a \in gAsks /\ a.kind = "sort" /\ gAsks' = gAsks \ {a} /\ UNCHANGED <<gMode, gOpen, gGen, ngroup>>
    /\ gKids' = Resorted([h \in GHashes |-> IF h \in a.hs /\ a.gen = gGen THEN gMode ELSE gKids[h]], gMode)
obsSortFailsSilently(a) ==
    /\ a \in gAsks /\ a.kind = "sort" /\ gAsks' = gAsks \ {a} /\ UNCHANGED <<gMode, gKids, gOpen, gGen, ngroup>>
obsSortFails(a) ==
    /\ a \in gAsks /\ a.kind = "sort" /\ gAsks' = gAsks \ {a} /\ gKids' = Resorted(gKids, gMode)
    /\ UNCHANGED <<gMode, gOpen, gGen, ngroup>>

\* Collapsing is at once; expanding waits for the children.
pktToggleGroup(h) ==
    /\ GStep /\ UNCHANGED <<gMode, gKids, gGen>>
    /\ IF h \in gOpen THEN gOpen' = gOpen \ {h} /\ UNCHANGED gAsks ELSE GAsk("toggle", {h}, gGen) /\ UNCHANGED gOpen
toggleAnswers(a) ==
    /\ a \in gAsks /\ a.kind = "toggle" /\ gAsks' = gAsks \ {a} /\ gOpen' = gOpen \union a.hs
    /\ gKids' = [h \in GHashes |-> IF h \in a.hs THEN gMode ELSE gKids[h]] /\ UNCHANGED <<gMode, gGen, ngroup>>

\* A load replaces every row and fetches the children of what is expanded.
loadReplacesRows ==
    /\ GStep /\ gGen' = gGen + 1 /\ gKids' = [h \in GHashes |-> "none"] /\ UNCHANGED <<gMode, gOpen>>
    /\ IF gOpen = {} THEN UNCHANGED gAsks ELSE GAsk("restore", gOpen, gGen')
restoreExpanded(a, ok) ==
    /\ a \in gAsks /\ a.kind = "restore" /\ gAsks' = gAsks \ {a} /\ UNCHANGED <<gMode, gOpen, gGen, ngroup>>
    /\ gKids' = [h \in GHashes |-> IF h \in ok /\ a.gen = gGen THEN gMode ELSE gKids[h]]

GroupNext ==
    \/ \E m \in SortModes : obsSortChange(m)
    \/ \E h \in GHashes : pktToggleGroup(h)
    \/ loadReplacesRows
    \/ \E a \in gAsks : obsSortAnswers(a) \/ obsSortFails(a) \/ toggleAnswers(a) \/ \E ok \in SUBSET a.hs : restoreExpanded(a, ok)

(* Once no request of the sort menu is under way, the children of every     *)
(* group, however and whenever they were fetched, are in the order the menu *)
(* shows.                                                                   *)
ChildrenInOrder == (\A a \in gAsks : a.kind # "sort") => \A h \in GHashes : gKids[h] \in {"none", gMode}

------------------------------------------------------------------------------
(* The bytes of a packet: ranges to highlight, and the rows of the table.   *)

VARIABLES raw,          \* [bytes, transport, size, count, advert, loc, feat, name]
          byteRanges,   \* <<[from, to, label]>>
          fieldRows     \* <<[off, label]>>
byteVars == <<raw, byteRanges, fieldRows>>

Raws == [bytes : {1, 2, 3, 5, 6, 7, 8, 9, 12, 104, 105, 112, 113, 114, 120}, transport : BOOLEAN, size : 1..4, count : {0, 1, 3, 63},
         advert : BOOLEAN, loc : BOOLEAN, feat : 0..2, name : BOOLEAN]
ByteInit == raw \in Raws /\ byteRanges = <<>> /\ fieldRows = <<>>

ByteRange(a, b, l) == <<[from |-> a, to |-> b, label |-> l]>>
PathLenOffset(r) == IF r.transport THEN 5 ELSE 1
PayloadStart(r) == PathLenOffset(r) + 1 + r.size * r.count

\* Flags, position, features and name of a full advert.
AdvertRanges(r, p) ==
    LET app == p + 100
        hasLoc == r.loc /\ app + 9 <= r.bytes
        off1 == IF hasLoc THEN app + 9 ELSE app + 1
        off2 == off1 + 2 * Cardinality({k \in 1..r.feat : off1 + 2 * k <= r.bytes})
    IN ByteRange(p, p + 31, "PubKey") \o ByteRange(p + 32, p + 35, "Timestamp") \o ByteRange(p + 36, p + 99, "Signature")
       \o (IF app < r.bytes THEN ByteRange(app, app, "Flags") ELSE <<>>)
       \o (IF app < r.bytes /\ hasLoc THEN ByteRange(app + 1, app + 4, "Latitude") \o ByteRange(app + 5, app + 8, "Longitude") ELSE <<>>)
       \o (IF app < r.bytes /\ r.name /\ off2 < r.bytes THEN ByteRange(off2, r.bytes - 1, "Name") ELSE <<>>)

PathFits(r) == r.count > 0 /\ PayloadStart(r) <= r.bytes
pathRangeUnchecked(r) == IF r.count > 0 THEN ByteRange(PathLenOffset(r) + 1, PayloadStart(r) - 1, "Path") ELSE <<>>
pathRange(r) == IF PathFits(r) THEN ByteRange(PathLenOffset(r) + 1, PayloadStart(r) - 1, "Path") ELSE <<>>
PayloadRanges(r) ==
    LET p == PayloadStart(r)
    IN IF p >= r.bytes THEN <<>>
       ELSE IF r.advert /\ r.bytes - p >= 100 THEN AdvertRanges(r, p)
       ELSE ByteRange(p, r.bytes - 1, "Payload")
computeBreakdownRanges(r) ==
    IF r.bytes < 2 THEN <<>>
    ELSE IF r.transport /\ r.bytes < 5 THEN ByteRange(0, 0, "Header")
    ELSE ByteRange(0, 0, "Header") \o (IF r.transport THEN ByteRange(1, 4, "Transport Codes") ELSE <<>>)
         \o (IF PathLenOffset(r) >= r.bytes THEN <<>> ELSE ByteRange(PathLenOffset(r), PathLenOffset(r), "Path Length") \o pathRange(r) \o PayloadRanges(r))

RowAt(o, l) == <<[off |-> o, label |-> l]>>
fieldOffsetAfterPathLen(r) == 2 + r.size * r.count
\* The path reported by the observer has as many hops as the bytes say.
fieldOffset(r) == PathLenOffset(r) + 1 + r.size * r.count
AppRows(r, p) ==
    LET nameAt == p + 101 + (IF r.loc THEN 8 ELSE 0)
    IN RowAt(p + 100, "Flags") \o (IF r.loc THEN RowAt(p + 101, "Latitude") \o RowAt(p + 105, "Longitude") ELSE <<>>)
       \o (IF r.name THEN RowAt(nameAt, "Name") ELSE <<>>)
buildFieldTable(r) ==
    RowAt(0, "Header") \o (IF r.transport THEN RowAt(1, "Transport Codes") ELSE <<>>) \o RowAt(PathLenOffset(r), "Path Length")
    \o (IF r.count > 0 THEN RowAt(PathLenOffset(r) + 1, "Path") ELSE <<>>)
    \o (IF r.advert THEN LET p == fieldOffset(r) IN RowAt(p, "PubKey") \o RowAt(p + 32, "Timestamp") \o RowAt(p + 36, "Signature") \o AppRows(r, p)
        ELSE RowAt(fieldOffset(r), "Payload"))
ShowBytes ==
    /\ byteRanges = <<>> /\ fieldRows = <<>> /\ UNCHANGED raw
    /\ byteRanges' = computeBreakdownRanges(raw) /\ fieldRows' = buildFieldTable(raw)
ByteNext == ShowBytes

(* The highlighted ranges lie within the packet, one after the other, for   *)
(* truncated packets and paths that claim more than there is.               *)
RangesInBounds ==
    \A i \in 1..Len(byteRanges) :
        /\ 0 <= byteRanges[i].from /\ byteRanges[i].from <= byteRanges[i].to /\ byteRanges[i].to < raw.bytes
        /\ i > 1 => byteRanges[i - 1].to < byteRanges[i].from

(* The table and the highlighting, computed apart, put a field at the same  *)
(* byte.  The name is the exception when features or a position that is cut *)
(* off come before it.                                                      *)
NameIsPlain == raw.feat = 0 /\ (raw.loc => PayloadStart(raw) + 109 <= raw.bytes)
FieldsAtRanges ==
    \A i \in 1..Len(byteRanges), j \in 1..Len(fieldRows) :
        /\ byteRanges[i].label = fieldRows[j].label
        /\ fieldRows[j].label = "Name" => NameIsPlain
        => byteRanges[i].from = fieldRows[j].off

(* Filters, columns, sorting, details and byte ranges show the packets they
   are about. *)
PacketViewsHonest ==
    /\ ServerFiltersApplied
    /\ FieldsAreFilters
    /\ ChoicesSurvive
    /\ ObserversTogether
    /\ EmptiesLast
    /\ ShownIsOfPacket
    /\ NoOrphanLoading
    /\ NothingOverRoute
    /\ ChildrenInOrder
    /\ RangesInBounds
    /\ FieldsAtRanges
================================================================================
