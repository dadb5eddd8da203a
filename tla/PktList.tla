---------------------------------- MODULE PktList ----------------------------------
(***************************************************************************)
(* The packets page's list (public/packets.js): visits with an init that   *)
(* waits for its requests, loads that overlap, messages that are batched,  *)
(* held back while paused and merged into groups after their hops are      *)
(* resolved, the index of groups by hash, and the coalesced frame.         *)
(***************************************************************************)
EXTENDS Integers, Sequences, FiniteSets, SequencesExt, FiniteSetsExt, Subsequences

CONSTANTS PktHashes,    \* hashes of packets
          PktLimit,     \* PACKET_LIMIT
          PauseCap,     \* 2000
          MaxMsg, MaxClicks    \* bounds on messages and on what the user does

ASSUME PktListAssumption == {PktLimit, PauseCap, MaxMsg, MaxClicks} \subseteq Nat \ {0} /\ IsFiniteSet(PktHashes)

VARIABLES visit, on,    \* the visit and whether its page is mounted
          inits,        \* inits that wait: [v, l], the visit and its load
          built,        \* filtersBuilt
          registered,   \* visits whose handler is registered
          wsHandler,    \* the visit that set wsHandler, 0 for null
          overtaken,    \* history: inits that went on after their visit
          grouped,      \* groupByHash
          lst,          \* packets: rows [o, h, t], o the identity of the object
          hashIndex,    \* hash -> o, 0 for none
          asc,          \* sorted by time ascending instead of descending
          pureGroups,   \* history: lst was loaded, and only changed, in grouped mode
          loadsAt,      \* loads under way: [id, at, snap]
          nload, latest,    \* latest: hash -> the server's newest observation, 0 for none
          msg,          \* messages so far
          pend,         \* messages in the handlers' batches: [v, m]
          paused, pauseBuffer,
          merges,       \* messages whose hops are being resolved: [v, m]
          merged, capped, lost,  \* history: messages shown, cut off, dropped
          hashOf,       \* message -> [h, got]: its hash, and whether a handler got it
          stale, wsRafId, clicks

listVars == <<visit, on, inits, built, registered, wsHandler, overtaken, grouped, lst, hashIndex, asc, pureGroups,
              loadsAt, nload, latest, msg, pend, paused, pauseBuffer, merges, merged, capped, lost, hashOf, stale,
              wsRafId, clicks>>
listData == <<lst, hashIndex, pureGroups>>
flow == <<msg, pend, paused, pauseBuffer, merges, merged, capped, lost, hashOf>>
life == <<visit, on, inits, built, registered, wsHandler, overtaken>>

ListInit ==
    /\ visit = 0 /\ on = FALSE /\ inits = {} /\ built = FALSE /\ registered = {} /\ wsHandler = 0 /\ overtaken = 0
    /\ grouped = TRUE /\ lst = << >> /\ hashIndex = [h \in PktHashes |-> 0] /\ asc = FALSE /\ pureGroups = TRUE
    /\ loadsAt = {} /\ nload = 0 /\ latest = [h \in PktHashes |-> 0]
    /\ msg = 0 /\ pend = << >> /\ paused = FALSE /\ pauseBuffer = << >> /\ merges = {} /\ merged = {} /\ capped = {}
    /\ lost = {} /\ hashOf = << >> /\ stale = FALSE /\ wsRafId = FALSE /\ clicks = 0

Click == clicks < MaxClicks /\ clicks' = clicks + 1

------------------------------------------------------------------------------
(* Visits. *)

Request == [id |-> nload + 1, at |-> "net", snap |-> latest]

\* init draws the frame of the page and waits for observers and packets.
initPackets ==
    /\ Click /\ ~on /\ visit' = visit + 1 /\ on' = TRUE /\ inits' = inits \union {[v |-> visit + 1, l |-> nload + 1]}
    /\ nload' = nload + 1 /\ loadsAt' = loadsAt \union {Request}
    /\ UNCHANGED <<built, registered, wsHandler, overtaken, grouped, asc, latest, stale, wsRafId>>
    /\ UNCHANGED listData /\ UNCHANGED flow

\* What follows the awaits is run by whichever visit comes that far: the
\* handler is registered without a look at the generation.
initEnds(i) ==
    /\ i \in inits /\ inits' = inits \ {i} /\ \A l \in loadsAt : l.id # i.l
    /\ registered' = registered \union {i.v} /\ wsHandler' = i.v
    /\ overtaken' = IF on /\ i.v = visit THEN overtaken ELSE overtaken + 1
    /\ UNCHANGED <<visit, on, built, grouped, asc, loadsAt, nload, latest, stale, wsRafId, clicks>>
    /\ UNCHANGED listData /\ UNCHANGED flow

destroyKeepsHandler ==
    /\ Click /\ on /\ on' = FALSE /\ built' = FALSE
    /\ lst' = << >> /\ hashIndex' = [h \in PktHashes |-> 0] /\ pureGroups' = TRUE /\ grouped' = TRUE /\ wsRafId' = FALSE
    /\ UNCHANGED <<visit, inits, registered, wsHandler, overtaken, asc, loadsAt, nload, latest, stale>>
    /\ UNCHANGED flow
destroy ==
    /\ Click /\ on /\ on' = FALSE /\ built' = FALSE
    /\ registered' = registered \ {wsHandler} /\ wsHandler' = 0
    /\ lst' = << >> /\ hashIndex' = [h \in PktHashes |-> 0] /\ pureGroups' = TRUE /\ grouped' = TRUE /\ wsRafId' = FALSE
    /\ UNCHANGED <<visit, inits, overtaken, asc, loadsAt, nload, latest, stale>>
    /\ UNCHANGED flow

------------------------------------------------------------------------------
(* Loads: any number at once, each answer replaces the list. *)

ClickReload ==
    /\ Click /\ on /\ built /\ nload' = nload + 1 /\ loadsAt' = loadsAt \union {Request}
    /\ UNCHANGED <<grouped, asc, latest, stale, wsRafId>>
    /\ UNCHANGED listData /\ UNCHANGED flow /\ UNCHANGED life
fGroup ==
    /\ Click /\ on /\ built /\ nload' = nload + 1 /\ loadsAt' = loadsAt \union {Request}
    /\ grouped' = ~grouped /\ pureGroups' = FALSE
    /\ UNCHANGED <<asc, latest, stale, wsRafId, lst, hashIndex>>
    /\ UNCHANGED flow /\ UNCHANGED life

\* Array.sort by time; what is of one time stays in its order.
ByTime(rows, up) == {pq \in (DOMAIN rows) \X (DOMAIN rows) :
    \/ IF up THEN rows[pq[1]].t < rows[pq[2]].t ELSE rows[pq[1]].t > rows[pq[2]].t
    \/ rows[pq[1]].t = rows[pq[2]].t /\ pq[1] < pq[2]}
Sorted(rows, up) == Arranged(rows, ByTime(rows, up))

\* The answer's packets, newest first, as fresh objects.
Answer(snap) ==
    LET hs == {h \in PktHashes : snap[h] > 0}
        hash(i) == Placed(hs, {gh \in hs \X hs : snap[gh[1]] > snap[gh[2]]}, i)
    IN [i \in 1..Min({Cardinality(hs), PktLimit}) |-> [o |-> i, h |-> hash(i), t |-> snap[hash(i)]]]
IndexOf(rows) == [h \in PktHashes |-> Max({0} \union {rows[i].o : i \in {j \in 1..Len(rows) : rows[j].h = h}})]

\* The flat list holds copies of the observations, here two of each packet.
Flat(rows) == [i \in 1..(2 * Len(rows)) |-> [rows[(i + 1) \div 2] EXCEPT !.o = 0]]
loadAnswers(l) ==
    /\ l \in loadsAt /\ l.at = "net" /\ loadsAt' = (loadsAt \ {l}) \union {[l EXCEPT !.at = "kids"]}
    /\ LET rows == Answer(l.snap)
       IN /\ lst' = (IF grouped THEN rows ELSE Flat(rows))
          /\ hashIndex' = IndexOf(rows)
    /\ pureGroups' = grouped /\ stale' = TRUE
    /\ UNCHANGED <<grouped, asc, nload, latest, wsRafId, clicks>>
    /\ UNCHANGED flow /\ UNCHANGED life

\* The children of expanded groups have come: sort and draw, the bar too if
\* it is not there.
loadEnds(l) ==
    /\ l \in loadsAt /\ l.at = "kids" /\ loadsAt' = loadsAt \ {l}
    /\ lst' = Sorted(lst, asc) /\ built' = (built \/ on) /\ stale' = (stale /\ ~on)
    /\ UNCHANGED <<visit, on, inits, registered, wsHandler, overtaken, grouped, hashIndex, asc, pureGroups, nload, latest, wsRafId, clicks>>
    /\ UNCHANGED flow
loadFails(l) ==
    /\ l \in loadsAt /\ l.at = "net" /\ loadsAt' = loadsAt \ {l}
    /\ UNCHANGED <<grouped, asc, nload, latest, stale, wsRafId, clicks>>
    /\ UNCHANGED listData /\ UNCHANGED flow /\ UNCHANGED life
onSort ==
    /\ on /\ built /\ Click /\ asc' = ~asc /\ lst' = Sorted(lst, ~asc) /\ stale' = FALSE
    /\ UNCHANGED <<hashIndex, pureGroups, grouped, loadsAt, nload, latest, wsRafId>>
    /\ UNCHANGED flow /\ UNCHANGED life

------------------------------------------------------------------------------
(* Messages. *)

\* A packet is heard: the server has it, every registered handler gets it.
Heard(h) ==
    /\ msg < MaxMsg /\ msg' = msg + 1 /\ hashOf' = Append(hashOf, [h |-> h, got |-> registered # {}]) /\ latest' = [latest EXCEPT ![h] = msg + 1]
    /\ pend' = pend \o [i \in 1..Cardinality(registered) |-> [v |-> Nth(registered, i), m |-> msg + 1]]
    /\ UNCHANGED <<paused, pauseBuffer, merges, merged, capped, lost, grouped, asc, loadsAt, nload, stale, wsRafId, clicks>>
    /\ UNCHANGED listData /\ UNCHANGED life

Suffix(s, n) == IF Len(s) > n THEN SubSeq(s, Len(s) - n + 1, Len(s)) ELSE s
flushPausedBlind ==
    /\ pend # << >> /\ pend' = << >> /\ UNCHANGED <<msg, paused, merged, lost, hashOf>>
    /\ IF paused
       THEN /\ pauseBuffer' = Suffix(pend, PauseCap) /\ UNCHANGED merges
            /\ capped' = capped \union (ToSet(pend) \ ToSet(pauseBuffer'))
       ELSE UNCHANGED <<pauseBuffer, capped>> /\ merges' = merges \union ToSet(pend)
    /\ UNCHANGED <<grouped, asc, loadsAt, nload, latest, stale, wsRafId, clicks>>
    /\ UNCHANGED listData /\ UNCHANGED life

\* The batch timer: held back while paused, else on to the hops.
flushBatch ==
    /\ pend # << >> /\ pend' = << >> /\ UNCHANGED <<msg, paused, merged, lost, hashOf>>
    /\ IF paused
       THEN /\ pauseBuffer' = Suffix(pauseBuffer \o pend, PauseCap) /\ UNCHANGED merges
            /\ capped' = capped \union (ToSet(pauseBuffer \o pend) \ ToSet(pauseBuffer'))
       ELSE UNCHANGED <<pauseBuffer, capped>> /\ merges' = merges \union ToSet(pend)
    /\ UNCHANGED <<grouped, asc, loadsAt, nload, latest, stale, wsRafId, clicks>>
    /\ UNCHANGED listData /\ UNCHANGED life

\* pkt-pause; what was held back goes through the handler again, if any.
pktPause ==
    /\ Click /\ on /\ paused' = ~paused
    /\ IF paused
       THEN /\ pauseBuffer' = << >>
            /\ IF wsHandler # 0 THEN pend' = pend \o [i \in 1..Len(pauseBuffer) |-> [pauseBuffer[i] EXCEPT !.v = wsHandler]] /\ UNCHANGED lost
               ELSE lost' = lost \union {pauseBuffer[i].m : i \in 1..Len(pauseBuffer)} /\ UNCHANGED pend
       ELSE UNCHANGED <<pend, pauseBuffer, lost>>
    /\ UNCHANGED <<msg, merges, merged, capped, hashOf, grouped, asc, loadsAt, nload, latest, stale, wsRafId>>
    /\ UNCHANGED listData /\ UNCHANGED life

\* One message becomes part of the list.
evictKeepsIndex(rows, idx) == [rows |-> SubSeq(rows, 1, Min({Len(rows), PktLimit})), idx |-> idx]
evict(rows, idx) ==
    [rows |-> SubSeq(rows, 1, Min({Len(rows), PktLimit})),
     idx |-> [h \in PktHashes |-> IF \E i \in (PktLimit + 1)..Len(rows) : rows[i].h = h THEN 0 ELSE idx[h]]]
MergeGrouped(h, t) ==
    LET o == hashIndex[h]
        used == {hashIndex[g] : g \in PktHashes} \union {lst[i].o : i \in 1..Len(lst)}
        new_ == Min((1..(Cardinality(used) + 1)) \ used)
        touched == [i \in 1..Len(lst) |-> IF lst[i].o = o /\ t > lst[i].t THEN [lst[i] EXCEPT !.t = t] ELSE lst[i]]
        fresh == <<[o |-> new_, h |-> h, t |-> t]>> \o lst
        new == IF o # 0 THEN evict(Sorted(touched, asc), hashIndex)
               ELSE evict(Sorted(fresh, asc), [hashIndex EXCEPT ![h] = new_])
    IN lst' = new.rows /\ hashIndex' = new.idx
MergeFlat(h, t) ==
    /\ lst' = SubSeq(<<[o |-> 0, h |-> h, t |-> t]>> \o lst, 1, Min({Len(lst) + 1, PktLimit}))
    /\ UNCHANGED hashIndex
mergeFlatUndrawn(x) ==
    /\ x \in merges /\ merges' = merges \ {x} /\ merged' = merged \union {x}
    /\ IF grouped THEN MergeGrouped(hashOf[x.m].h, x.m) ELSE MergeFlat(hashOf[x.m].h, x.m)
    /\ stale' = TRUE /\ wsRafId' = (wsRafId \/ grouped)
    /\ UNCHANGED <<msg, pend, paused, pauseBuffer, capped, lost, hashOf, grouped, asc, pureGroups, loadsAt, nload, latest, clicks>>
    /\ UNCHANGED life
merge(x) ==
    /\ x \in merges /\ merges' = merges \ {x} /\ merged' = merged \union {x}
    /\ IF grouped THEN MergeGrouped(hashOf[x.m].h, x.m) ELSE MergeFlat(hashOf[x.m].h, x.m)
    /\ stale' = TRUE /\ wsRafId' = TRUE
    /\ UNCHANGED <<msg, pend, paused, pauseBuffer, capped, lost, hashOf, grouped, asc, pureGroups, loadsAt, nload, latest, clicks>>
    /\ UNCHANGED life

wsFrame ==
    /\ wsRafId /\ wsRafId' = FALSE /\ stale' = (stale /\ ~(on /\ built))
    /\ UNCHANGED <<grouped, asc, loadsAt, nload, latest, clicks>>
    /\ UNCHANGED listData /\ UNCHANGED flow /\ UNCHANGED life

ListNext ==
    \/ initPackets \/ destroy \/ (\E i \in inits : initEnds(i))
    \/ ClickReload \/ fGroup \/ onSort \/ pktPause
    \/ \E l \in loadsAt : loadAnswers(l) \/ loadEnds(l) \/ loadFails(l)
    \/ \E h \in PktHashes : Heard(h)
    \/ flushBatch \/ (\E x \in merges : merge(x)) \/ wsFrame

(* While the list is grouped and was not flat since it was loaded, the      *)
(* index leads from every hash to its one group and to nothing else,        *)
(* through merges in any order, evictions and overlapping loads: no packet  *)
(* gets two rows and none is merged into a group that is not shown.         *)
IndexIsExact ==
    pureGroups => /\ \A i \in 1..Len(lst) : hashIndex[lst[i].h] = lst[i].o
                  /\ \A h \in PktHashes : hashIndex[h] # 0 => \E i \in 1..Len(lst) : lst[i].o = hashIndex[h]

(* Handlers pile up only with visits that ended before their init did; no   *)
(* other visit leaves one behind.                                           *)
HandlersCounted ==
    /\ Cardinality(registered) <= 1 + overtaken
    /\ overtaken = 0 => registered = (IF on /\ wsHandler # 0 THEN {visit} ELSE {})

(* With one handler, every message it got is in one place: its batch, the   *)
(* pause buffer, the hop resolution, the list, or it was cut off or dropped *)
(* by a resume without a handler; pausing and resuming neither lose nor     *)
(* double it.                                                               *)
PauseKeepsAll ==
    overtaken = 0 =>
        LET where(m) == (IF \E i \in 1..Len(pend) : pend[i].m = m THEN {"pend"} ELSE {})
                        \union (IF \E i \in 1..Len(pauseBuffer) : pauseBuffer[i].m = m THEN {"buffer"} ELSE {})
                        \union (IF \E x \in merges : x.m = m THEN {"hops"} ELSE {})
                        \union (IF \E x \in merged : x.m = m THEN {"list"} ELSE {})
            gone == {x.m : x \in capped} \union lost
        IN /\ \A m \in 1..msg : IF hashOf[m].got /\ m \notin gone THEN Cardinality(where(m)) = 1 ELSE where(m) = {}
           /\ Len(pauseBuffer) <= PauseCap

(* A change of the list is drawn: a frame is due, or a load that will draw. *)
NoLostRender == on /\ built /\ stale => wsRafId \/ \E l \in loadsAt : l.at = "kids"

------------------------------------------------------------------------------
(***************************************************************************)
(* The virtual scroll of the packets table (public/packets.js): row        *)
(* counts, cumulative offsets, the binary search for the visible range and *)
(* the incremental update of the rows in the document.  Heights are in     *)
(* rows; the header of the table is one row high.                          *)
(***************************************************************************)

CONSTANTS MaxEntries,   \* groups in the list
          MaxKids,      \* observations of an expanded group
          ViewH,        \* clientHeight, in rows
          Buffer,       \* VSCROLL_BUFFER
          MaxDraws      \* bound on re-renders and late children

ASSUME PktRowsAssumption == {MaxEntries, MaxKids, ViewH, Buffer, MaxDraws} \subseteq Nat

TheadH == 1

VARIABLES kids,         \* entry -> children of _displayPackets[entry]; a sequence
          rowCounts,    \* _rowCounts
          dirty,        \* _rowCountsDirty
          offCache,     \* _cumulativeOffsetsCache, << >> for null
          last,         \* [s, e]: _lastVisibleStart, _lastVisibleEnd
          dom,          \* the data rows in the tbody: their entries, in order
          pads,         \* heights of the spacers: [top, bottom]
          scrollTop, scrollRaf, attached, wsRaf, ndraws

rowVars == <<kids, rowCounts, dirty, offCache, last, dom, pads, scrollTop, scrollRaf, attached, wsRaf, ndraws>>

NoRange == [s |-> -1, e |-> -1]
RowInit ==
    /\ kids = << >> /\ rowCounts = << >> /\ dirty = FALSE /\ offCache = << >> /\ last = NoRange /\ dom = << >>
    /\ pads = [top |-> 0, bottom |-> 0] /\ scrollTop = 0 /\ scrollRaf = FALSE /\ attached = FALSE /\ wsRaf = FALSE
    /\ ndraws = 0

_getRowCount(k) == 1 + k
Counts(ks) == [i \in 1..Len(ks) |-> _getRowCount(ks[i])]

\* offsets[i + 1] is the number of rows before entry i, entries from 0.
_cumulativeRowOffsets(cs) ==
    LET offsets[i \in 1..(Len(cs) + 1)] == IF i = 1 THEN 0 ELSE offsets[i - 1] + cs[i - 1]
    IN offsets
At(off, i) == off[i + 1]

\* The binary search: the first entry in lo..hi whose rows end below row.
Bisect(off, row, lo0, hi0) ==
    LET found[b \in (0..hi0) \X (0..hi0)] ==   \* b = <<lo, hi>>
          LET mid == (b[1] + b[2]) \div 2
          IN IF b[1] >= b[2] THEN b[1]
             ELSE IF At(off, mid + 1) <= row THEN found[<<mid + 1, b[2]>>]
             ELSE found[<<b[1], mid>>]
    IN found[<<lo0, hi0>>]

rangeWithoutTail(off, n, top) ==
    LET firstRow == Max({0, top - TheadH})
        firstEntry == Bisect(off, firstRow, 0, n)
    IN [s |-> Max({0, firstEntry - Buffer}), e |-> Min({n, firstEntry + Buffer})]
_calcVisibleRange(off, n, top) ==
    LET firstRow == Max({0, top - TheadH})
        firstEntry == Bisect(off, firstRow, 0, n)
        lastEntry == Min({Bisect(off, firstRow + ViewH, firstEntry, n) + 1, n})
    IN [s |-> Max({0, firstEntry - Buffer}), e |-> Min({n, lastEntry + Buffer})]

\* The rows of the entries from a up to b - 1, with the children they have now.
builder(ks, a, b) ==
    LET html[i \in a..b] == IF i = a THEN << >> ELSE html[i - 1] \o [x \in 1.._getRowCount(ks[i]) |-> i - 1]
    IN html[b]

DropFirst(s, n) == IF n <= 0 THEN s ELSE SubSeq(s, n + 1, Len(s))
DropLast(s, n) == IF n <= 0 THEN s ELSE SubSeq(s, 1, Len(s) - n)
incrementalPrepends(off, ks, prev, new) ==
    LET headGone == DropFirst(dom, At(off, Min({new.s, prev.e})) - At(off, prev.s))
        kept == DropLast(headGone, At(off, prev.e) - At(off, Max({new.e, prev.s})))
        front == IF new.s < prev.s THEN builder(ks, new.s, Min({prev.s, new.e})) ELSE << >>
        back == IF new.e > prev.e THEN builder(ks, prev.s, new.e) ELSE << >>
    IN front \o kept \o back

\* Rows leave at both ends by count, then the new ones are built.
incremental(off, ks, prev, new) ==
    LET headGone == DropFirst(dom, At(off, Min({new.s, prev.e})) - At(off, prev.s))
        kept == DropLast(headGone, At(off, prev.e) - At(off, Max({new.e, prev.s})))
        front == IF new.s < prev.s THEN builder(ks, new.s, Min({prev.s, new.e})) ELSE << >>
        back == IF new.e > prev.e THEN builder(ks, Max({prev.e, new.s}), new.e) ELSE << >>
    IN front \o kept \o back

\* renderVisibleRows for a list ks whose counts are cs, after prev was shown.
renderVisibleRows(ks, cs, prev) ==
    LET off == _cumulativeRowOffsets(cs)
        new == _calcVisibleRange(off, Len(ks), scrollTop)
        overlap == prev # NoRange /\ new.s < prev.e /\ new.e > prev.s
    IN /\ offCache' = off
       /\ IF new = prev THEN UNCHANGED <<dom, pads, last>>
          ELSE /\ last' = new
               /\ pads' = [top |-> At(off, new.s), bottom |-> At(off, Len(ks)) - At(off, new.e)]
               /\ dom' = IF overlap THEN incremental(off, ks, prev, new) ELSE builder(ks, new.s, new.e)

Height(p, d) == TheadH + p.top + Len(d) + p.bottom

\* A list is drawn: by a filter, an answer, a collapse or a message.  The
\* browser moves the scroll position into what is there and says so.
renderTableRows(ks) ==
    /\ kids' = ks /\ dirty' = FALSE
    /\ IF ks = << >>
       THEN /\ rowCounts' = << >> /\ offCache' = << >> /\ last' = NoRange /\ dom' = << >> /\ attached' = FALSE
            /\ pads' = [top |-> 0, bottom |-> 0] /\ scrollTop' = 0 /\ UNCHANGED scrollRaf
       ELSE /\ rowCounts' = Counts(ks) /\ attached' = TRUE /\ renderVisibleRows(ks, Counts(ks), NoRange)
            /\ LET top == Min({scrollTop, Max({0, Height(pads', dom') - ViewH})})
               IN scrollTop' = top /\ scrollRaf' = (scrollRaf \/ top # scrollTop)
Redraw(ks) == ndraws < MaxDraws /\ ndraws' = ndraws + 1 /\ renderTableRows(ks) /\ UNCHANGED wsRaf

\* A message adds a child to an expanded group: heights are stale until the
\* next frame.
_invalidateRowCounts(i) ==
    /\ ndraws < MaxDraws /\ ndraws' = ndraws + 1 /\ kids[i] \in 1..(MaxKids - 1)
    /\ kids' = [kids EXCEPT ![i] = @ + 1] /\ dirty' = TRUE /\ offCache' = << >> /\ wsRaf' = TRUE
    /\ UNCHANGED <<rowCounts, last, dom, pads, scrollTop, scrollRaf, attached>>
scheduleWSRender == wsRaf /\ wsRaf' = FALSE /\ renderTableRows(kids) /\ UNCHANGED ndraws

UserScrolls(top) ==
    /\ top # scrollTop /\ top \in 0..Max({0, Height(pads, dom) - ViewH}) /\ scrollTop' = top
    /\ scrollRaf' = (scrollRaf \/ attached)
    /\ UNCHANGED <<kids, rowCounts, dirty, offCache, last, dom, pads, attached, wsRaf, ndraws>>

\* The frame of the scroll handler; stale counts are refreshed first.
scrollFrame ==
    /\ scrollRaf /\ scrollRaf' = FALSE
    /\ IF kids = << >> THEN UNCHANGED <<rowCounts, dirty, offCache, last, dom, pads>>
       ELSE /\ rowCounts' = (IF dirty THEN Counts(kids) ELSE rowCounts) /\ dirty' = FALSE
            /\ renderVisibleRows(kids, rowCounts', last)
    /\ UNCHANGED <<kids, scrollTop, attached, wsRaf, ndraws>>

\* Nothing, a few, or many groups, one or two of them expanded.
Lists == {<< >>, <<0, 1>>} \union
         {[j \in 1..MaxEntries |-> IF j \in e THEN 1 ELSE 0] : e \in {{i} : i \in 1..MaxEntries} \union {{}, {2, 3}}}
RowNext ==
    \/ \E ks \in Lists : Redraw(ks)
    \/ \E i \in 1..Len(kids) : _invalidateRowCounts(i)
    \/ \E top \in 0..((MaxKids + 1) * MaxEntries) : UserScrolls(top)
    \/ scheduleWSRender \/ scrollFrame

(* When no frame is due, the rows in the document are those of the range    *)
(* that was rendered last, each once and in order: adding and removing rows *)
(* at both ends is the same as building them all.                           *)
RowsMatchRange ==
    ~wsRaf /\ kids # << >> => dom = builder(kids, last.s, last.e)

(* When no frame is due, every row that would be in the window at this      *)
(* scroll position is in the document, and the spacers stand for the rest.  *)
WindowCovered ==
    ~wsRaf /\ ~scrollRaf /\ kids # << >> =>
        LET all == builder(kids, 0, Len(kids))
            seen == {all[r] : r \in {x \in 1..Len(all) : x - 1 + TheadH >= scrollTop /\ x + TheadH <= scrollTop + ViewH}}
        IN seen \subseteq ToSet(dom) /\ Height(pads, dom) = TheadH + Len(all)

(* The index, the handlers, the pause buffer and the frames of the list lose
   nothing, and the rows in the document are those of the range in view. *)
PacketListExact ==
    /\ IndexIsExact
    /\ HandlersCounted
    /\ PauseKeepsAll
    /\ NoLostRender
    /\ RowsMatchRange
    /\ WindowCovered
==============================================================================
