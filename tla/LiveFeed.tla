------------------------------ MODULE LiveFeed -------------------------------
(***************************************************************************)
(* From the socket to the feed of the live page (public/live.js): packets  *)
(* are buffered, held back so that observations of one transmission can be *)
(* drawn together, dropped while the tab is hidden or a replay handed over *)
(* from the packets page is shown, and listed in a feed that counts the    *)
(* observations of a hash in one item for a while.                         *)
(*                                                                         *)
(* A packet is its hash.  The node, region and favourites filters all      *)
(* stand behind the counter and before the feed: they are one filter here. *)
(***************************************************************************)
EXTENDS SequencesExt, Subsequences

CONSTANTS Hashes,       \* packet hashes
          Favourite,    \* those the favourites, node and region filters let through
          Multibyte,    \* those with path hashes of two bytes or more
          FeedMax,      \* 25: items in the feed
          MaxPackets,   \* bound on packets from the socket
          MaxSwitches,  \* bound on filter, tab and theme changes
          MaxHandoffs   \* bound on replays handed over

ASSUME LiveFeedAssumption ==
    /\ IsFiniteSet(Hashes) /\ Favourite \subseteq Hashes /\ Multibyte \subseteq Hashes
    /\ FeedMax \in Nat \ {0} /\ MaxPackets \in Nat /\ MaxSwitches \in Nat /\ MaxHandoffs \in Nat

VARIABLES feedPage,     \* the page is mounted
          sw,           \* switches: [hidden, suppress, realistic, favOnly, multiOnly, paused]
          vcrBuffer,    \* the packets of VCR.buffer
          prop,         \* propagationBuffer: hash -> packets held back
          propTimers,   \* hashes with an armed timer
          muteTimers,   \* armed timers that end suppressLive
          els,          \* feed items created since the last rebuild: [h, n, fresh]
          feed,         \* the items in the document, newest first
          feedDedup,    \* hash -> its item, 0 if it has none
          packetCount,  \* the page's packet counter
          tally,        \* history: what became of the packets received live
          switches, handoffs, received

feedVars == <<feedPage, sw, vcrBuffer, prop, propTimers, muteTimers, els, feed, feedDedup,
              packetCount, tally, switches, handoffs, received>>
feedBound == <<switches, handoffs, received>>

FeedInit ==
    /\ feedPage = TRUE
    /\ sw = [hidden |-> FALSE, suppress |-> FALSE, realistic |-> TRUE, favOnly |-> FALSE,
             multiOnly |-> FALSE, paused |-> FALSE]
    /\ vcrBuffer = <<>> /\ prop = [h \in Hashes |-> 0] /\ propTimers = {} /\ muteTimers = 0
    /\ els = <<>> /\ feed = <<>> /\ feedDedup = [h \in Hashes |-> 0] /\ packetCount = 0
    /\ tally = [live |-> 0, drawn |-> 0, dropped |-> 0]
    /\ switches = 0 /\ handoffs = 0 /\ received = 0

------------------------------------------------------------------------------
(* The feed.  Each operator takes and returns s = [els, feed, dedup]. *)

feedState == [els |-> els, feed |-> feed, dedup |-> feedDedup]
FeedBecomes(s) == els' = s.els /\ feed' = s.feed /\ feedDedup' = s.dedup

Prepend(i, f) == <<i>> \o Picked(f, {p \in DOMAIN f : f[p] # i})

addFeedItemUncapped(s, h, n) ==
    LET i == s.dedup[h] IN
    IF i # 0 /\ s.els[i].fresh
      THEN [s EXCEPT !.els[i].n = @ + n, !.feed = Prepend(i, @)]
      ELSE [els |-> Append(s.els, [h |-> h, n |-> n, fresh |-> TRUE]),
            feed |-> <<Len(s.els) + 1>> \o s.feed,
            dedup |-> [s.dedup EXCEPT ![h] = Len(s.els) + 1]]

addFeedItemForgets(s, h, n) ==
    LET k == Len(s.els) + 1
        f == <<k>> \o s.feed
    IN [els |-> Append(s.els, [h |-> h, n |-> n, fresh |-> TRUE]),
        feed |-> SubSeq(f, 1, IF Len(f) > FeedMax THEN FeedMax ELSE Len(f)),
        dedup |-> [s.dedup EXCEPT ![h] = k]]

\* n observations of h: counted by its item while that is fresh, and the item
\* moves to the top even if it had been trimmed; a new item otherwise.
addFeedItem(s, h, n) ==
    LET i == s.dedup[h] IN
    IF i # 0 /\ s.els[i].fresh
      THEN [s EXCEPT !.els[i].n = @ + n, !.feed = Prepend(i, @)]
      ELSE LET k == Len(s.els) + 1
               f == <<k>> \o s.feed
           IN [els |-> Append(s.els, [h |-> h, n |-> n, fresh |-> TRUE]),
               feed |-> SubSeq(f, 1, IF Len(f) > FeedMax THEN FeedMax ELSE Len(f)),
               dedup |-> [s.dedup EXCEPT ![h] = k]]

CountIn(q, h) == Cardinality({i \in DOMAIN q : q[i] = h})
Latest(q) == {i \in DOMAIN q : \A j \in (i + 1)..Len(q) : q[j] # q[i]}

\* What a feed of these hashes, counted in q, looks like.
FeedOf(list, q) ==
    [els |-> [i \in DOMAIN list |-> [h |-> list[i], n |-> CountIn(q, list[i]), fresh |-> TRUE]],
     feed |-> [i \in DOMAIN list |-> i],
     dedup |-> [h \in Hashes |-> IF \E i \in DOMAIN list : list[i] = h
                                 THEN CHOOSE i \in DOMAIN list : list[i] = h ELSE 0]]

\* rebuildFeedList: one item per hash of the buffer, the latest ones first.
\* Only the multibyte filter is applied, after the cut to FeedMax.
Rebuilt(q, multiOnly) ==
    LET order == Reverse(Picked(q, Latest(q)))
        top == SubSeq(order, 1, IF Len(order) > FeedMax THEN FeedMax ELSE Len(order))
    IN FeedOf(Picked(top, {i \in DOMAIN top : ~multiOnly \/ top[i] \in Multibyte}), q)
RebuiltKeepsDedup(q, multiOnly) ==
    [FeedOf(Reverse(Picked(q, Latest(q))), q) EXCEPT !.dedup = [h \in Hashes |-> 0]]

\* renderPacketTree for n packets of h received live: counted unless the
\* multibyte filter drops them, listed if the other filters let them through.
\* Without a page there is no feed, and the counter counts all the same.
renderPacketTree(h, n) ==
    /\ packetCount' = IF sw.multiOnly /\ h \notin Multibyte THEN packetCount ELSE packetCount + n
    /\ FeedBecomes(IF \/ sw.multiOnly /\ h \notin Multibyte
                      \/ sw.favOnly /\ h \notin Favourite
                      \/ ~feedPage
                   THEN feedState ELSE addFeedItem(feedState, h, n))

------------------------------------------------------------------------------
(* Packets and timers. *)

NotDrawn == UNCHANGED <<els, feed, feedDedup, packetCount>>

\* bufferPacket: everything goes to the buffer; in LIVE mode it is dropped,
\* held back or drawn.
bufferPacket_live(h) ==
    /\ feedPage /\ received < MaxPackets /\ received' = received + 1
    /\ vcrBuffer' = Append(vcrBuffer, h)
    /\ \/ sw.paused /\ NotDrawn /\ UNCHANGED <<prop, propTimers, tally>>
       \/ /\ ~sw.paused /\ (sw.hidden \/ sw.suppress) /\ NotDrawn
          /\ tally' = [tally EXCEPT !.live = @ + 1, !.dropped = @ + 1]
          /\ UNCHANGED <<prop, propTimers>>
       \/ /\ ~sw.paused /\ ~sw.hidden /\ ~sw.suppress /\ sw.realistic /\ NotDrawn
          /\ prop' = [prop EXCEPT ![h] = @ + 1]
          /\ propTimers' = propTimers \union {h}
          /\ tally' = [tally EXCEPT !.live = @ + 1]
       \/ /\ ~sw.paused /\ ~sw.hidden /\ ~sw.suppress /\ ~sw.realistic
          /\ renderPacketTree(h, 1)
          /\ tally' = [tally EXCEPT !.live = @ + 1, !.drawn = @ + 1]
          /\ UNCHANGED <<prop, propTimers>>
    /\ UNCHANGED <<feedPage, sw, muteTimers, switches, handoffs>>

PropagationTimerKeeps(h) ==
    /\ h \in propTimers /\ propTimers' = propTimers \ {h}
    /\ IF prop[h] > 0 THEN renderPacketTree(h, prop[h]) ELSE NotDrawn
    /\ tally' = [tally EXCEPT !.drawn = @ + prop[h]]
    /\ UNCHANGED <<feedPage, sw, vcrBuffer, muteTimers, feedBound, prop>>

\* The timer of a hash: what was held back is drawn together, page or no page.
PropagationTimer(h) ==
    /\ h \in propTimers /\ propTimers' = propTimers \ {h}
    /\ prop' = [prop EXCEPT ![h] = 0]
    /\ IF prop[h] > 0 THEN renderPacketTree(h, prop[h]) ELSE NotDrawn
    /\ tally' = [tally EXCEPT !.drawn = @ + prop[h]]
    /\ UNCHANGED <<feedPage, sw, vcrBuffer, muteTimers, feedBound>>

\* DEDUP_WINDOW has passed since an item was created.
Expire(h) ==
    /\ feedDedup[h] # 0 /\ els[feedDedup[h]].fresh
    /\ els' = [els EXCEPT ![feedDedup[h]].fresh = FALSE]
    /\ UNCHANGED <<feedPage, sw, vcrBuffer, prop, propTimers, muteTimers, feed, feedDedup,
                   packetCount, tally, feedBound>>

------------------------------------------------------------------------------
(* The user. *)

Switch == switches < MaxSwitches /\ switches' = switches + 1 /\ UNCHANGED <<handoffs, received>>

VisibilityKeepsTimers ==
    /\ Switch /\ sw' = [sw EXCEPT !.hidden = ~@]
    /\ IF sw.hidden
         THEN /\ prop' = [h \in Hashes |-> 0]
              /\ tally' = [tally EXCEPT !.dropped = tally.live - tally.drawn]
         ELSE UNCHANGED <<prop, tally>>
    /\ UNCHANGED <<feedPage, vcrBuffer, muteTimers, els, feed, feedDedup, packetCount, propTimers>>

\* visibilitychange: on restore everything held back is dropped, with its timers.
Visibility ==
    /\ Switch /\ sw' = [sw EXCEPT !.hidden = ~@]
    /\ IF sw.hidden
         THEN /\ prop' = [h \in Hashes |-> 0] /\ propTimers' = {}
              /\ tally' = [tally EXCEPT !.dropped = tally.live - tally.drawn]
         ELSE UNCHANGED <<prop, propTimers, tally>>
    /\ UNCHANGED <<feedPage, vcrBuffer, muteTimers, els, feed, feedDedup, packetCount>>

\* Realistic propagation, and the VCR's pause.
Flip ==
    /\ feedPage /\ Switch
    /\ \E k \in {"realistic", "paused"} : sw' = [sw EXCEPT ![k] = ~@]
    /\ UNCHANGED <<feedPage, vcrBuffer, prop, propTimers, muteTimers, els, feed, feedDedup,
                   packetCount, tally>>

\* The favourites and the multibyte switch rebuild the feed, as a new theme does.
applyFavoritesFilter ==
    /\ feedPage /\ Switch
    /\ \/ \E k \in {"favOnly", "multiOnly"} : sw' = [sw EXCEPT ![k] = ~@]
       \/ UNCHANGED sw
    /\ FeedBecomes(Rebuilt(vcrBuffer, sw'.multiOnly))
    /\ UNCHANGED <<feedPage, vcrBuffer, prop, propTimers, muteTimers, packetCount, tally>>

HandoffNoTimer ==
    /\ ~feedPage /\ handoffs < MaxHandoffs /\ handoffs' = handoffs + 1
    /\ feedPage' = TRUE /\ sw' = [sw EXCEPT !.suppress = TRUE]
    /\ UNCHANGED <<vcrBuffer, prop, propTimers, els, feed, feedDedup, packetCount, tally, switches,
                   received, muteTimers>>

\* init with a packet to replay: live traffic is muted, a timer ends it.
Handoff ==
    /\ ~feedPage /\ handoffs < MaxHandoffs /\ handoffs' = handoffs + 1
    /\ feedPage' = TRUE /\ sw' = [sw EXCEPT !.suppress = TRUE] /\ muteTimers' = muteTimers + 1
    /\ UNCHANGED <<vcrBuffer, prop, propTimers, els, feed, feedDedup, packetCount, tally, switches,
                   received>>

MuteEnds ==
    /\ muteTimers > 0 /\ muteTimers' = muteTimers - 1 /\ sw' = [sw EXCEPT !.suppress = FALSE]
    /\ UNCHANGED <<feedPage, vcrBuffer, prop, propTimers, els, feed, feedDedup, packetCount, tally,
                   feedBound>>

\* destroy: what is held back, and the mute, survive the page.
FeedDestroy ==
    /\ feedPage /\ feedPage' = FALSE
    /\ vcrBuffer' = <<>> /\ packetCount' = 0 /\ sw' = [sw EXCEPT !.paused = FALSE]
    /\ FeedBecomes([els |-> <<>>, feed |-> <<>>, dedup |-> [h \in Hashes |-> 0]])
    /\ UNCHANGED <<prop, propTimers, muteTimers, tally, feedBound>>

FeedNext ==
    \/ \E h \in Hashes : bufferPacket_live(h) \/ PropagationTimer(h) \/ Expire(h)
    \/ Visibility \/ Flip \/ applyFavoritesFilter \/ Handoff \/ MuteEnds \/ FeedDestroy

FeedSpec == FeedInit /\ [][FeedNext]_feedVars

------------------------------------------------------------------------------
(* Switches, buffers, feed and counters have their types. *)
FeedTypeOK ==
    /\ feedPage \in BOOLEAN /\ sw \in [DOMAIN sw -> BOOLEAN]
    /\ vcrBuffer \in Seq(Hashes) /\ prop \in [Hashes -> Nat] /\ propTimers \subseteq Hashes
    /\ els \in Seq([h : Hashes, n : Nat \ {0}, fresh : BOOLEAN])
    /\ feed \in Seq(1..Len(els)) /\ feedDedup \in [Hashes -> 0..Len(els)]
    /\ tally \in [{"live", "drawn", "dropped"} -> Nat] /\ muteTimers \in Nat /\ packetCount \in Nat

\* What is held back, packet by packet.
HeldBack == UNION {{h} \X (1..prop[h]) : h \in Hashes}

(* Every packet received live is drawn, dropped or still held back, and    *)
(* never twice: not by its timer after the tab came back, not by a switch  *)
(* of the propagation mode while it was held (bufferPacket, visibilitychange). *)
EveryPacketOnce == tally.drawn + tally.dropped + Cardinality(HeldBack) = tally.live

(* What is held back has its timer, and a timer never finds the packets of *)
(* a later transmission: entries and timers come and go together.          *)
HeldIffTimed == propTimers = {h \in Hashes : prop[h] > 0}

(* Within the window one hash has one item, however it was trimmed, found  *)
(* again or rebuilt, and no item is in the document twice (addFeedItem,    *)
(* rebuildFeedList).                                                       *)
OneFreshItem ==
    /\ \A i, j \in DOMAIN feed : feed[i] = feed[j] => i = j
    /\ \A i, j \in DOMAIN els : els[i].fresh /\ els[j].fresh /\ els[i].h = els[j].h => i = j

(* The feed grows past its limit only by an item that had been trimmed and *)
(* is found again; every new item brings it back to the limit.             *)
FeedBounded == [][/\ Len(els') > Len(els) => Len(feed') <= FeedMax
                  /\ Len(feed') > FeedMax /\ Len(feed') > Len(feed) => els'[Head(feed')].fresh]_feedVars

(* A page muted for a replay is not muted for good (suppressLive).         *)
MuteIsTimed == sw.suppress => muteTimers > 0

(* "Create feed item directly with correct count": an item never counts    *)
(* more observations than the page has received (rebuildFeedList).         *)
CountIsCorrect == \A i \in DOMAIN feed : els[feed[i]].n <= CountIn(vcrBuffer, els[feed[i]].h)

(* Every packet is in the feed once, and what is held back or muted has a
   timer that releases it. *)
FeedExact ==
    /\ EveryPacketOnce
    /\ HeldIffTimed
    /\ OneFreshItem
    /\ MuteIsTimed
==============================================================================
