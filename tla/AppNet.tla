----------------------------------- MODULE AppNet -----------------------------------
(***************************************************************************)
(* The request helper of the browser shell (public/app.js): api() with its *)
(* cache, its table of requests under way, its retries while the server    *)
(* warms up and the banner that counts them; and fetchAllNodes, which      *)
(* pages through a list that moves while it is being read.                 *)
(***************************************************************************)
EXTENDS Integers, Sequences, FiniteSets, SequencesExt, FiniteSetsExt, Subsequences

CONSTANTS ApiPaths,     \* request paths
          MaxAttempts,  \* maxAttempts: retries of a 503
          MaxApiCalls,  \* bound on fetches started
          MaxAskers,    \* bound on callers of api()
          Listed,       \* the nodes the server may list
          PageSize, SafetyCap,
          MaxMoves      \* bound on nodes heard while paging

ASSUME AppApiAssumption ==
    /\ IsFiniteSet(ApiPaths) /\ IsFiniteSet(Listed)
    /\ MaxAttempts \in Nat /\ MaxApiCalls \in Nat /\ MaxAskers \in Nat /\ MaxMoves \in Nat
    /\ PageSize \in Nat \ {0} /\ SafetyCap \in Nat \ {0}

VARIABLES cache,        \* _apiCache: path -> the server's version, 0 if none or expired
          inflight,     \* _inflight: path -> the fetch, 0 if none
          fetches,      \* every fetch: [path, keep, st, attempt, notified]
          nasks,        \* callers so far
          warm,         \* _warmupInflight_1659
          version       \* path -> the server's version of the answer

apiVars == <<cache, inflight, fetches, nasks, warm, version>>

ApiInit ==
    /\ cache = [p \in ApiPaths |-> 0] /\ inflight = [p \in ApiPaths |-> 0]
    /\ fetches = << >> /\ nasks = 0 /\ warm = 0 /\ version = [p \in ApiPaths |-> 1]

StartFetch(p, keep) ==
    /\ Len(fetches) < MaxApiCalls
    /\ fetches' = Append(fetches, [path |-> p, keep |-> keep, st |-> "asked", attempt |-> 0, notified |-> FALSE])
    /\ inflight' = [inflight EXCEPT ![p] = Len(fetches) + 1]

apiAlone(p, keep, bust) ==
    /\ nasks < MaxAskers /\ nasks' = nasks + 1 /\ StartFetch(p, keep) /\ UNCHANGED <<cache, warm, version>>

\* api(path, {ttl, bust}): the cache, then the request under way, then a fetch.
api(p, keep, bust) ==
    /\ nasks < MaxAskers /\ nasks' = nasks + 1
    /\ IF (~bust /\ keep /\ cache[p] # 0) \/ inflight[p] # 0 THEN UNCHANGED <<inflight, fetches>>
       ELSE StartFetch(p, keep)
    /\ UNCHANGED <<cache, warm, version>>

\* The counter never goes below zero.
_warmupNotify_1659(n, active) == IF active THEN n + 1 ELSE Max({0, n - 1})

WarmingUpEachTime(i) ==
    /\ fetches[i].st = "asked" /\ fetches[i].attempt < MaxAttempts
    /\ fetches' = [fetches EXCEPT ![i].st = "waits", ![i].notified = TRUE]
    /\ warm' = _warmupNotify_1659(warm, TRUE)
    /\ UNCHANGED <<cache, inflight, nasks, version>>

WarmingUpForEver(i) ==
    /\ fetches[i].st = "asked"
    /\ fetches' = [fetches EXCEPT ![i].st = "waits", ![i].notified = TRUE, ![i].attempt = 0]
    /\ warm' = IF fetches[i].notified THEN warm ELSE _warmupNotify_1659(warm, TRUE)
    /\ UNCHANGED <<cache, inflight, nasks, version>>

\* 503 with attempts left: the banner is told once, then the wait begins.
WarmingUp(i) ==
    /\ fetches[i].st = "asked" /\ fetches[i].attempt < MaxAttempts
    /\ fetches' = [fetches EXCEPT ![i].st = "waits", ![i].notified = TRUE]
    /\ warm' = IF fetches[i].notified THEN warm ELSE _warmupNotify_1659(warm, TRUE)
    /\ UNCHANGED <<cache, inflight, nasks, version>>
Retry(i) ==
    /\ fetches[i].st = "waits"
    /\ fetches' = [fetches EXCEPT ![i].st = "asked", ![i].attempt = @ + 1]
    /\ UNCHANGED <<cache, inflight, nasks, warm, version>>

\* An answer, an error status (a 503 without attempts left too) or a failed
\* request.  Only a good answer is kept, if the first caller gave a ttl.
Settled(i, ok) ==
    /\ fetches[i].st = "asked" /\ fetches' = [fetches EXCEPT ![i].st = "done"]
    /\ inflight' = [inflight EXCEPT ![fetches[i].path] = 0]
    /\ cache' = IF ok /\ fetches[i].keep THEN [cache EXCEPT ![fetches[i].path] = version[fetches[i].path]] ELSE cache
    /\ warm' = IF fetches[i].notified THEN _warmupNotify_1659(warm, FALSE) ELSE warm
    /\ UNCHANGED <<nasks, version>>

\* An entry past its time, or one whose prefix is invalidated.
invalidateApiCache(ps) ==
    /\ \E p \in ps : cache[p] # 0
    /\ cache' = [p \in ApiPaths |-> IF p \in ps THEN 0 ELSE cache[p]]
    /\ UNCHANGED <<inflight, fetches, nasks, warm, version>>

\* The data behind an answer changes, once.
ServerMoves(p) ==
    /\ version[p] = 1 /\ version' = [version EXCEPT ![p] = 2]
    /\ UNCHANGED <<cache, inflight, fetches, nasks, warm>>

Timeouts == \E i \in DOMAIN fetches : Retry(i)
Answers503 == \E i \in DOMAIN fetches : WarmingUp(i)
FetchEnds == \E i \in DOMAIN fetches, ok \in BOOLEAN : Settled(i, ok)
ApiNext ==
    \/ \E p \in ApiPaths, keep \in BOOLEAN, bust \in BOOLEAN : api(p, keep, bust)
    \/ Answers503 \/ Timeouts \/ FetchEnds
    \/ \E p \in ApiPaths : invalidateApiCache({p}) \/ ServerMoves(p)

Open == {i \in DOMAIN fetches : fetches[i].st # "done"}

ApiTypeOK ==
    /\ cache \in [ApiPaths -> 0..2] /\ inflight \in [ApiPaths -> 0..MaxApiCalls]
    /\ \A i \in DOMAIN fetches : fetches[i].st \in {"asked", "waits", "done"} /\ fetches[i].attempt \in 0..MaxAttempts
    /\ warm \in 0..MaxApiCalls /\ version \in [ApiPaths -> 1..2]

(* api() increments the warm-up counter once per fetch that met a 503 and   *)
(* its finally decrements it once, however the fetch ends, so the           *)
(* "Computing analytics" banner shows exactly while such a fetch is open.   *)
WarmupBalanced == warm = Cardinality({i \in Open : fetches[i].notified})

(* The table of requests under way names the one open fetch of a path: two  *)
(* callers never fetch the same path at the same time.                      *)
OneFetchPerPath ==
    \A p \in ApiPaths : {i \in Open : fetches[i].path = p} = IF inflight[p] = 0 THEN {} ELSE {inflight[p]}

(* Retries are counted, so a fetch that only ever meets a warming server    *)
(* still ends: no caller waits for ever.                                    *)
FetchesEnd == []<>(Open = {})

------------------------------------------------------------------------------
(* fetchAllNodes: pages until a short one, then one row per key.  The server *)
(* lists its nodes by last_seen, newest first, and a node that is heard      *)
(* between two pages moves to the front.                                     *)

VARIABLES order,        \* the server's list
          rows,         \* accumulated
          offset, paging, result,
          moved         \* history: nodes heard since the first page was asked for

allNodesVars == <<order, rows, offset, paging, result, moved>>

AllNodesInit ==
    /\ order \in UNION {SetToSeqs(S) : S \in SUBSET Listed}
    /\ rows = << >> /\ offset = 0 /\ paging = TRUE /\ result = << >> /\ moved = {}

\* Every key once, where it first came, cut at the cap.
Deduped(s) == Picked(s, {i \in DOMAIN s : \A j \in 1..(i - 1) : s[j] # s[i]})
Capped(s) == SubSeq(s, 1, Min({SafetyCap, Len(s)}))
fetchPageExact ==
    /\ paging
    /\ LET page == SubSeq(order, offset + 1, Min({offset + PageSize, Len(order)}))
           more == offset + PageSize < SafetyCap /\ offset + PageSize < Len(order) - 1
       IN /\ rows' = rows \o page /\ paging' = more /\ offset' = offset + PageSize
          /\ result' = IF more THEN << >> ELSE Capped(Deduped(rows \o page))
    /\ UNCHANGED <<order, moved>>

\* One turn of the loop, and after the last one what the caller gets.
fetchAllNodes ==
    /\ paging
    /\ LET page == SubSeq(order, offset + 1, Min({offset + PageSize, Len(order)}))
           more == offset + PageSize < SafetyCap /\ Len(page) = PageSize
       IN /\ rows' = rows \o page /\ paging' = more /\ offset' = offset + PageSize
          /\ result' = IF more THEN << >> ELSE Capped(Deduped(rows \o page))
    /\ UNCHANGED <<order, moved>>

\* The ingestor hears a node: it moves to the front.
NodeHeard(n) ==
    /\ paging /\ offset > 0 /\ Cardinality(moved) < MaxMoves
    /\ \E p \in DOMAIN order :
         order[p] = n /\ order' = [i \in DOMAIN order |-> IF i = 1 THEN n ELSE IF i <= p THEN order[i - 1] ELSE order[i]]
    /\ moved' = moved \union {n} /\ UNCHANGED <<rows, offset, paging, result>>

AllNodesNext == fetchAllNodes \/ \E n \in Listed : NodeHeard(n)

(* fetchAllNodes returns every node once and never more than the cap.  When *)
(* a short page ended it and the cap cut nothing off, no node that kept its *)
(* place in the order is missing, whatever was heard while it was paging    *)
(* ("Fetch the COMPLETE /api/nodes set").  Paging that stops at the cap may *)
(* miss some although fewer than the cap came back: repeated rows use it up.*)
StillNodesKept ==
    ~paging => /\ Len(result) <= SafetyCap /\ IsInjective(result) /\ ToSet(result) \subseteq ToSet(order)
               /\ Len(rows) < offset /\ Len(Deduped(rows)) <= SafetyCap => ToSet(order) \ moved \subseteq ToSet(result)

------------------------------------------------------------------------------
(***************************************************************************)
(* The shared WebSocket of the browser shell (public/app.js): connectWS    *)
(* and its handlers, the reconnect timers, the pull-down gesture that      *)
(* forces a reconnect, the logo that shows the connection, and the batches *)
(* that debouncedOnWS hands to a page.                                     *)
(***************************************************************************)

CONSTANTS MaxSocks,     \* bound on sockets made
          MaxPulls,     \* bound on pull gestures
          MaxPulses,    \* bound on logo pulses
          MaxMsgs,      \* bound on messages
          MaxFlips      \* bound on tab and listener switches

ASSUME AppSocketAssumption == {MaxSocks, MaxPulls, MaxPulses, MaxMsgs, MaxFlips} \subseteq Nat

VARIABLES socks,        \* every WebSocket made: its readyState, or "failing" before its close event
          ws,           \* the global: the newest socket
          reconnects,   \* setTimeout(connectWS) under way
          connected,    \* Logo: the state it shows
          forced,       \* history: pulls that called connectWS themselves
          npulls

sockVars == <<socks, ws, reconnects, connected, forced, npulls>>

SockInit == socks = <<"connecting">> /\ ws = 1 /\ reconnects = 0 /\ connected = TRUE /\ forced = 0 /\ npulls = 0

Live == {i \in DOMAIN socks : socks[i] # "closed"}

\* close(): an open socket says goodbye, one that is connecting fails.
Closed(ss, i) ==
    CASE ss[i] = "open" -> [ss EXCEPT ![i] = "closing"]
      [] ss[i] = "connecting" -> [ss EXCEPT ![i] = "failing"]
      [] OTHER -> ss

connectWSKeepsGlobal(ss) == socks' = Append(ss, "connecting") /\ UNCHANGED ws
connectWS(ss) == socks' = Append(ss, "connecting") /\ ws' = Len(ss) + 1

onopen(i) ==
    /\ socks[i] = "connecting" /\ socks' = [socks EXCEPT ![i] = "open"] /\ connected' = TRUE
    /\ UNCHANGED <<ws, reconnects, forced, npulls>>

\* A connection that fails fires error before close, and the handler closes
\* the global socket, by then perhaps another one.
onerror(i) ==
    /\ socks[i] \in {"connecting", "failing"}
    /\ socks' = Closed([socks EXCEPT ![i] = "closing"], ws)
    /\ UNCHANGED <<ws, reconnects, connected, forced, npulls>>

oncloseSilent(i) ==
    /\ socks[i] \in {"open", "closing"} /\ socks' = [socks EXCEPT ![i] = "closed"]
    /\ connected' = FALSE /\ reconnects' = IF i = ws THEN reconnects + 1 ELSE reconnects
    /\ UNCHANGED <<ws, forced, npulls>>
oncloseKeepsLogo(i) ==
    /\ socks[i] \in {"open", "closing"} /\ socks' = [socks EXCEPT ![i] = "closed"]
    /\ reconnects' = reconnects + 1
    /\ UNCHANGED <<ws, forced, npulls, connected>>

\* The server or the handshake of close() ends it: every socket's close
\* handler arms a reconnect of its own.
onclose(i) ==
    /\ socks[i] \in {"open", "closing"} /\ socks' = [socks EXCEPT ![i] = "closed"]
    /\ connected' = FALSE /\ reconnects' = reconnects + 1
    /\ UNCHANGED <<ws, forced, npulls>>

Reconnect ==
    /\ reconnects > 0 /\ Len(socks) < MaxSocks
    /\ reconnects' = reconnects - 1 /\ connectWS(socks) /\ UNCHANGED <<connected, forced, npulls>>

pullAlwaysConnects ==
    /\ npulls < MaxPulls /\ npulls' = npulls + 1 /\ Len(socks) < MaxSocks
    /\ connectWS(Closed(socks, ws)) /\ forced' = IF socks[ws] = "open" THEN forced ELSE forced + 1
    /\ UNCHANGED <<reconnects, connected>>

\* pullReconnect: an open socket is closed and its handler reconnects, any
\* other is closed and a new one made at once.
pullReconnect ==
    /\ npulls < MaxPulls /\ npulls' = npulls + 1 /\ UNCHANGED <<reconnects, connected>>
    /\ IF socks[ws] = "open" THEN socks' = Closed(socks, ws) /\ UNCHANGED <<ws, forced>>
       ELSE Len(socks) < MaxSocks /\ connectWS(Closed(socks, ws)) /\ forced' = forced + 1

SockNext ==
    \/ \E i \in DOMAIN socks : onopen(i) \/ onerror(i) \/ onclose(i)
    \/ Reconnect \/ pullReconnect

SockTypeOK ==
    /\ \A i \in DOMAIN socks : socks[i] \in {"connecting", "open", "closing", "failing", "closed"}
    /\ ws = Len(socks) /\ reconnects \in Nat /\ connected \in BOOLEAN

(* Each socket's close handler arms one reconnect and each reconnect makes  *)
(* one socket, so whatever fails there is always a socket or a timer left:  *)
(* the page never goes deaf for good.  Exactly the pulls made while no      *)
(* socket was open add another.                                             *)
ChainsCounted == Cardinality(Live) + reconnects = 1 + forced

(* While nobody forced a second connection, the logo shows a lost           *)
(* connection exactly from the close event to the next open one.            *)
LogoTellsTheTruth ==
    forced = 0 =>
        /\ (\E i \in Live : socks[i] = "open") => connected
        /\ Len(socks) > 1 /\ connected => socks[ws] \in {"open", "closing"}

(* "now that every view shares this one": one socket.  A pull while the     *)
(* first is still connecting leaves two that each reconnect for ever, and   *)
(* every listener is called once for each.                                  *)
OneSocketOpen == Cardinality({i \in Live : socks[i] = "open"}) <= 1

------------------------------------------------------------------------------
(* Logo: a message makes one circle light up, then the other. *)

VARIABLES lit,          \* circles that show a pulse
          pulses,       \* every chained pulse: [src, gen, st]
          flip, generation, logoOn, hidden, nflips

logoVars == <<lit, pulses, flip, generation, logoOn, hidden, nflips>>

LogoInit ==
    /\ lit = {} /\ pulses = << >> /\ flip = 0 /\ generation = 0 /\ logoOn = TRUE /\ hidden = FALSE /\ nflips = 0

\* Dropped in a hidden tab, while disconnected and within the rate limit.
pulse ==
    /\ ~hidden /\ logoOn /\ Len(pulses) < MaxPulses
    /\ pulses' = Append(pulses, [src |-> flip, gen |-> generation, st |-> "src"])
    /\ lit' = lit \union {flip} /\ flip' = 1 - flip
    /\ UNCHANGED <<generation, logoOn, hidden, nflips>>

NeverCancelled(i) == ~logoOn

Cancelled(i) == pulses[i].gen # generation \/ ~logoOn

\* The first half ends; the second starts in the next frame, unless the
\* connection or the tab changed in between.
srcHalfEnds(i) ==
    /\ pulses[i].st = "src" /\ lit' = lit \ {pulses[i].src}
    /\ pulses' = [pulses EXCEPT ![i].st = IF Cancelled(i) THEN "done" ELSE "frame"]
    /\ UNCHANGED <<flip, generation, logoOn, hidden, nflips>>
dstHalf(i) ==
    /\ pulses[i].st = "frame" /\ ~hidden    \* a hidden tab runs no frames
    /\ IF Cancelled(i) THEN pulses' = [pulses EXCEPT ![i].st = "done"] /\ UNCHANGED lit
       ELSE pulses' = [pulses EXCEPT ![i].st = "dst"] /\ lit' = lit \union {1 - pulses[i].src}
    /\ UNCHANGED <<flip, generation, logoOn, hidden, nflips>>
dstHalfEnds(i) ==
    /\ pulses[i].st = "dst" /\ lit' = lit \ {1 - pulses[i].src} /\ pulses' = [pulses EXCEPT ![i].st = "done"]
    /\ UNCHANGED <<flip, generation, logoOn, hidden, nflips>>

setConnectedKeepsLit(on) ==
    /\ nflips < MaxFlips /\ nflips' = nflips + 1 /\ on # logoOn
    /\ logoOn' = on /\ UNCHANGED <<pulses, flip, hidden, generation, lit>>

\* setConnected: every change cancels what is under way, a loss darkens it.
setConnected(on) ==
    /\ nflips < MaxFlips /\ nflips' = nflips + 1 /\ on # logoOn
    /\ logoOn' = on /\ generation' = generation + 1 /\ lit' = IF on THEN lit ELSE {}
    /\ UNCHANGED <<pulses, flip, hidden>>
visibilitychange ==
    /\ nflips < MaxFlips /\ nflips' = nflips + 1 /\ hidden' = ~hidden
    /\ IF hidden THEN UNCHANGED <<generation, lit>> ELSE generation' = generation + 1 /\ lit' = {}
    /\ UNCHANGED <<pulses, flip, logoOn>>

LogoNext ==
    \/ pulse \/ (\E on \in BOOLEAN : setConnected(on)) \/ visibilitychange
    \/ \E i \in DOMAIN pulses : srcHalfEnds(i) \/ dstHalf(i) \/ dstHalfEnds(i)

(* No circle lights up on a logo that shows a lost connection, nor in a     *)
(* hidden tab, however timers, frames and events interleave.                *)
NoZombiePulse == lit # {} => logoOn /\ ~hidden

(* A pulse that was cancelled never reaches its second circle: the second   *)
(* half shows only in the generation its first half began in.               *)
DstInItsGeneration ==
    [][\A i \in DOMAIN pulses : pulses'[i].st = "dst" /\ pulses[i].st # "dst" => pulses[i].gen = generation]_logoVars

------------------------------------------------------------------------------
(* wsListeners and debouncedOnWS. *)

VARIABLES wsListening,  \* the page's handler is in wsListeners
          sent,         \* messages so far
          heard,        \* history: messages that came while the handler was listed
          pending, batchTimer,
          batches       \* messages handed to the page, in order

wsVars == <<wsListening, sent, heard, pending, batchTimer, batches>>

WsInit == wsListening = FALSE /\ sent = 0 /\ heard = << >> /\ pending = << >> /\ batchTimer = FALSE /\ batches = << >>

onWS == ~wsListening /\ wsListening' = TRUE /\ UNCHANGED <<sent, heard, pending, batchTimer, batches>>
\* offWS takes the handler out; its timer and what it gathered stay.
offWS == wsListening /\ wsListening' = FALSE /\ UNCHANGED <<sent, heard, pending, batchTimer, batches>>

onmessage ==
    /\ sent < MaxMsgs /\ sent' = sent + 1
    /\ heard' = IF wsListening THEN Append(heard, sent') ELSE heard
    /\ pending' = IF wsListening THEN Append(pending, sent') ELSE pending
    /\ batchTimer' = (batchTimer \/ wsListening)
    /\ UNCHANGED <<wsListening, batches>>

FlushKeepsPending ==
    /\ batchTimer /\ batchTimer' = FALSE /\ batches' = batches \o pending
    /\ UNCHANGED <<wsListening, sent, heard, pending>>
debouncedFlush ==
    /\ batchTimer /\ batchTimer' = FALSE /\ batches' = batches \o pending /\ pending' = << >>
    /\ UNCHANGED <<wsListening, sent, heard>>

WsNext == onWS \/ offWS \/ onmessage \/ debouncedFlush

(* What a page's batched handler was given and what waits for it is exactly *)
(* what arrived while it was registered: each message once, in order, none  *)
(* left waiting without a timer.                                            *)
EveryMessageOnce == batches \o pending = heard /\ (pending # << >> => batchTimer)

-----------------------------------------------------------------------------
(* The banner of the server's warm-up (public/warmup-banner.js): polls     *)
(* until the server is ready and its index filled; the load status in the  *)
(* header of any answer starts it again.                                   *)
CONSTANT MaxWarm        \* restarts of the server and failed polls

VARIABLES wbServer,            \* phase of the server: 1 loading, 2 filling its index, 3 ready
          wbSilent,            \* a source has been silent for too long
          wbHealth, wbStatus,  \* phase and silence of the last body (0: none); last load status
          wbTimer, wbPoll,     \* polling; the poll: "none", "sent", or the answer being read
          wbLate,              \* load statuses in headers of other answers under way
          wbShown, nWarm

wbVars == <<wbServer, wbSilent, wbHealth, wbStatus, wbTimer, wbPoll, wbLate, wbShown, nWarm>>
NoHealth == [phase |-> 0, silent |-> FALSE]
NoPoll == [at |-> "none", body |-> NoHealth]
LoadStatus(phase) == IF phase = 1 THEN "loading" ELSE "ready"
getWarmupMessages(health, status) ==
    (IF status = "loading" \/ health.phase = 1 THEN {"loading"} ELSE {})
    \union (IF health.phase \in {1, 2} THEN {"backfill"} ELSE {})
    \union (IF health.silent THEN {"silent"} ELSE {})
isSteadyState(health) == health.phase = 3

\* startPolling polls at once; a poll under way is not doubled.
startPolling == wbTimer' = TRUE /\ wbPoll' = IF ~wbTimer /\ wbPoll.at = "none" THEN [NoPoll EXCEPT !.at = "sent"] ELSE wbPoll
renderBanner(health, status) == wbShown' = getWarmupMessages(health, status)
setLoadStatus(v) ==
    wbStatus' = v /\ IF v = wbStatus THEN UNCHANGED wbShown ELSE renderBanner(wbHealth, v)
noteOnlyStatus(v) == setLoadStatus(v) /\ UNCHANGED <<wbTimer, wbPoll>>
noteLoadStatus(v) ==
    /\ setLoadStatus(v)
    /\ IF v # wbStatus /\ v = "loading" THEN startPolling ELSE UNCHANGED <<wbTimer, wbPoll>>

WarmInit ==
    /\ wbServer \in 1..3 /\ wbSilent = FALSE /\ wbHealth = NoHealth /\ wbStatus = ""
    /\ wbTimer = TRUE /\ wbPoll = [NoPoll EXCEPT !.at = "sent"] /\ wbLate = {} /\ wbShown = {} /\ nWarm = 0
pollOnce ==
    /\ wbTimer /\ wbPoll.at = "none" /\ wbPoll' = [NoPoll EXCEPT !.at = "sent"]
    /\ UNCHANGED <<wbServer, wbSilent, wbHealth, wbStatus, wbTimer, wbLate, wbShown, nWarm>>
\* The header of the answer is noted first, its body is read later.
pollHeader ==
    /\ wbPoll.at = "sent" /\ wbPoll' = [at |-> "body", body |-> [phase |-> wbServer, silent |-> wbSilent]]
    /\ setLoadStatus(LoadStatus(wbServer)) /\ wbTimer' = (wbTimer \/ (wbStatus' = "loading" /\ wbStatus' # wbStatus))
    /\ UNCHANGED <<wbServer, wbSilent, wbHealth, wbLate, nWarm>>
pollBody ==
    /\ wbPoll.at = "body" /\ wbPoll' = NoPoll /\ wbHealth' = wbPoll.body
    /\ renderBanner(wbHealth', wbStatus)
    /\ wbTimer' = (wbTimer /\ ~(isSteadyState(wbHealth') /\ wbStatus # "loading"))
    /\ UNCHANGED <<wbServer, wbSilent, wbStatus, wbLate, nWarm>>
pollFails ==
    /\ wbPoll.at # "none" /\ nWarm < MaxWarm /\ nWarm' = nWarm + 1 /\ wbPoll' = NoPoll
    /\ UNCHANGED <<wbServer, wbSilent, wbHealth, wbStatus, wbTimer, wbLate, wbShown>>
\* Any other request: its header is written now and read later.
otherRequest ==
    /\ wbLate' = wbLate \union {LoadStatus(wbServer)} /\ wbLate' # wbLate
    /\ UNCHANGED <<wbServer, wbSilent, wbHealth, wbStatus, wbTimer, wbPoll, wbShown, nWarm>>
installFetchInterceptor(v) ==
    /\ v \in wbLate /\ wbLate' = wbLate \ {v} /\ noteLoadStatus(v)
    /\ UNCHANGED <<wbServer, wbSilent, wbHealth, nWarm>>
serverAdvances ==
    /\ wbServer < 3 /\ wbServer' = wbServer + 1
    /\ UNCHANGED <<wbSilent, wbHealth, wbStatus, wbTimer, wbPoll, wbLate, wbShown, nWarm>>
serverRestarts ==
    /\ wbServer > 1 /\ nWarm < MaxWarm /\ nWarm' = nWarm + 1 /\ wbServer' = 1
    /\ UNCHANGED <<wbSilent, wbHealth, wbStatus, wbTimer, wbPoll, wbLate, wbShown>>
sourceSilent ==
    /\ wbSilent' = ~wbSilent /\ nWarm < MaxWarm /\ nWarm' = nWarm + 1
    /\ UNCHANGED <<wbServer, wbHealth, wbStatus, wbTimer, wbPoll, wbLate, wbShown>>
WarmNext ==
    \/ pollOnce \/ pollHeader \/ pollBody \/ pollFails \/ otherRequest \/ serverAdvances \/ serverRestarts \/ sourceSilent
    \/ \E v \in {"loading", "ready"} : installFetchInterceptor(v)

\* While the banner says that the server warms up the browser keeps asking,
\* so the message cannot outlive the warm-up.
WarmupPolled == wbShown \intersect {"loading", "backfill"} # {} => wbTimer

\* Once the server is ready for good, the message goes, whatever late
\* header says otherwise.
WarmupEnds == <>[](wbServer = 3) => <>[](wbShown \subseteq {"silent"})

(* Requests, reconnects, pulses and messages are each accounted for once. *)
NetAccounted ==
    /\ ApiTypeOK
    /\ SockTypeOK
    /\ ChainsCounted
    /\ LogoTellsTheTruth
    /\ NoZombiePulse
    /\ EveryMessageOnce
    /\ WarmupPolled
    /\ WarmupBalanced
    /\ OneFetchPerPath
    /\ StillNodesKept
==============================================================================
