------------------------------- MODULE ChanView -------------------------------
(***************************************************************************)
(* The message view of the channels page (public/channels.js): messages    *)
(* come from the server's answers, from the cache of decrypted messages    *)
(* and from the socket, for a public channel and for one the user added a  *)
(* key for.  The server keeps everything it heard, in order (chLog).       *)
(***************************************************************************)
EXTENDS Integers, Sequences, FiniteSets, SequencesExt

CONSTANTS AnswerLimit,   \* messages of an answer at most
          MaxChMsgs,     \* bound on the messages heard
          MaxChActs      \* bound on what the user and the clock do

ASSUME ChanViewAssumption == AnswerLimit \in Nat /\ MaxChMsgs \in Nat /\ MaxChActs \in Nat

VARIABLES chLog,         \* server: sequence of [c, r], a message is its index
          obsOf,         \* server: message -> observations recorded
          selectedHash, region, messages, messageRequestId,
          chAsks,        \* requests and decryptions under way
          privRow,       \* the row of the user's channel is in the sidebar
          unread,        \* its badge
          chBatch,       \* batches whose decryption is under way: [m, prior, r]
          chCache,       \* decrypted messages kept in local storage
          aged,          \* messages pushed more than five minutes ago
          got,           \* history: pushed to the open channel since it was opened
          wiped,         \* history: those of them an empty region or another channel's cache removed
          keptOld,       \* history: a refresh failed, or took its answer for what is shown
          nAct
chanVars == <<chLog, obsOf, selectedHash, region, messages, messageRequestId, chAsks, privRow, unread, chBatch,
              chCache, aged, got, wiped, keptOld, nAct>>

NoChan == "none"
MsgIds == 1..MaxChMsgs
ChanOf(m) == chLog[m].c
shouldProcessWSMessageForRegion(msg, r) == r = "all" \/ msg.r = r
Passes(m, r) == shouldProcessWSMessageForRegion(chLog[m], r)
Entry(m, n, via) == [m |-> m, obs |-> n, ws |-> via = "ws", via |-> via]

ChanInit ==
    /\ chLog = <<>> /\ obsOf = [m \in MsgIds |-> 0] /\ selectedHash = NoChan /\ region = "all" /\ messages = <<>>
    /\ messageRequestId = 0 /\ chAsks = {} /\ privRow = TRUE /\ unread = 0 /\ chBatch = {} /\ chCache = <<>>
    /\ aged = {} /\ got = {} /\ wiped = {} /\ keptOld = FALSE /\ nAct = 0

ChAct == nAct < MaxChActs /\ nAct' = nAct + 1

\* The numbers of a set in ascending order, and its last few.
InOrder(I) == [k \in 1..Cardinality(I) |-> CHOOSE i \in I : Cardinality({j \in I : j <= i}) = k]
LastFew(I) == {i \in I : Cardinality({j \in I : j >= i}) <= AnswerLimit}

\* What the server answers for a channel in a region, from the first n messages.
OfServer(c, r, n, via) ==
    LET ms == InOrder(LastFew({i \in 1..n : ChanOf(i) = c /\ Passes(i, r)}))
    IN  [k \in DOMAIN ms |-> Entry(ms[k], obsOf[ms[k]], via)]

\* The answer first, then those of the view to keep that it does not have.
KeptAfter(cur, rest, Keep) ==
    LET more == InOrder({i \in Keep : \A k \in DOMAIN rest : rest[k].m # cur[i].m})
    IN  rest \o [k \in DOMAIN more |-> cur[more[k]]]
mergeStomps(cur, rest) == rest
mergeKeepsAll(cur, rest) == KeptAfter(cur, rest, DOMAIN cur)
mergeWsAppendedIntoRest(cur, rest) == KeptAfter(cur, rest, {i \in DOMAIN cur : cur[i].ws /\ cur[i].m \notin aged})

isStaleById(a) == a.id # messageRequestId
isStaleMessageRequest(a) == a.id # messageRequestId \/ a.c # selectedHash \/ a.r # region

NewAsk(kind, c) == [kind |-> kind, id |-> messageRequestId + 1, c |-> c, r |-> region, n |-> Len(chLog)]

\* A row of the sidebar.  The messages of the channel that was open go first.
\* A channel with a key starts with an await for its hash byte.
selectChannel(c) ==
    /\ ChAct /\ c \in {"pub", "priv"} /\ (c = "priv" => privRow)
    /\ chAsks' = chAsks \union {NewAsk(IF c = "pub" THEN "select" ELSE "hash", c)} /\ messageRequestId' = messageRequestId + 1
    /\ selectedHash' = c /\ messages' = <<>> /\ got' = {} /\ wiped' = {} /\ keptOld' = FALSE
    /\ unread' = (IF c = "priv" THEN 0 ELSE unread)
    /\ UNCHANGED <<chLog, obsOf, region, privRow, chBatch, chCache, aged>>

\* The hash byte is known: what is cached is shown, whatever was opened
\* meanwhile, and the packets are asked for.
onCacheHit(a) ==
    /\ a \in chAsks /\ a.kind = "hash" /\ chAsks' = (chAsks \ {a}) \union {[a EXCEPT !.kind = "decrypt", !.n = Len(chLog)]}
    /\ IF chCache = <<>> THEN UNCHANGED <<messages, wiped>>
       ELSE /\ messages' = mergeWsAppendedIntoRest(messages, chCache)
            /\ wiped' = (IF isStaleMessageRequest(a) THEN wiped \union got ELSE wiped)
    /\ UNCHANGED <<chLog, obsOf, selectedHash, region, messageRequestId, privRow, unread, chBatch, chCache, aged, got, nAct, keptOld>>

\* The answer, or the decrypted messages, computed by the server between the
\* request and now; without candidates what is cached is the result.  The
\* cache is written even when the answer is stale.
messagesArrive(a) ==
    /\ a \in chAsks /\ a.kind \in {"select", "decrypt"} /\ chAsks' = chAsks \ {a}
    /\ \E n \in a.n..Len(chLog) :
        LET fresh == OfServer(a.c, a.r, n, "rest")
            kept == a.kind = "decrypt" /\ fresh = <<>>
        IN  /\ chCache' = (IF a.kind = "decrypt" /\ ~kept THEN OfServer(a.c, a.r, n, "cache") ELSE chCache)
            /\ messages' = (IF isStaleMessageRequest(a) THEN messages
                             ELSE mergeWsAppendedIntoRest(messages, IF kept THEN chCache ELSE fresh))
    /\ keptOld' = (keptOld /\ isStaleMessageRequest(a))
    /\ UNCHANGED <<wiped, chLog, obsOf, selectedHash, region, messageRequestId, privRow, unread, chBatch, aged, got, nAct>>

\* The region filter: the list is loaded again, without the user's rows.
regionChange(r) ==
    /\ ChAct /\ r \in {"all", "R"} \ {region} /\ region' = r /\ got' = {m \in got : Passes(m, r)}
    /\ chAsks' = chAsks \union {[kind |-> "list", id |-> nAct, c |-> NoChan, r |-> r, n |-> Len(chLog)]}
    /\ UNCHANGED <<wiped, chLog, obsOf, selectedHash, messages, messageRequestId, privRow, unread, chBatch, chCache, aged, keptOld>>

\* reconcileSelectionAfterChannelRefresh drops a selection that is not in
\* the list; refreshMessages follows for one that is.
ListHas(c, r, n) == c = "pub" /\ (r = "all" \/ \E i \in 1..n : chLog[i] = [c |-> c, r |-> r])
loadChannels(a) ==
    /\ a \in chAsks /\ a.kind = "list"
    /\ \E n \in a.n..Len(chLog) :
        LET keep == ListHas(selectedHash, a.r, n)
            asks == chAsks \ {a}
        IN  /\ selectedHash' = (IF keep THEN selectedHash ELSE NoChan)
            /\ messages' = (IF keep THEN messages ELSE <<>>)
            /\ got' = (IF keep THEN got ELSE {}) /\ wiped' = (IF keep THEN wiped ELSE {}) /\ keptOld' = (keptOld /\ keep)
            /\ chAsks' = (IF keep THEN asks \union {NewAsk("refresh", selectedHash)} ELSE asks)
            /\ messageRequestId' = (IF keep THEN messageRequestId + 1 ELSE messageRequestId)
    /\ privRow' = FALSE /\ unread' = 0
    /\ UNCHANGED <<chLog, obsOf, region, chBatch, chCache, aged, nAct>>

Known(m) == {i \in DOMAIN messages : messages[i].m = m}
LastOf(ms) == IF ms = <<>> THEN 0 ELSE Last(ms).m
Differs(cur, new) == \E i \in DOMAIN cur : \A k \in DOMAIN new : new[k].m # cur[i].m
SameCount(new) == Len(new) = Len(messages) /\ LastOf(new) = LastOf(messages)
refreshMessages(a) ==
    /\ a \in chAsks /\ a.kind = "refresh" /\ chAsks' = chAsks \ {a}
    /\ \E n \in a.n..Len(chLog) :
        LET new == OfServer(a.c, a.r, n, "rest") IN
        IF isStaleMessageRequest(a) THEN UNCHANGED <<messages, wiped, keptOld>>
        ELSE IF a.r # "all" /\ new = <<>> THEN messages' = <<>> /\ wiped' = wiped \union got /\ keptOld' = FALSE
        ELSE IF SameCount(new) THEN keptOld' = Differs(messages, new) /\ UNCHANGED <<messages, wiped>>
        ELSE messages' = mergeWsAppendedIntoRest(messages, new) /\ keptOld' = FALSE /\ UNCHANGED wiped
    /\ UNCHANGED <<chLog, obsOf, selectedHash, region, messageRequestId, privRow, unread, chBatch, chCache, aged, got, nAct>>

\* A request or a load of the list fails: what is shown stays.  The refresh
\* follows the load all the same.
chAskFails(a) ==
    /\ a \in chAsks /\ a.kind # "hash" /\ keptOld' = (keptOld \/ (a.kind = "refresh" /\ ~isStaleMessageRequest(a)))
    /\ IF a.kind = "list" /\ selectedHash = "pub"
       THEN chAsks' = (chAsks \ {a}) \union {NewAsk("refresh", selectedHash)} /\ messageRequestId' = messageRequestId + 1
       ELSE chAsks' = chAsks \ {a} /\ UNCHANGED messageRequestId
    /\ UNCHANGED <<wiped, chLog, obsOf, selectedHash, region, messages, privRow, unread, chBatch, chCache, aged, got, nAct>>

\* A pushed message reaches the open channel: a known one counts one more
\* observation and is marked, a new one is appended.
pushOver(m) == Append(messages, Entry(m, 1, "ws"))
pushed(m) ==
    IF Known(m) = {} THEN Append(messages, Entry(m, 1, "ws"))
    ELSE [i \in DOMAIN messages |-> IF i \in Known(m) THEN [messages[i] EXCEPT !.obs = @ + 1, !.ws = TRUE] ELSE messages[i]]
processWSBatch(m, msg, r) ==
    IF selectedHash = msg.c /\ shouldProcessWSMessageForRegion(msg, r)
    THEN /\ messages' = pushed(m) /\ aged' = aged \ {m}
         /\ got' = (IF shouldProcessWSMessageForRegion(msg, region) THEN got \union {m} ELSE got)
    ELSE UNCHANGED <<messages, got, aged>>

\* The server hears a message, or one it has from another observer, and the
\* socket delivers it: a public one at once, an encrypted one to its decryption.
Delivered(m) ==
    IF chLog'[m].c = "pub" THEN processWSBatch(m, chLog'[m], region) /\ UNCHANGED chBatch
    ELSE /\ chBatch' = chBatch \union {[m |-> m, prior |-> selectedHash, r |-> region]}
         /\ UNCHANGED <<messages, got, aged>>
wsMessage(c, r) ==
    /\ Len(chLog) < MaxChMsgs /\ c \in {"pub", "priv"} /\ r \in {"R", "S"}
    /\ chLog' = Append(chLog, [c |-> c, r |-> r]) /\ obsOf' = [obsOf EXCEPT ![Len(chLog) + 1] = 1]
    /\ Delivered(Len(chLog) + 1)
    /\ UNCHANGED <<wiped, selectedHash, region, messageRequestId, chAsks, privRow, unread, chCache, nAct, keptOld>>
wsObservation(m) ==
    /\ ChAct /\ m \in 1..Len(chLog) /\ obsOf' = [obsOf EXCEPT ![m] = @ + 1] /\ UNCHANGED chLog /\ Delivered(m)
    /\ UNCHANGED <<wiped, selectedHash, region, messageRequestId, chAsks, privRow, unread, chCache, keptOld>>

\* The selection and the regions of the batch were read before the await.
chWsHandler(b) ==
    /\ b \in chBatch /\ chBatch' = chBatch \ {b}
    /\ unread' = (IF b.prior # "priv" /\ privRow THEN unread + 1 ELSE unread)
    /\ IF privRow THEN processWSBatch(b.m, chLog[b.m], b.r) ELSE UNCHANGED <<messages, got, aged>>
    /\ UNCHANGED <<wiped, chLog, obsOf, selectedHash, region, messageRequestId, chAsks, privRow, chCache, nAct, keptOld>>

FiveMinutes(m) ==
    /\ ChAct /\ m \in got /\ aged' = aged \union {m} /\ got' = got \ {m}
    /\ UNCHANGED <<wiped, chLog, obsOf, selectedHash, region, messages, messageRequestId, chAsks, privRow, unread, chBatch, chCache, keptOld>>

chBack ==
    /\ ChAct /\ selectedHash # NoChan /\ selectedHash' = NoChan /\ messages' = <<>> /\ got' = {} /\ wiped' = {} /\ keptOld' = FALSE
    /\ UNCHANGED <<chLog, obsOf, region, messageRequestId, chAsks, privRow, unread, chBatch, chCache, aged>>

ChanNext ==
    \/ \E c \in {"pub", "priv"} : selectChannel(c) \/ \E r \in {"R", "S"} : wsMessage(c, r)
    \/ \E a \in chAsks : onCacheHit(a) \/ messagesArrive(a) \/ loadChannels(a) \/ refreshMessages(a) \/ chAskFails(a)
    \/ \E r \in {"all", "R"} : regionChange(r)
    \/ \E m \in MsgIds : wsObservation(m) \/ FiveMinutes(m)
    \/ \E b \in chBatch : chWsHandler(b)
    \/ chBack

\* A message pushed to the channel that is open stays in its view for five
\* minutes, whatever older answers of the server arrive later (#1498); the
\* empty answer of a region just chosen, the late cache of another channel,
\* and as many newer messages as an answer holds are the exceptions.
Behind(m) == Cardinality({i \in m+1..Len(chLog) : ChanOf(i) = ChanOf(m)}) >= AnswerLimit
NoLiveLost == \A m \in got \ wiped : Known(m) # {} \/ Behind(m)

\* The same without the exceptions: a refresh that races a live message
\* does not wipe it.
RefreshKeepsLive == \A m \in got : Known(m) # {}

\* A message is shown once, however many observers heard it and whether it
\* came by the socket, by an answer or from the cache.
NoDup == \A i, j \in DOMAIN messages : messages[i].m = messages[j].m => i = j

\* What the socket and the server brought belongs to the channel that is
\* open, and nothing of it is kept when none is.  (The cache may still show
\* another channel's messages: onCacheHit does not ask what is open.)
MessagesOfSelected == \A i \in DOMAIN messages : messages[i].via # "cache" => ChanOf(messages[i].m) = selectedHash

\* Once the answers to a change of region are in, no answer of another
\* region is left in the view; pushed messages may be.  The exceptions: the
\* refresh failed, or its answer has as many messages as the view and the
\* same last one, and was taken for the same messages.
RegionSettled ==
    (chAsks = {} /\ selectedHash = "pub" /\ ~keptOld) =>
        \A i \in DOMAIN messages : messages[i].via = "rest" /\ ~messages[i].ws => Passes(messages[i].m, region)

\* The same whatever the refresh took its answer for.
RegionAlwaysSettled ==
    (chAsks = {} /\ selectedHash = "pub") =>
        \A i \in DOMAIN messages : messages[i].via = "rest" /\ ~messages[i].ws => Passes(messages[i].m, region)

\* The badge counts messages of channels that are not being viewed.
NoUnreadOnViewed == selectedHash = "priv" => unread = 0

\* An observation that the socket brought to a message stays counted when
\* the next answer of the server arrives.
ObservationsKept ==
    [][selectedHash' = selectedHash => \A i \in DOMAIN messages, j \in DOMAIN messages' :
          messages[i].m = messages'[j].m => messages'[j].obs >= messages[i].obs]_chanVars

-------------------------------------------------------------------------------
(***************************************************************************)
(* The sidebar of the channels page and the keys behind it (public/        *)
(* channels.js, public/channel-decrypt.js): keys in local storage, rows    *)
(* loaded from the server and merged with the keys, the key map that live  *)
(* packets are decrypted with, the cache of decrypted messages, and the    *)
(* catalogue of known channels.                                            *)
(***************************************************************************)

CONSTANTS KeyNames,      \* channels the user may add a key for
          ServerNames,   \* those the server lists by name
          MaxKeyActs

ASSUME ChanKeysAssumption == ServerNames \subseteq KeyNames /\ MaxKeyActs \in Nat

VARIABLES storedKeys,    \* name -> key, 0 for none
          chRows,        \* rows of the sidebar: <<"srv", name>>, <<"user", name>>
          mine,          \* rows marked as the user's (they have a remove button)
          sidebar,       \* the sections as drawn: [my, network]
          listAsks,      \* loads under way: [id, merge]
          adding,        \* names whose hash byte is awaited
          keyMap,        \* _keyMapCache and _keyMapSig, which is the keys it was built from
          builds,        \* buildKeyMap calls under way
          stamped,       \* decrypted live messages waiting for the rest of their batch
          usedMap,       \* history: keys stored at a call, keys of the map it used
          reloaded,      \* history: the list was replaced since keys were last merged
          twins,         \* history: names that had both rows
          nKey
keyVars == <<storedKeys, chRows, mine, sidebar, listAsks, adding, keyMap, builds, stamped, usedMap, reloaded, twins, nKey>>

NoKeys == [n \in KeyNames |-> 0]
Sections(rs, ms) == [my |-> ms, network |-> rs \ ms]
renderChannelList == sidebar' = Sections(chRows', mine')
NoMap == [map |-> NoKeys, valid |-> FALSE]

KeyInit ==
    /\ storedKeys \in {NoKeys, [n \in KeyNames |-> 1]} /\ chRows = {} /\ mine = {} /\ sidebar = Sections({}, {}) /\ listAsks = {[id |-> 0, merge |-> TRUE]}
    /\ adding = {} /\ keyMap = NoMap /\ builds = {} /\ stamped = {} /\ usedMap = <<NoKeys, NoKeys>>
    /\ reloaded = TRUE /\ twins = {} /\ nKey = 0

KeyAct == nKey < MaxKeyActs /\ nKey' = nKey + 1
Keyed(ks) == {n \in KeyNames : ks[n] # 0}
RowsOf(n) == {<<"srv", n>>, <<"user", n>>}
Twins(rs) == {n \in KeyNames : RowsOf(n) \subseteq rs}

\* Of each name with a key, the first row of its name is marked; a row is
\* added where there is none.  The order of the rows is left open.
mergeUserChannels(ks, rs, ms) ==
    \E pick \in [Keyed(ks) -> {"srv", "user"}] :
        /\ \A n \in Keyed(ks) : IF RowsOf(n) \intersect rs = {} THEN pick[n] = "user" ELSE <<pick[n], n>> \in rs
        /\ chRows' = rs \union {<<pick[n], n>> : n \in Keyed(ks)}
        /\ mine' = ms \union {<<pick[n], n>> : n \in Keyed(ks)}
        /\ reloaded' = FALSE /\ twins' = twins \union Twins(chRows')

\* persistAddedChannel; a full storage leaves everything as it is.
addUserChannel(n, k) ==
    /\ KeyAct /\ k \in 1..2 /\ storedKeys' = [storedKeys EXCEPT ![n] = k] /\ keyMap' = NoMap /\ adding' = adding \union {n}
    /\ UNCHANGED <<chRows, mine, sidebar, listAsks, builds, stamped, usedMap, reloaded, twins>>
hashByteKnown(n) ==
    /\ n \in adding /\ adding' = adding \ {n} /\ mergeUserChannels(storedKeys, chRows, mine) /\ renderChannelList
    /\ UNCHANGED <<storedKeys, listAsks, keyMap, builds, stamped, usedMap, nKey>>
generateKeyUnmerged(n) ==
    /\ KeyAct /\ storedKeys' = [storedKeys EXCEPT ![n] = 2] /\ keyMap' = NoMap
    /\ UNCHANGED <<chRows, mine, sidebar, reloaded, twins, listAsks, adding, builds, stamped, usedMap>>
generateKey(n) ==
    /\ KeyAct /\ storedKeys' = [storedKeys EXCEPT ![n] = 2] /\ keyMap' = NoMap /\ mergeUserChannels(storedKeys', chRows, mine) /\ renderChannelList
    /\ UNCHANGED <<listAsks, adding, builds, stamped, usedMap>>

removeKeyOnly(r) ==
    /\ KeyAct /\ r \in mine /\ storedKeys' = [storedKeys EXCEPT ![r[2]] = 0] /\ keyMap' = NoMap
    /\ UNCHANGED <<chRows, mine, sidebar, listAsks, adding, builds, stamped, usedMap, reloaded, twins>>
removeChannel(r) ==
    /\ KeyAct /\ r \in mine /\ storedKeys' = [storedKeys EXCEPT ![r[2]] = 0] /\ keyMap' = NoMap
    /\ mine' = mine \ {r} /\ chRows' = (IF r[1] = "user" THEN chRows \ {r} ELSE chRows)
    /\ renderChannelList /\ UNCHANGED <<listAsks, adding, builds, stamped, usedMap, reloaded, twins>>

\* A change of region, or of the switch for encrypted channels.
reload ==
    /\ KeyAct /\ listAsks' = listAsks \union {[id |-> nKey', merge |-> FALSE]}
    /\ UNCHANGED <<storedKeys, chRows, mine, sidebar, adding, keyMap, builds, stamped, usedMap, reloaded, twins>>
ServerRows == {<<"srv", n>> : n \in ServerNames}
loadRendersFirst(a) ==
    /\ a \in listAsks /\ listAsks' = listAsks \ {a}
    /\ \E rs \in {ServerRows, {}} :
        /\ IF a.merge THEN mergeUserChannels(storedKeys, rs, {})
           ELSE chRows' = rs /\ mine' = {} /\ reloaded' = TRUE /\ UNCHANGED twins
        /\ sidebar' = Sections(rs, {})
    /\ UNCHANGED <<storedKeys, adding, keyMap, builds, stamped, usedMap, nKey>>
loadChannelsEnds(a) ==
    /\ a \in listAsks /\ listAsks' = listAsks \ {a}
    /\ \E rs \in {ServerRows, {}} :
        IF a.merge THEN mergeUserChannels(storedKeys, rs, {})
        ELSE chRows' = rs /\ mine' = {} /\ reloaded' = TRUE /\ UNCHANGED twins
    /\ renderChannelList
    /\ UNCHANGED <<storedKeys, adding, keyMap, builds, stamped, usedMap, nKey>>
loadChannelsFails(a) ==
    /\ a \in listAsks /\ listAsks' = listAsks \ {a}
    /\ IF a.merge THEN mergeUserChannels(storedKeys, chRows, mine) /\ renderChannelList ELSE UNCHANGED <<chRows, mine, sidebar, reloaded, twins>>
    /\ UNCHANGED <<storedKeys, adding, keyMap, builds, stamped, usedMap, nKey>>

\* decryptLivePSKBatch asks for the key map; it is built anew when the keys
\* are not those of the map, with an await for each of them.
mapUsable == keyMap.valid
mapFits == keyMap.valid /\ keyMap.map = storedKeys
Decrypts(map) ==
    stamped' = stamped \union
        {IF <<"user", n>> \in chRows THEN <<"user", n>> ELSE <<"srv", n>> : n \in {m \in Keyed(map) : map[m] = 1}}
liveBatch ==
    /\ KeyAct
    /\ IF mapFits THEN usedMap' = <<storedKeys, keyMap.map>> /\ Decrypts(keyMap.map) /\ UNCHANGED builds
       ELSE builds' = builds \union {storedKeys} /\ UNCHANGED <<usedMap, stamped>>
    /\ UNCHANGED <<storedKeys, chRows, mine, sidebar, listAsks, adding, keyMap, reloaded, twins>>
buildKeyMap(b) ==
    /\ b \in builds /\ builds' = builds \ {b} /\ keyMap' = [map |-> b, valid |-> TRUE]
    /\ usedMap' = <<b, b>> /\ Decrypts(b)
    /\ UNCHANGED <<storedKeys, chRows, mine, sidebar, listAsks, adding, reloaded, twins, nKey>>

\* processWSBatch: a message for a row that is not there makes the row.
batchEnds(r) ==
    /\ r \in stamped /\ stamped' = stamped \ {r} /\ chRows' = chRows \union {r} /\ twins' = twins \union Twins(chRows')
    /\ mine' = mine /\ renderChannelList
    /\ UNCHANGED <<storedKeys, listAsks, adding, keyMap, builds, usedMap, reloaded, nKey>>

KeyNext ==
    \/ \E n \in KeyNames : hashByteKnown(n) \/ generateKey(n) \/ \E k \in 1..2 : addUserChannel(n, k)
    \/ \E r \in mine : removeChannel(r)
    \/ \E a \in listAsks : loadChannelsEnds(a) \/ loadChannelsFails(a)
    \/ \E b \in builds : buildKeyMap(b)
    \/ \E r \in stamped : batchEnds(r)
    \/ reload \/ liveBatch

\* A live packet is tried with the keys that were stored when its batch came,
\* although maps are built across awaits and finish in any order.
MapOfStoredKeys == usedMap[1] = usedMap[2]

\* Every key has a row the user can open and remove it by, until the list is
\* loaded again without a merge (a change of region does that).
RowForEveryKey == ~reloaded => \A n \in Keyed(storedKeys) \ adding : RowsOf(n) \intersect mine # {}

\* The sidebar shows the rows as they are: no path that changes them, the
\* merge after the first load included (#1111), ends without a drawing.
SidebarCurrent == sidebar = Sections(chRows, mine)

\* A row with a remove button has a key behind it, except of a channel that
\* came to be listed twice.
MineHasKey == \A r \in mine : storedKeys[r[2]] # 0 \/ r[2] \in twins

\* Every row with a remove button has a key behind it.
EveryMineHasKey == \A r \in mine : storedKeys[r[2]] # 0

-------------------------------------------------------------------------------
(* fetchAndDecryptChannel and its cache, for one channel.                   *)
CONSTANTS Packets,       \* packets of the channel's hash byte; the cache is kept for MaxCached
          MaxFetches
ASSUME KeyCacheAssumption == IsFiniteSet(Packets) /\ MaxFetches \in Nat
VARIABLES seenAt,        \* packet -> first_seen, 0 when the server does not have it
          opened,        \* packets the key decrypts
          msgCache,      \* [ms: packets, lastTs, count]
          fetches,       \* calls under way: [cached, id]
          shownMsgs, answered,  \* last result and the candidates it was made from
          lostSome,      \* history: a packet left the server's window
          nFetch
cacheVars == <<seenAt, opened, msgCache, fetches, shownMsgs, answered, lostSome, nFetch>>

NoCache == [ms |-> {}, lastTs |-> 0, count |-> 0]
CacheInit ==
    /\ seenAt = [p \in Packets |-> 0] /\ opened \in {Packets, {}} /\ msgCache = NoCache /\ fetches = {}
    /\ shownMsgs = {} /\ answered = {} /\ lostSome = FALSE /\ nFetch = 0

Newest(ms) == IF ms = {} THEN 0 ELSE CHOOSE t \in {seenAt[p] : p \in ms} : \A p \in ms : seenAt[p] <= t

\* The server gets a packet; first_seen may be older than that of others.
serverHears(p, t) ==
    /\ seenAt[p] = 0 /\ t \in 1..2 /\ seenAt' = [seenAt EXCEPT ![p] = t]
    /\ UNCHANGED <<opened, msgCache, fetches, shownMsgs, answered, lostSome, nFetch>>
serverForgets(p) ==
    /\ seenAt[p] # 0 /\ seenAt' = [seenAt EXCEPT ![p] = 0] /\ lostSome' = TRUE
    /\ UNCHANGED <<opened, msgCache, fetches, shownMsgs, answered, nFetch>>

fetchAndDecryptChannel ==
    /\ nFetch < MaxFetches /\ nFetch' = nFetch + 1 /\ fetches' = fetches \union {[cached |-> msgCache, id |-> nFetch']}
    /\ UNCHANGED <<seenAt, opened, msgCache, shownMsgs, answered, lostSome>>

\* The answer of the server, with the cache as it was at the call: everything
\* is decrypted when the number of candidates changed, else what is newer.
decryptAlwaysDelta(f, cands) == FALSE
needFullDecrypt(f, cands) == Cardinality(cands) # f.cached.count
fetchAnswers(f) ==
    LET cands == {p \in Packets : seenAt[p] # 0}
        delta == ~needFullDecrypt(f, cands) /\ f.cached.ms # {} /\ f.cached.lastTs # 0
        new == {p \in cands : seenAt[p] > f.cached.lastTs} \intersect opened
        ms == IF delta THEN f.cached.ms \union new ELSE IF cands = {} THEN f.cached.ms ELSE cands \intersect opened
    IN  /\ f \in fetches /\ fetches' = fetches \ {f} /\ shownMsgs' = ms /\ answered' = cands
        /\ msgCache' = (IF cands = {} \/ (delta /\ \A p \in cands : seenAt[p] <= f.cached.lastTs) THEN msgCache
                        ELSE [ms |-> ms, lastTs |-> Newest(ms), count |-> Cardinality(cands)])
        /\ UNCHANGED <<seenAt, opened, lostSome, nFetch>>
fetchFails(f) ==
    /\ f \in fetches /\ fetches' = fetches \ {f} /\ shownMsgs' = f.cached.ms /\ answered' = {}
    /\ UNCHANGED <<seenAt, opened, msgCache, lostSome, nFetch>>

CacheNext ==
    \/ \E p \in Packets : serverForgets(p) \/ \E t \in 1..2 : serverHears(p, t)
    \/ \E f \in fetches : fetchAnswers(f) \/ fetchFails(f)
    \/ fetchAndDecryptChannel

\* As long as the server forgets nothing, an answer leads to every message
\* the key opens being shown, late ones with an old time included, whatever
\* was cached and whichever calls overlap.
AllDecrypted == ~lostSome => answered \intersect opened \subseteq shownMsgs

-------------------------------------------------------------------------------
(* loadKnownChannels: the catalogue, asked for when its section is drawn.   *)
VARIABLES knownState,    \* "null", "entries", "error"
          knownLoading, knownOpen, knownTimer, knownAsked, knownDown, backedOff
knownVars == <<knownState, knownLoading, knownOpen, knownTimer, knownAsked, knownDown, backedOff>>

KnownInit ==
    /\ knownState = "null" /\ knownLoading = FALSE /\ knownOpen \in BOOLEAN /\ knownTimer = FALSE /\ knownAsked = 0
    /\ knownDown \in BOOLEAN /\ backedOff = FALSE

\* Drawing the body asks for a load only while nothing was ever loaded.
renderKnownChannelsSection ==
    /\ knownOpen /\ knownTimer' = (knownTimer \/ knownState = "null")
    /\ UNCHANGED <<knownState, knownLoading, knownOpen, knownAsked, knownDown, backedOff>>
knownToggle ==
    /\ knownOpen' = ~knownOpen /\ knownTimer' = (knownTimer \/ (knownOpen' /\ knownState = "null"))
    /\ UNCHANGED <<knownState, knownLoading, knownAsked, knownDown, backedOff>>
loadTwice ==
    /\ knownTimer /\ knownTimer' = FALSE /\ knownLoading' = TRUE
    /\ knownAsked' = IF knownAsked < 2 THEN knownAsked + 1 ELSE 2
    /\ UNCHANGED <<knownState, knownOpen, knownDown, backedOff>>
loadKnownChannels ==
    /\ knownTimer /\ knownTimer' = FALSE
    /\ IF knownLoading \/ knownState = "entries" \/ (knownState = "error" /\ ~backedOff)
       THEN UNCHANGED <<knownState, knownLoading, knownAsked>>
       ELSE knownLoading' = TRUE /\ knownState' = "null" /\ knownAsked' = knownAsked + 1
    /\ UNCHANGED <<knownOpen, knownDown, backedOff>>
knownAnswers ==
    /\ knownLoading /\ knownLoading' = FALSE /\ knownAsked' = knownAsked - 1
    /\ knownState' = (IF knownDown THEN "error" ELSE "entries") /\ backedOff' = FALSE
    /\ UNCHANGED <<knownOpen, knownTimer, knownDown>>
knownComesUp == knownDown /\ knownDown' = FALSE /\ UNCHANGED <<knownState, knownLoading, knownOpen, knownTimer, knownAsked, backedOff>>
OneMinute ==
    /\ knownState = "error" /\ backedOff' = TRUE
    /\ UNCHANGED <<knownState, knownLoading, knownOpen, knownTimer, knownAsked, knownDown>>

KnownNext == renderKnownChannelsSection \/ knownToggle \/ loadKnownChannels \/ knownAnswers \/ knownComesUp \/ OneMinute

\* One request for the catalogue at a time, however often it is drawn.
OneCatalogueLoad == knownAsked <= 1

\* A catalogue that failed to load recovers, once its server is up, without
\* a reload of the page, for a user who keeps looking at it.
KnownRecovers == <>[](~knownDown /\ knownOpen) => <>(knownState = "entries")
===============================================================================
