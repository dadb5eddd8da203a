---------------------------- MODULE PacketStore ----------------------------
(***************************************************************************)
(* The path of a packet from the database to the browser: the ingestor     *)
(* commits transmissions and observations (cmd/ingestor/db.go), the        *)
(* server's poller (cmd/server/websocket.go) reads what is new into the    *)
(* in-memory PacketStore (cmd/server/store.go) and broadcasts it, and the  *)
(* eviction ticker removes the oldest packets again.                       *)
(*                                                                         *)
(* Three processes interleave: the ingestor (one writer, but two commits   *)
(* per packet), the poller (reads without a lock, merges under s.mu) and   *)
(* the evictor (under s.mu).  A merge loop is one step per row; nothing    *)
(* that needs s.mu runs between its steps.                                 *)
(***************************************************************************)
EXTENDS Integers, Sequences, FiniteSets, FiniteSetsExt

CONSTANTS
    Hashes,       \* content hashes (transmissions.hash is UNIQUE)
    Observers,    \* observers known to the database
    Anon,         \* an observation whose observer has no row yet (NULL index)
    Paths,        \* values of path_json
    NoPath,       \* the path without hops
    PathLen,      \* path -> number of hops
    TxLimit,      \* transmissions per poll (100 in the code)
    ObsLimit,     \* observations per poll (500 in the code)
    Retention,    \* retentionHours; 0 is unlimited
    PruneAge,     \* the ingestor's packet retention
    Delays,       \* how long before its arrival a packet was received (uploads
                  \* of buffered packets are accepted with their own time)
    HighWater, LowWater,   \* maxMemoryMB and 85% of it; HighWater 0 is unlimited
    MaxTx, MaxObs, MaxNow, MaxErrors   \* bounds

ASSUME PathsAssumption ==
    /\ NoPath \in Paths
    /\ PathLen \in [Paths -> Nat]
    /\ PathLen[NoPath] = 0
    /\ Anon \notin Observers
ASSUME LimitsAssumption ==
    /\ TxLimit \in Nat \ {0} /\ ObsLimit \in Nat \ {0}
    /\ Retention \in Nat /\ PruneAge \in Nat /\ Delays \subseteq Nat
    /\ HighWater \in Nat /\ LowWater \in Nat
    /\ MaxTx \in Nat /\ MaxObs \in Nat /\ MaxNow \in Nat /\ MaxErrors \in Nat

\* The dedup key of an observation: observer | path_json.
Key == [observer : Observers \cup {Anon}, path : Paths]
Obs == [tx : Nat, key : Key]

\* estimateStoreTxBytes and estimateStoreObsBytes, in units of one record:
\* the estimate of a transmission grows with its path.
TxBytes(p) == 1 + PathLen[p]
ObsBytes == 1

VARIABLES
  (* The database.  Ids are AUTOINCREMENT: never reused after a delete. *)
    txHash, txSeen,   \* sequences by transmission id: hash, first_seen
    txLive,           \* ids of the rows that exist
    obsLog,           \* sequence by observation id
    obsLive,          \* ids of the rows that exist
    pending,          \* observation InsertTransmission has still to commit
    now,
  (* The store. *)
    packets,          \* the packet list, as transmission ids
    held,             \* id -> [seen, obs, path] of the StoreTx
    byHash,           \* hash -> id of its StoreTx
    byTxID, byObsID,  \* the ids with an entry
    totalObs, spIndex, spTotalPaths, trackedBytes,
  (* The poller. *)
    pc, lastID, lastObsID, nextObsID,
    batch,            \* transmission rows read, with their joined observations
    obsBatch,         \* observation ids read
    errors,           \* number of failed queries
    sentOnce, sentAgain   \* history: observations broadcast, and again

db == <<txHash, txSeen, txLive, obsLog, obsLive, pending>>
index == <<packets, held, byHash, byTxID, byObsID, totalObs, spIndex,
           spTotalPaths, trackedBytes>>
cursors == <<pc, lastID, lastObsID, nextObsID, batch, obsBatch, errors>>
sent == <<sentOnce, sentAgain>>
vars == <<db, now, index, cursors, sent>>

None == <<>>

LongPaths == {p \in Paths : PathLen[p] >= 2}

Init ==
    /\ txHash = <<>> /\ txSeen = <<>> /\ txLive = {}
    /\ obsLog = <<>> /\ obsLive = {}
    /\ pending = None
    /\ now = 0
    /\ packets = <<>>
    /\ held = <<>>
    /\ byHash = <<>>
    /\ byTxID = {} /\ byObsID = {}
    /\ totalObs = 0
    /\ spIndex = [p \in LongPaths |-> 0]
    /\ spTotalPaths = 0
    /\ trackedBytes = 0
    /\ pc = "idle"
    /\ lastID = 0 /\ lastObsID = 0 /\ nextObsID = 0
    /\ batch = {} /\ obsBatch = {}
    /\ errors = 0
    /\ sentOnce = {} /\ sentAgain = {}

Tick ==
    /\ now < MaxNow
    /\ now' = now + 1
    /\ UNCHANGED <<db, index, cursors, sent>>

-----------------------------------------------------------------------------
(* The ingestor: InsertTransmission under writerMu.  Every statement       *)
(* commits by itself, so the server may read between the two.              *)

RowsOfHash(h) == {t \in txLive : txHash[t] = h}

\* The hash is new: insert the transmission row.
InsertTx(h, k, ts) ==
    /\ pending = None
    /\ RowsOfHash(h) = {}
    /\ Len(txHash) < MaxTx
    /\ txHash' = Append(txHash, h)
    /\ txSeen' = Append(txSeen, ts)
    /\ txLive' = txLive \cup {Len(txHash) + 1}
    /\ pending' = <<[tx |-> Len(txHash) + 1, key |-> k]>>
    /\ UNCHANGED <<obsLog, obsLive, now, index, cursors, sent>>

\* The hash is known: first_seen may move back, never forward.
HearAgain(h, k, ts) ==
    /\ pending = None
    /\ \E t \in RowsOfHash(h) :
        /\ txSeen' = IF ts < txSeen[t] THEN [txSeen EXCEPT ![t] = ts] ELSE txSeen
        /\ pending' = <<[tx |-> t, key |-> k]>>
    /\ UNCHANGED <<txHash, txLive, obsLog, obsLive, now, index, cursors, sent>>

\* The unique index (transmission_id, observer_idx, path_json): a NULL
\* observer_idx conflicts with nothing.
Conflicts(o) ==
    /\ o.key.observer # Anon
    /\ \E i \in obsLive : obsLog[i] = o

\* The upsert of the observation row.
InsertObservation ==
    /\ pending # None
    /\ pending' = None
    /\ \/ /\ Conflicts(pending[1])
          /\ UNCHANGED <<obsLog, obsLive>>
       \/ /\ ~Conflicts(pending[1])
          /\ Len(obsLog) < MaxObs
          /\ obsLog' = Append(obsLog, pending[1])
          /\ obsLive' = obsLive \cup {Len(obsLog) + 1}
    /\ UNCHANGED <<txHash, txSeen, txLive, now, index, cursors, sent>>

\* The ingestor dies, or the statement fails, between the two commits.
LoseObservation ==
    /\ pending # None
    /\ pending' = None
    /\ UNCHANGED <<txHash, txSeen, txLive, obsLog, obsLive, now, index, cursors,
                   sent>>

\* PruneOldPackets: one transaction, observations first.
PruneOldPackets ==
    LET old == {t \in txLive : txSeen[t] < now - PruneAge} IN
    /\ PruneAge > 0
    /\ pending = None
    /\ old # {}
    /\ txLive' = txLive \ old
    /\ obsLive' = {o \in obsLive : obsLog[o].tx \notin old}
    /\ UNCHANGED <<txHash, txSeen, obsLog, pending, now, index, cursors, sent>>

-----------------------------------------------------------------------------
(* One tick of the poller.                                                 *)

\* Mutant: the row that reaches the limit is not read.
LowestOffByOne(S, n) == {x \in S : Cardinality({y \in S : y < x}) < n - 1}

\* The n smallest elements of S (ORDER BY id ASC LIMIT n).
Lowest(S, n) == {x \in S : Cardinality({y \in S : y < x}) < n}

Joined(t) == {o \in obsLive : obsLog[o].tx = t}

\* IngestNewFromDB, the query: rows above the cursor with their observations.
ReadTransmissions ==
    /\ pc = "idle"
    /\ pc' = "gotTx"
    /\ batch' = {[id |-> t, seen |-> txSeen[t], obs |-> Joined(t)] :
                     t \in Lowest({t \in txLive : t > lastID}, TxLimit)}
    /\ UNCHANGED <<db, now, index, lastID, lastObsID, nextObsID, obsBatch, errors,
                   sent>>

KeysOf(S) == {obsLog[o].key : o \in S}

\* Of the rows R the ones kept for a StoreTx that has the keys K: one for
\* each new key, whichever the ORDER BY timestamp put first.
KeepChoices(R, K) ==
    {S \in SUBSET R :
        /\ KeysOf(S) = KeysOf(R) \ K
        /\ Cardinality(S) = Cardinality(KeysOf(S))}

Longest(S) ==
    {p \in {obsLog[o].key.path : o \in S} :
        \A o \in S : PathLen[obsLog[o].key.path] <= PathLen[p]}

\* Mutant: the first observation stays on display.
BestPathsSticky(S, cur) ==
    LET shown == {obsLog[o].key.path : o \in S} IN
    IF cur \in shown \/ S = {} THEN {cur} ELSE Longest(S)

\* pickBestObservation: the first of the longest paths.  An observation that
\* comes later wins only by being longer.
BestPaths(S, cur) ==
    CASE S = {} -> {cur}
      [] S # {} /\ cur \in Longest(S) -> {cur}
      [] OTHER -> Longest(S)

\* Mutant: the old path is not taken out of the index.
DecrementForgotten(f, p) == f

Increment(f, p) == IF p \in LongPaths THEN [f EXCEPT ![p] = @ + 1] ELSE f
Decrement(f, p) ==
    IF p \in LongPaths /\ f[p] > 0 THEN [f EXCEPT ![p] = @ - 1] ELSE f
One(p) == IF p \in LongPaths THEN 1 ELSE 0

\* One message per observation goes to the hub.
Broadcast(S) ==
    /\ sentOnce' = sentOnce \cup S
    /\ sentAgain' = sentAgain \cup (sentOnce \cap S)

\* Mutant: the store is searched by row id.
InStoreByID(r) == r.id \in byTxID

\* The store has the packet: s.byHash[r.hash].
InStore(r) == txHash[r.id] \in DOMAIN byHash

\* IngestNewFromDB, the merge loop: the lowest row left, its hash not in the
\* store.  The bytes are estimated before the best path is known.
MergeNewTx(r) ==
    /\ pc \in {"gotTx", "mergeTx"}
    /\ pc' = "mergeTx"
    /\ r \in batch /\ \A q \in batch : r.id <= q.id
    /\ ~InStore(r)
    /\ \E kept \in KeepChoices(r.obs, {}) : \E path \in BestPaths(kept, NoPath) :
        /\ held' = [i \in DOMAIN held \cup {r.id} |->
                       IF i = r.id
                       THEN [seen |-> r.seen, obs |-> kept, path |-> path]
                       ELSE held[i]]
        /\ byObsID' = byObsID \cup kept
        /\ totalObs' = totalObs + Cardinality(kept)
        /\ spIndex' = Increment(spIndex, path)
        /\ spTotalPaths' = spTotalPaths + One(path)
        /\ trackedBytes' =
               trackedBytes + TxBytes(NoPath) + ObsBytes * Cardinality(kept)
        /\ Broadcast(kept)
    /\ packets' = Append(packets, r.id)
    /\ byHash' = [h \in DOMAIN byHash \cup {txHash[r.id]} |->
                     IF h = txHash[r.id] THEN r.id ELSE byHash[h]]
    /\ byTxID' = byTxID \cup {r.id}
    /\ batch' = batch \ {r}
    /\ lastID' = r.id
    /\ UNCHANGED <<db, now, lastObsID, nextObsID, obsBatch, errors>>

\* The hash is in the store under another id (its row was pruned and heard
\* again): the observations join the old StoreTx; the best observation is not
\* picked again, byTxID gets no entry and nothing is broadcast.
MergeKnownHash(r) ==
    /\ pc \in {"gotTx", "mergeTx"}
    /\ pc' = "mergeTx"
    /\ r \in batch /\ \A q \in batch : r.id <= q.id
    /\ InStore(r)
    /\ LET i == byHash[txHash[r.id]] IN
       \E kept \in KeepChoices(r.obs, KeysOf(held[i].obs)) :
        /\ held' = [held EXCEPT ![i].obs = @ \cup kept]
        /\ byObsID' = byObsID \cup kept
        /\ totalObs' = totalObs + Cardinality(kept)
        /\ trackedBytes' = trackedBytes + ObsBytes * Cardinality(kept)
    /\ batch' = batch \ {r}
    /\ lastID' = r.id
    /\ UNCHANGED <<db, now, packets, byHash, byTxID, spIndex, spTotalPaths,
                   lastObsID, nextObsID, obsBatch, errors, sent>>

MergeTx == \E r \in batch : MergeNewTx(r) \/ MergeKnownHash(r)

NewObsRows == Lowest({o \in obsLive : o > lastObsID}, ObsLimit)

\* Mutant: the cursor jumps to the newest row, not to the end of the page.
IsNextCursorUnlimited(c) ==
    /\ c \in {lastObsID} \cup {o \in obsLive : o > lastObsID}
    /\ \A o \in obsLive : o <= c

\* COALESCE(MAX(id), lastObsID) over the next page of rows.
IsNextCursor(c) ==
    /\ c \in {lastObsID} \cup NewObsRows
    /\ \A o \in NewObsRows : o <= c

\* Poller.Start: the next observation cursor is read before the observations.
ReadNextObsID ==
    /\ pc \in {"gotTx", "mergeTx"}
    /\ batch = {}
    /\ pc' = "readObs"
    /\ \E c \in {lastObsID} \cup obsLive : IsNextCursor(c) /\ nextObsID' = c
    /\ UNCHANGED <<db, now, index, lastID, lastObsID, batch, obsBatch, errors, sent>>

\* IngestNewObservations, the query.
ReadObservations ==
    /\ pc = "readObs"
    /\ pc' = "gotObs"
    /\ obsBatch' = NewObsRows
    /\ UNCHANGED <<db, now, index, lastID, lastObsID, nextObsID, batch, errors,
                   sent>>

\* Mutant: only the packet is looked up.
SkippedUnchecked(o) == obsLog[o].tx \notin byTxID

\* The rows the merge loop passes over: already ingested, transmission not in
\* the store, or a key the StoreTx has.
Skipped(o) ==
    o \notin byObsID /\ obsLog[o].tx \in byTxID
        => obsLog[o].key \in KeysOf(held[obsLog[o].tx].obs)

SkipObservation(o) ==
    /\ pc \in {"gotObs", "mergeObs"}
    /\ pc' = "mergeObs"
    /\ o \in obsBatch /\ \A q \in obsBatch : o <= q
    /\ Skipped(o)
    /\ obsBatch' = obsBatch \ {o}
    /\ UNCHANGED <<db, now, index, lastID, lastObsID, nextObsID, batch, errors, sent>>

\* A late observation: appended, the best path picked again and the subpath
\* index moved from the old path to the new one.
MergeObservation(o) ==
    /\ pc \in {"gotObs", "mergeObs"}
    /\ pc' = "mergeObs"
    /\ o \in obsBatch /\ \A q \in obsBatch : o <= q
    /\ ~Skipped(o)
    /\ LET t == obsLog[o].tx
           all == held[t].obs \cup {o}
       IN \E path \in BestPaths(all, held[t].path) :
            /\ held' = [held EXCEPT ![t].obs = all, ![t].path = path]
            /\ IF path = held[t].path
               THEN UNCHANGED <<spIndex, spTotalPaths>>
               ELSE /\ spIndex' = Increment(Decrement(spIndex, held[t].path), path)
                    /\ spTotalPaths' =
                           spTotalPaths - One(held[t].path) + One(path)
    /\ byObsID' = byObsID \cup {o}
    /\ totalObs' = totalObs + 1
    /\ trackedBytes' = trackedBytes + ObsBytes
    /\ Broadcast({o})
    /\ obsBatch' = obsBatch \ {o}
    /\ UNCHANGED <<db, now, packets, byHash, byTxID, lastID, lastObsID,
                   nextObsID, batch, errors>>

MergeObs == \E o \in obsBatch : SkipObservation(o) \/ MergeObservation(o)

\* The tick ends: the cursor moves to the id read before the merge.
FinishPoll ==
    /\ pc \in {"gotObs", "mergeObs"}
    /\ obsBatch = {}
    /\ pc' = "idle"
    /\ lastObsID' = nextObsID
    /\ UNCHANGED <<db, now, index, lastID, nextObsID, batch, obsBatch, errors, sent>>

\* A failed query: nothing is read.  The cursor query falls back to the old
\* cursor; the other two leave their batch empty and the tick goes on.
QueryFails ==
    /\ errors < MaxErrors
    /\ errors' = errors + 1
    /\ \/ /\ pc = "idle" /\ pc' = "gotTx"
          /\ batch' = {}
          /\ UNCHANGED <<nextObsID, obsBatch>>
       \/ /\ pc \in {"gotTx", "mergeTx"} /\ batch = {} /\ pc' = "readObs"
          /\ nextObsID' = lastObsID
          /\ UNCHANGED <<batch, obsBatch>>
       \/ /\ pc = "readObs" /\ pc' = "gotObs"
          /\ obsBatch' = {}
          /\ UNCHANGED <<batch, nextObsID>>
    /\ UNCHANGED <<db, now, index, lastID, lastObsID, sent>>

Poll ==
    \/ ReadTransmissions \/ MergeTx \/ ReadNextObsID
    \/ ReadObservations \/ MergeObs \/ FinishPoll

-----------------------------------------------------------------------------
(* The evictor: evictStaleInternal under s.mu.                             *)

\* Length of the prefix of packets older than the retention window.
TimeCutoff ==
    IF Retention = 0 THEN 0
    ELSE Max({n \in 0..Len(packets) :
                 \A i \in 1..n : held[packets[i]].seen < now - Retention})

PacketBytes(t) == TxBytes(held[t].path) + ObsBytes * Cardinality(held[t].obs)
BytesBetween(a, b) ==
    Cardinality(UNION {{i} \X (1..PacketBytes(packets[i])) : i \in (a + 1)..b})

\* Above the high watermark: go on from the time cutoff until the total would
\* be at the low watermark, but to no more than a quarter of the packets.
MemCutoff ==
    LET enough == {n \in TimeCutoff..Len(packets) :
                      trackedBytes - BytesBetween(TimeCutoff, n) <= LowWater}
        wanted == IF enough = {} THEN Len(packets) ELSE Min(enough)
        quarter == Max({1, Len(packets) \div 4})
    IN  IF HighWater > 0 /\ trackedBytes > HighWater /\ packets # <<>>
        THEN Min({wanted, quarter})
        ELSE 0

Cutoff == Max({TimeCutoff, MemCutoff})

\* Mutant: an evicted packet stays in the index.
SubtractPathsForgotten(f, S) == f

SubtractPaths(f, S) ==
    [p \in LongPaths |->
        Max({0, f[p] - Cardinality({t \in S : held[t].path = p})})]

\* Mutant: the observations are found by their row's transmission id.
ObsOfByRow(S) == {o \in byObsID : obsLog[o].tx \in S}

ObsOf(S) == UNION {held[t].obs : t \in S}

\* Mutant: the running total is not clamped.
BytesAfterUnclamped(n) == trackedBytes - BytesBetween(0, n)

BytesAfter(n) == Max({0, trackedBytes - BytesBetween(0, n)})

\* The poller holds s.mu from the first merge step to the last.
StoreLocked ==
    \/ pc = "mergeTx" /\ batch # {}
    \/ pc = "mergeObs" /\ obsBatch # {}

\* The first n packets leave the list and every index.  spTotalPaths stays:
\* the result of removeTxFromSubpathIndexFull is dropped.
Evict(n) ==
    LET gone == {packets[i] : i \in 1..n} IN
    /\ packets' = SubSeq(packets, n + 1, Len(packets))
    /\ held' = [t \in DOMAIN held \ gone |-> held[t]]
    /\ byHash' = [h \in DOMAIN byHash \ {txHash[t] : t \in gone} |-> byHash[h]]
    /\ byTxID' = byTxID \ gone
    /\ byObsID' = byObsID \ ObsOf(gone)
    /\ totalObs' = totalObs - Cardinality(ObsOf(gone))
    /\ spIndex' = SubtractPaths(spIndex, gone)
    /\ trackedBytes' = BytesAfter(n)
    /\ UNCHANGED spTotalPaths

RunEviction ==
    /\ ~StoreLocked
    /\ \E n \in 1..Len(packets) : n = Cutoff /\ Evict(n)
    /\ UNCHANGED <<db, now, cursors, sent>>

-----------------------------------------------------------------------------
Ingestor ==
    \/ \E h \in Hashes, k \in Key, d \in Delays :
          /\ d <= now
          /\ InsertTx(h, k, now - d) \/ HearAgain(h, k, now - d)
    \/ InsertObservation
    \/ LoseObservation
    \/ PruneOldPackets

Next == Ingestor \/ Poll \/ QueryFails \/ RunEviction \/ Tick

Spec == Init /\ [][Next]_vars

\* The poll ticker fires for as long as the server runs.
FairSpec == Spec /\ WF_vars(Poll)

-----------------------------------------------------------------------------
(* Properties                                                              *)

PcValues == {"idle", "gotTx", "mergeTx", "readObs", "gotObs", "mergeObs"}

DatabaseTypeOK ==
    /\ txHash \in Seq(Hashes) /\ txSeen \in Seq(Nat) /\ Len(txSeen) = Len(txHash)
    /\ txLive \subseteq 1..Len(txHash)
    /\ obsLog \in Seq(Obs) /\ obsLive \subseteq 1..Len(obsLog)
    /\ pending \in Seq(Obs) /\ Len(pending) <= 1
    /\ now \in Nat

StoreTypeOK ==
    /\ packets \in Seq(1..Len(txHash))
    /\ DOMAIN held \subseteq 1..Len(txHash)
    /\ held \in [DOMAIN held -> [seen : Nat, obs : SUBSET (1..Len(obsLog)), path : Paths]]
    /\ DOMAIN byHash \subseteq Hashes
    /\ byHash \in [DOMAIN byHash -> 1..Len(txHash)]
    /\ byTxID \subseteq 1..Len(txHash)
    /\ byObsID \subseteq 1..Len(obsLog)

PollerTypeOK ==
    /\ pc \in PcValues
    /\ lastID \in 0..Len(txHash)
    /\ lastObsID \in 0..Len(obsLog) /\ nextObsID \in 0..Len(obsLog)
    /\ batch \subseteq [id : 1..Len(txHash), seen : Nat, obs : SUBSET (1..Len(obsLog))]
    /\ obsBatch \subseteq 1..Len(obsLog)
    /\ errors \in 0..MaxErrors
    /\ sentOnce \subseteq 1..Len(obsLog) /\ sentAgain \subseteq 1..Len(obsLog)

\* Every id in the store, the cursors and the batches is the id of a row that
\* exists or existed, and no counter of the store goes below zero.
TypeOK ==
    /\ DatabaseTypeOK /\ StoreTypeOK /\ PollerTypeOK
    /\ totalObs \in Nat /\ spTotalPaths \in Nat /\ trackedBytes \in Nat
    /\ spIndex \in [LongPaths -> Nat]

\* The indexes describe exactly the packets in the list: no packet listed
\* twice, none without its byHash and byTxID entry, no entry that dangles
\* after an eviction.
\* (loadChunk's comment: "every tx in s.packets is in s.byHash/s.byTxID".)
TxIndexesAgree ==
    /\ \A i, j \in 1..Len(packets) : packets[i] = packets[j] => i = j
    /\ {packets[i] : i \in 1..Len(packets)} = DOMAIN held
    /\ byTxID = DOMAIN held
    /\ DOMAIN byHash = {txHash[t] : t \in DOMAIN held}
    /\ \A t \in DOMAIN held : byHash[txHash[t]] = t

\* byObsID holds exactly the observations of the packets in the store, each
\* under one packet only, and totalObs counts them, across re-heard packets,
\* late observations and evictions.
ObsIndexesAgree ==
    /\ byObsID = UNION {held[t].obs : t \in DOMAIN held}
    /\ \A t, u \in DOMAIN held : t # u => held[t].obs \cap held[u].obs = {}
    /\ totalObs = Cardinality(byObsID)

\* The cursor passes no observation of a packet in the store that the packet
\* does not show (#174), whichever way commits, polls and evictions interleave.
ObservationsReachStore ==
    \A o \in obsLive :
        o <= lastObsID /\ obsLog[o].tx \in byTxID
            => obsLog[o].key \in KeysOf(held[obsLog[o].tx].obs)

\* A packet shows one of its longest paths (unless rows of another
\* transmission id were merged into it).
ShowsLongestPath ==
    \A t \in DOMAIN held :
        held[t].obs # {} /\ (\A o \in held[t].obs : obsLog[o].tx = t)
            => held[t].path \in Longest(held[t].obs)

\* The subpath index counts each packet under the path it shows, across path
\* changes and evictions.
SubpathIndexExact ==
    \A p \in LongPaths :
        spIndex[p] = Cardinality({t \in DOMAIN held : held[t].path = p})

\* A browser gets every observation of a stored packet once: in the batch
\* that created the packet or in a later one, never in both.
BroadcastOnce ==
    /\ sentAgain = {}
    /\ \A t \in DOMAIN held : \A o \in held[t].obs :
           obsLog[o].tx = t => o \in sentOnce

\* Both cursors reach every committed observation that is not pruned first.
CursorsCatchUp ==
    \A o \in 1..MaxObs :
        o \in obsLive
            ~> \/ o \notin obsLive
               \/ lastObsID >= o /\ lastID >= obsLog[o].tx

\* EvictStale "removes packets older than the retention window": every stale
\* packet is in reach of the next pass.  The pass looks at a prefix only.
EvictionReachesStale ==
    \A i \in 1..Len(packets) :
        Retention > 0 /\ held[packets[i]].seen < now - Retention => i <= TimeCutoff

\* trackedBytes is the "running total of estimated packet store memory": it
\* is at least the smallest estimate of every record still held.
TrackedBytesCoverStore ==
    trackedBytes >= MapThenSumSet(
        LAMBDA t : TxBytes(NoPath) + ObsBytes * Cardinality(held[t].obs), DOMAIN held)

\* spTotalPaths is the number of "transmissions with paths >= 2 hops".
TotalPathsExact ==
    spTotalPaths = Cardinality({t \in DOMAIN held : held[t].path \in LongPaths})

(* Every index of the in-memory store agrees with the packets it indexes,
   whatever the order of polls, uploads, expansions and evictions. *)
StoreIndexes ==
    /\ TypeOK
    /\ TxIndexesAgree
    /\ ObsIndexesAgree
    /\ SubpathIndexExact

(* A packet is sent to the browsers once, and is shown with the longest
   path any of its observations has. *)
BroadcastsTheBest ==
    /\ ShowsLongestPath
    /\ BroadcastOnce
=============================================================================
