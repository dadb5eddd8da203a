------------------------- MODULE PacketStore_proof -------------------------
(***************************************************************************)
(* Proofs about PacketStore, for any number of packets, observations,      *)
(* observers and paths, any page sizes and any retention.                  *)
(***************************************************************************)
EXTENDS PacketStore, TLAPS, SequenceTheorems, FiniteSetTheorems

Typed == DatabaseTypeOK /\ StoreTypeOK /\ PollerTypeOK

\* The empty database and the empty store have their types.
LEMMA InitTyped == Init => Typed
<1> SUFFICES ASSUME Init PROVE Typed
  OBVIOUS
<1>0. MaxErrors \in Nat
  BY LimitsAssumption
<1>1. DatabaseTypeOK
  BY DEF Init, DatabaseTypeOK, None
<1>2. StoreTypeOK
  BY DEF Init, StoreTypeOK
<1>3. PollerTypeOK
  BY <1>0 DEF Init, PollerTypeOK, PcValues
<1> QED
  BY <1>1, <1>2, <1>3 DEF Typed

\* Every row only grows the two logs: what refers to the old ids still does.
LEMMA LogsGrow ==
    ASSUME Typed,
           Len(txHash') >= Len(txHash), Len(obsLog') >= Len(obsLog),
           Len(txHash') \in Nat, Len(obsLog') \in Nat,
           UNCHANGED <<index, cursors, sent>>
    PROVE  StoreTypeOK' /\ PollerTypeOK'
<1>1. /\ 1..Len(txHash) \subseteq 1..Len(txHash')
      /\ 1..Len(obsLog) \subseteq 1..Len(obsLog')
      /\ 0..Len(txHash) \subseteq 0..Len(txHash')
      /\ 0..Len(obsLog) \subseteq 0..Len(obsLog')
  BY DEF Typed, DatabaseTypeOK
<1> DEFINE R == [seen : Nat, obs : SUBSET (1..Len(obsLog)), path : Paths]
           RN == [seen : Nat, obs : SUBSET (1..Len(obsLog')), path : Paths]
           B == [id : 1..Len(txHash), seen : Nat, obs : SUBSET (1..Len(obsLog))]
           BN == [id : 1..Len(txHash'), seen : Nat, obs : SUBSET (1..Len(obsLog'))]
<1>2. R \subseteq RN /\ B \subseteq BN
  BY <1>1
<1>3. StoreTypeOK'
  <2>1. packets' \in Seq(1..Len(txHash'))
    BY <1>1 DEF Typed, StoreTypeOK, index
  <2>2. held' \in [DOMAIN held' -> RN]
    BY <1>2 DEF Typed, StoreTypeOK, index
  <2>3. byHash' \in [DOMAIN byHash' -> 1..Len(txHash')]
    BY <1>1 DEF Typed, StoreTypeOK, index
  <2> QED
    BY <1>1, <2>1, <2>2, <2>3 DEF Typed, StoreTypeOK, index
<1>4. PollerTypeOK'
  BY <1>1, <1>2 DEF Typed, PollerTypeOK, cursors, sent
<1> QED
  BY <1>3, <1>4

\* A set of row numbers and the next one lie in the longer range.
LEMMA GrowRange ==
    ASSUME NEW n \in Nat, NEW S, S \subseteq 1..n
    PROVE  S \cup {n + 1} \subseteq 1..(n + 1)
OBVIOUS

\* Appending a row makes the log one longer.
LEMMA AppendGrows ==
    ASSUME NEW S, NEW s \in Seq(S), NEW e \in S
    PROVE  /\ Append(s, e) \in Seq(S)
           /\ Len(Append(s, e)) = Len(s) + 1
           /\ Len(s) \in Nat
OBVIOUS

\* Writing a transmission, new or heard again, keeps the types.
LEMMA PacketStepTyped ==
    ASSUME Typed, NEW h \in Hashes, NEW k \in Key, NEW ts \in Nat,
           InsertTx(h, k, ts) \/ HearAgain(h, k, ts)
    PROVE  Typed'
<1> USE DEF Typed
<1>1. CASE InsertTx(h, k, ts)
  <2>1. pending' \in Seq(Obs) /\ Len(pending') <= 1
    <3>1. [tx |-> Len(txHash) + 1, key |-> k] \in Obs
      BY DEF Obs, DatabaseTypeOK
    <3> QED
      BY <1>1, <3>1 DEF InsertTx
  <2>2. /\ txHash' \in Seq(Hashes) /\ Len(txHash') = Len(txHash) + 1
        /\ txSeen' \in Seq(Nat) /\ Len(txSeen') = Len(txSeen) + 1
        /\ Len(txHash) \in Nat /\ Len(obsLog) \in Nat
    BY <1>1 DEF InsertTx, DatabaseTypeOK
  <2>3. txLive' \subseteq 1..Len(txHash')
    BY <1>1, <2>2, GrowRange DEF InsertTx, DatabaseTypeOK
  <2>4. UNCHANGED <<obsLog, obsLive, now>>
    BY <1>1 DEF InsertTx
  <2>5. DatabaseTypeOK'
    BY <2>1, <2>2, <2>3, <2>4 DEF DatabaseTypeOK
  <2> QED
    BY <1>1, <2>2, <2>5, LogsGrow DEF InsertTx
<1>2. CASE HearAgain(h, k, ts)
  <2> PICK t \in RowsOfHash(h) :
        /\ txSeen' = IF ts < txSeen[t] THEN [txSeen EXCEPT ![t] = ts] ELSE txSeen
        /\ pending' = <<[tx |-> t, key |-> k]>>
    BY <1>2 DEF HearAgain
  <2>0. t \in 1..Len(txHash)
    BY DEF RowsOfHash, DatabaseTypeOK
  <2>1. pending' \in Seq(Obs) /\ Len(pending') <= 1
    <3>1. [tx |-> t, key |-> k] \in Obs
      BY <2>0 DEF Obs, DatabaseTypeOK
    <3> QED
      BY <3>1
  <2>2. txSeen' \in Seq(Nat) /\ Len(txSeen') = Len(txSeen)
    BY <2>0 DEF DatabaseTypeOK
  <2>3. DatabaseTypeOK'
    BY <1>2, <2>1, <2>2 DEF HearAgain, DatabaseTypeOK
  <2>4. Len(txHash) \in Nat /\ Len(obsLog) \in Nat
    BY DEF DatabaseTypeOK
  <2> QED
    BY <1>2, <2>3, <2>4, LogsGrow DEF HearAgain
<1> QED
  BY <1>1, <1>2

\* Writing, losing and pruning rows keeps the types, and so does the clock.
LEMMA RowStepTyped ==
    ASSUME Typed,
           InsertObservation \/ LoseObservation \/ PruneOldPackets \/ Tick
    PROVE  Typed'
<1> USE DEF Typed
<1>1. CASE InsertObservation
  <2>0. pending[1] \in Obs
    BY <1>1 DEF InsertObservation, DatabaseTypeOK, None
  <2>1. pending' \in Seq(Obs) /\ Len(pending') <= 1
    BY <1>1 DEF InsertObservation, None
  <2>2. /\ obsLog' \in Seq(Obs) /\ Len(obsLog') >= Len(obsLog)
        /\ obsLive' \subseteq 1..Len(obsLog')
    <3>1. CASE UNCHANGED <<obsLog, obsLive>>
      BY <3>1 DEF DatabaseTypeOK
    <3>2. CASE /\ obsLog' = Append(obsLog, pending[1])
               /\ obsLive' = obsLive \cup {Len(obsLog) + 1}
      <4>1. /\ obsLog' \in Seq(Obs) /\ Len(obsLog') = Len(obsLog) + 1
            /\ Len(obsLog) \in Nat
        BY <2>0, <3>2, AppendGrows DEF DatabaseTypeOK
      <4>2. obsLive' \subseteq 1..Len(obsLog')
        BY <3>2, <4>1, GrowRange DEF DatabaseTypeOK
      <4> QED
        BY <4>1, <4>2
    <3> QED
      BY <1>1, <3>1, <3>2 DEF InsertObservation
  <2>3. DatabaseTypeOK'
    BY <1>1, <2>1, <2>2 DEF InsertObservation, DatabaseTypeOK
  <2>4. Len(txHash) \in Nat /\ Len(obsLog') \in Nat
    BY <2>2 DEF DatabaseTypeOK
  <2> QED
    BY <1>1, <2>2, <2>3, <2>4, LogsGrow DEF InsertObservation
<1>2. CASE LoseObservation
  <2>1. DatabaseTypeOK'
    BY <1>2 DEF LoseObservation, DatabaseTypeOK, None
  <2>4. Len(txHash) \in Nat /\ Len(obsLog) \in Nat
    BY DEF DatabaseTypeOK
  <2> QED
    BY <1>2, <2>1, <2>4, LogsGrow DEF LoseObservation
<1>3. CASE PruneOldPackets
  <2>1. DatabaseTypeOK'
    BY <1>3 DEF PruneOldPackets, DatabaseTypeOK
  <2>4. Len(txHash) \in Nat /\ Len(obsLog) \in Nat
    BY DEF DatabaseTypeOK
  <2> QED
    BY <1>3, <2>1, <2>4, LogsGrow DEF PruneOldPackets
<1>4. CASE Tick
  <2>1. DatabaseTypeOK'
    BY <1>4 DEF Tick, DatabaseTypeOK, db
  <2>4. Len(txHash) \in Nat /\ Len(obsLog) \in Nat
    BY DEF DatabaseTypeOK
  <2> QED
    BY <1>4, <2>1, <2>4, LogsGrow DEF Tick, db
<1> QED
  BY <1>1, <1>2, <1>3, <1>4

\* The best of the paths of some observations, or the one shown, is a path.
LEMMA BestPathsTyped ==
    ASSUME DatabaseTypeOK, NEW S \in SUBSET (1..Len(obsLog)), NEW cur \in Paths,
           NEW p \in BestPaths(S, cur)
    PROVE  p \in Paths
<1>1. \A o \in S : obsLog[o] \in Obs
  BY DEF DatabaseTypeOK
<1>2. \A o \in S : obsLog[o].key.path \in Paths
  BY <1>1 DEF Obs, Key
<1>3. Longest(S) \subseteq Paths
  BY <1>2 DEF Longest
<1> QED
  BY <1>3 DEF BestPaths

\* A choice of rows to keep is some of the rows.
LEMMA KeepTyped ==
    ASSUME NEW R, NEW K, NEW S \in KeepChoices(R, K)
    PROVE  S \subseteq R
BY DEF KeepChoices

\* Merging a packet that is new keeps the types.
LEMMA MergeNewTxTyped ==
    ASSUME Typed, NEW r \in batch, MergeNewTx(r)
    PROVE  Typed'
<1> USE DEF Typed
<1>0. /\ r.id \in 1..Len(txHash) /\ r.seen \in Nat /\ r.obs \subseteq 1..Len(obsLog)
      /\ Len(txHash) \in Nat
  BY DEF PollerTypeOK, DatabaseTypeOK
<1>1. UNCHANGED <<txHash, txSeen, txLive, obsLog, obsLive, pending, now>>
  BY DEF MergeNewTx, db
<1>2. DatabaseTypeOK'
  BY <1>1 DEF DatabaseTypeOK
<1> PICK kept \in KeepChoices(r.obs, {}) : \E path \in BestPaths(kept, NoPath) :
        /\ held' = [i \in DOMAIN held \cup {r.id} |->
                       IF i = r.id
                       THEN [seen |-> r.seen, obs |-> kept, path |-> path]
                       ELSE held[i]]
        /\ byObsID' = byObsID \cup kept
        /\ Broadcast(kept)
  BY DEF MergeNewTx
<1> PICK path \in BestPaths(kept, NoPath) :
        /\ held' = [i \in DOMAIN held \cup {r.id} |->
                       IF i = r.id
                       THEN [seen |-> r.seen, obs |-> kept, path |-> path]
                       ELSE held[i]]
        /\ byObsID' = byObsID \cup kept
        /\ Broadcast(kept)
  OBVIOUS
<1>3. kept \subseteq 1..Len(obsLog)
  BY <1>0, KeepTyped
<1>4. path \in Paths
  BY <1>3, BestPathsTyped, PathsAssumption
<1>5. StoreTypeOK'
  <2>1. packets' \in Seq(1..Len(txHash'))
    BY <1>0, <1>1, AppendGrows DEF MergeNewTx, StoreTypeOK
  <2>2. DOMAIN held' \subseteq 1..Len(txHash')
    BY <1>0, <1>1 DEF StoreTypeOK
  <2> DEFINE R == [seen : Nat, obs : SUBSET (1..Len(obsLog)), path : Paths]
  <2>3. [seen |-> r.seen, obs |-> kept, path |-> path] \in R
    BY <1>0, <1>3, <1>4
  <2>4. held' \in [DOMAIN held' -> R]
    <3> HIDE DEF R
    <3>1. held \in [DOMAIN held -> R]
      BY DEF StoreTypeOK, R
    <3> QED
      BY <2>3, <3>1
  <2>5. byHash' \in [DOMAIN byHash' -> 1..Len(txHash')]
    BY <1>0, <1>1 DEF MergeNewTx, StoreTypeOK
  <2>6. DOMAIN byHash' \subseteq Hashes
    <3>1. txHash[r.id] \in Hashes
      BY <1>0 DEF DatabaseTypeOK
    <3> QED
      BY <3>1 DEF MergeNewTx, StoreTypeOK
  <2>7. byTxID' \subseteq 1..Len(txHash')
    BY <1>0, <1>1 DEF MergeNewTx, StoreTypeOK
  <2>8. byObsID' \subseteq 1..Len(obsLog')
    BY <1>1, <1>3 DEF StoreTypeOK
  <2> QED
    BY <1>1, <2>1, <2>2, <2>4, <2>5, <2>6, <2>7, <2>8 DEF StoreTypeOK
<1>6. PollerTypeOK'
  <2>1. sentOnce' \subseteq 1..Len(obsLog) /\ sentAgain' \subseteq 1..Len(obsLog)
    BY <1>3 DEF Broadcast, PollerTypeOK
  <2> QED
    BY <1>0, <1>1, <2>1 DEF MergeNewTx, PollerTypeOK, PcValues
<1> QED
  BY <1>2, <1>5, <1>6

\* Merging a packet whose hash is known keeps the types.
LEMMA MergeKnownHashTyped ==
    ASSUME Typed, NEW r \in batch, MergeKnownHash(r)
    PROVE  Typed'
<1> USE DEF Typed
<1>0. /\ r.id \in 1..Len(txHash) /\ r.obs \subseteq 1..Len(obsLog)
      /\ Len(txHash) \in Nat
  BY DEF PollerTypeOK, DatabaseTypeOK
<1>1. UNCHANGED <<txHash, txSeen, txLive, obsLog, obsLive, pending, now>>
  BY DEF MergeKnownHash, db
<1>2. DatabaseTypeOK'
  BY <1>1 DEF DatabaseTypeOK
<1> DEFINE i == byHash[txHash[r.id]]
<1> PICK kept \in KeepChoices(r.obs, KeysOf(held[i].obs)) :
        /\ held' = [held EXCEPT ![i].obs = @ \cup kept]
        /\ byObsID' = byObsID \cup kept
  BY DEF MergeKnownHash
<1>3. kept \subseteq 1..Len(obsLog)
  BY <1>0, KeepTyped
<1>4. held' \in [DOMAIN held -> [seen : Nat, obs : SUBSET (1..Len(obsLog)), path : Paths]]
  <2> HIDE DEF i
  <2>1. CASE i \in DOMAIN held
    <3>1. held[i] \in [seen : Nat, obs : SUBSET (1..Len(obsLog)), path : Paths]
      BY <2>1 DEF StoreTypeOK
    <3>2. [held[i] EXCEPT !.obs = @ \cup kept]
             \in [seen : Nat, obs : SUBSET (1..Len(obsLog)), path : Paths]
      BY <1>3, <3>1
    <3>3. held' = [held EXCEPT ![i] = [held[i] EXCEPT !.obs = @ \cup kept]]
      BY <2>1, <3>1 DEF StoreTypeOK
    <3> QED
      BY <3>2, <3>3 DEF StoreTypeOK
  <2>2. CASE i \notin DOMAIN held
    <3>1. held' = held
      BY <2>2 DEF StoreTypeOK
    <3> QED
      BY <3>1 DEF StoreTypeOK
  <2> QED
    BY <2>1, <2>2
<1>5. StoreTypeOK'
  <2>1. DOMAIN held' = DOMAIN held
    BY <1>4
  <2> QED
    BY <1>1, <1>3, <1>4, <2>1 DEF StoreTypeOK, MergeKnownHash
<1>6. PollerTypeOK'
  <2>1. /\ pc' = "mergeTx" /\ lastID' = r.id /\ batch' = batch \ {r}
        /\ UNCHANGED <<lastObsID, nextObsID, obsBatch, errors, sentOnce, sentAgain>>
    BY DEF MergeKnownHash, sent
  <2>2. PollerTypeOK
    OBVIOUS
  <2> HIDE DEF Typed
  <2> QED
    BY <1>0, <1>1, <2>1, <2>2 DEF PollerTypeOK, PcValues
<1> QED
  BY <1>2, <1>5, <1>6

\* The rows a page query returns are rows of the table.
LEMMA PageTyped ==
    ASSUME DatabaseTypeOK
    PROVE  /\ NewObsRows \subseteq {o \in obsLive : o > lastObsID}
           /\ Lowest({t \in txLive : t > lastID}, TxLimit)
                  \subseteq {t \in txLive : t > lastID}
BY DEF NewObsRows, Lowest

\* Merging a late observation keeps the types.
LEMMA MergeObservationTyped ==
    ASSUME Typed, NEW o \in obsBatch, MergeObservation(o)
    PROVE  Typed'
<1> USE DEF Typed
<1> DEFINE t == obsLog[o].tx
           all == held[t].obs \cup {o}
<1>0. o \in 1..Len(obsLog)
  BY DEF PollerTypeOK
<1>1. UNCHANGED <<txHash, txSeen, txLive, obsLog, obsLive, pending, now>>
  BY DEF MergeObservation, db
<1>2. DatabaseTypeOK'
  BY <1>1 DEF DatabaseTypeOK
<1> PICK path \in BestPaths(all, held[t].path) :
        held' = [held EXCEPT ![t].obs = all, ![t].path = path]
  BY DEF MergeObservation
<1>4. held' \in [DOMAIN held -> [seen : Nat, obs : SUBSET (1..Len(obsLog)), path : Paths]]
  <2>1. CASE t \in DOMAIN held
    <3>1. held[t] \in [seen : Nat, obs : SUBSET (1..Len(obsLog)), path : Paths]
      BY <2>1 DEF StoreTypeOK
    <3>2. all \in SUBSET (1..Len(obsLog)) /\ held[t].path \in Paths
      BY <1>0, <3>1
    <3>3. path \in Paths
      BY <3>2, BestPathsTyped
    <3> HIDE DEF all, t
    <3>4. held' = [held EXCEPT ![t] = [held[t] EXCEPT !.obs = all, !.path = path]]
      BY <2>1, <3>1 DEF StoreTypeOK
    <3>5. [held[t] EXCEPT !.obs = all, !.path = path]
              \in [seen : Nat, obs : SUBSET (1..Len(obsLog)), path : Paths]
      BY <3>1, <3>2, <3>3
    <3> QED
      BY <3>4, <3>5 DEF StoreTypeOK
  <2>2. CASE t \notin DOMAIN held
    <3> HIDE DEF all, t
    <3>1. held' = held
      BY <2>2 DEF StoreTypeOK
    <3> QED
      BY <3>1 DEF StoreTypeOK
  <2> QED
    BY <2>1, <2>2
<1>5. StoreTypeOK'
  <2>1. DOMAIN held' = DOMAIN held
    BY <1>4
  <2> QED
    BY <1>0, <1>1, <1>4, <2>1 DEF StoreTypeOK, MergeObservation
<1>6. PollerTypeOK'
  BY <1>0, <1>1 DEF MergeObservation, Broadcast, PollerTypeOK, PcValues
<1> QED
  BY <1>2, <1>5, <1>6

\* A step that reads or finishes a page leaves the database and the store alone.
LEMMA ReadStepsTyped ==
    ASSUME Typed,
           \/ ReadTransmissions \/ ReadNextObsID \/ ReadObservations
           \/ (\E o \in obsBatch : SkipObservation(o)) \/ FinishPoll \/ QueryFails
    PROVE  Typed'
<1> USE DEF Typed
<1>1. UNCHANGED <<txHash, txSeen, txLive, obsLog, obsLive, pending, now>>
  BY DEF ReadTransmissions, ReadNextObsID, ReadObservations, SkipObservation,
         FinishPoll, QueryFails, db
<1>2. UNCHANGED <<packets, held, byHash, byTxID, byObsID>>
  BY DEF ReadTransmissions, ReadNextObsID, ReadObservations, SkipObservation,
         FinishPoll, QueryFails, index
<1>3. DatabaseTypeOK' /\ StoreTypeOK'
  BY <1>1, <1>2 DEF DatabaseTypeOK, StoreTypeOK
<1>4. PollerTypeOK'
  <2>1. CASE ReadTransmissions
    <3>1. batch' \subseteq [id : 1..Len(txHash), seen : Nat, obs : SUBSET (1..Len(obsLog))]
      <4> SUFFICES ASSUME NEW r \in batch'
                   PROVE  r \in [id : 1..Len(txHash), seen : Nat, obs : SUBSET (1..Len(obsLog))]
        OBVIOUS
      <4>0. Lowest({t \in txLive : t > lastID}, TxLimit) \subseteq txLive
        BY PageTyped
      <4> PICK t \in Lowest({t \in txLive : t > lastID}, TxLimit) :
              r = [id |-> t, seen |-> txSeen[t], obs |-> Joined(t)]
        BY <2>1 DEF ReadTransmissions
      <4>1. t \in 1..Len(txHash) /\ t \in 1..Len(txSeen)
        BY <4>0 DEF DatabaseTypeOK
      <4>2. txSeen[t] \in Nat
        BY <4>1 DEF DatabaseTypeOK
      <4>3. Joined(t) \in SUBSET (1..Len(obsLog))
        BY DEF DatabaseTypeOK, Joined
      <4> QED
        BY <4>1, <4>2, <4>3
    <3> QED
      BY <1>1, <2>1, <3>1 DEF ReadTransmissions, PollerTypeOK, PcValues, sent
  <2>2. CASE ReadNextObsID
    <3>1. nextObsID' \in 0..Len(obsLog)
      <4>1. PICK c \in {lastObsID} \cup obsLive : nextObsID' = c
        BY <2>2 DEF ReadNextObsID
      <4>2. lastObsID \in 0..Len(obsLog) /\ obsLive \subseteq 0..Len(obsLog)
        BY DEF PollerTypeOK, DatabaseTypeOK
      <4> QED
        BY <4>1, <4>2
    <3> QED
      BY <1>1, <2>2, <3>1 DEF ReadNextObsID, PollerTypeOK, PcValues, sent
  <2>3. CASE ReadObservations
    <3>1. obsBatch' \subseteq 1..Len(obsLog)
      BY <2>3, PageTyped DEF ReadObservations, DatabaseTypeOK
    <3> QED
      BY <1>1, <2>3, <3>1 DEF ReadObservations, PollerTypeOK, PcValues, sent
  <2>4. CASE \E o \in obsBatch : SkipObservation(o)
    BY <1>1, <2>4 DEF SkipObservation, PollerTypeOK, PcValues, sent
  <2>5. CASE FinishPoll
    BY <1>1, <2>5 DEF FinishPoll, PollerTypeOK, PcValues, sent
  <2>6. CASE QueryFails
    <3>1. /\ errors' \in 0..MaxErrors
          /\ UNCHANGED <<lastID, lastObsID, sentOnce, sentAgain>>
      BY <2>6, LimitsAssumption DEF QueryFails, PollerTypeOK, sent
    <3>2. /\ pc' \in PcValues
          /\ batch' = {} \/ batch' = batch
          /\ obsBatch' = {} \/ obsBatch' = obsBatch
          /\ nextObsID' = lastObsID \/ nextObsID' = nextObsID
      BY <2>6 DEF QueryFails, PcValues
    <3> QED
      BY <1>1, <3>1, <3>2 DEF PollerTypeOK
  <2> QED
    BY <2>1, <2>2, <2>3, <2>4, <2>5, <2>6
<1> QED
  BY <1>3, <1>4

\* Evicting the oldest packets keeps the types.
LEMMA RunEvictionTyped ==
    ASSUME Typed, RunEviction
    PROVE  Typed'
<1> USE DEF Typed
<1>1. UNCHANGED <<txHash, txSeen, txLive, obsLog, obsLive, pending, now>>
  BY DEF RunEviction, db
<1>2. UNCHANGED <<pc, lastID, lastObsID, nextObsID, batch, obsBatch, errors,
                  sentOnce, sentAgain>>
  BY DEF RunEviction, cursors, sent
<1>3. DatabaseTypeOK' /\ PollerTypeOK'
  BY <1>1, <1>2 DEF DatabaseTypeOK, PollerTypeOK
<1> PICK n \in 1..Len(packets) : Evict(n)
  BY DEF RunEviction
<1>4. packets' \in Seq(1..Len(txHash))
  <2>1. packets \in Seq(1..Len(txHash))
    BY DEF StoreTypeOK
  <2>2. packets' = SubSeq(packets, n + 1, Len(packets))
    BY DEF Evict
  <2> QED
    BY <2>1, <2>2
<1>5. StoreTypeOK'
  BY <1>1, <1>4 DEF StoreTypeOK, Evict
<1> QED
  BY <1>3, <1>5

\* Every step of writer, poller and eviction keeps the types.
LEMMA NextTyped == Typed /\ [Next]_vars => Typed'
<1> SUFFICES ASSUME Typed, [Next]_vars PROVE Typed'
  OBVIOUS
<1>1. CASE Ingestor \/ Tick
  <2>1. ASSUME NEW h \in Hashes, NEW k \in Key, NEW d \in Delays, d <= now,
               InsertTx(h, k, now - d) \/ HearAgain(h, k, now - d)
        PROVE  Typed'
    <3>1. now - d \in Nat
      BY <2>1, LimitsAssumption DEF Typed, DatabaseTypeOK
    <3> QED
      BY <2>1, <3>1, PacketStepTyped
  <2> QED
    BY <1>1, <2>1, RowStepTyped DEF Ingestor
<1>2. CASE Poll
  BY <1>2, ReadStepsTyped, MergeNewTxTyped, MergeKnownHashTyped, MergeObservationTyped
     DEF Poll, MergeTx, MergeObs
<1>3. CASE QueryFails
  BY <1>3, ReadStepsTyped
<1>4. CASE RunEviction
  BY <1>4, RunEvictionTyped
<1>5. CASE UNCHANGED vars
  BY <1>5 DEF vars, db, index, cursors, sent, Typed, DatabaseTypeOK, StoreTypeOK,
              PollerTypeOK
<1> QED
  BY <1>1, <1>2, <1>3, <1>4, <1>5 DEF Next

-----------------------------------------------------------------------------
(* The indexes agree.  The strengthening: the rows of a batch are above the *)
(* cursor and every packet of the store is at or below it, so that a row    *)
(* that is merged cannot have the id of a packet already there.             *)

BatchAhead ==
    \A r \in batch : r.id > lastID /\ \A q \in batch : q.id = r.id => q = r

HeldBehind == \A t \in DOMAIN held : t <= lastID

IndexInv == BatchAhead /\ HeldBehind /\ TxIndexesAgree

\* Nothing the database does renames a packet of the store.
LEMMA IndexInvRows ==
    ASSUME Typed, IndexInv, UNCHANGED <<index, cursors>>,
           \A t \in 1..Len(txHash) : txHash'[t] = txHash[t]
    PROVE  IndexInv'
<1>1. UNCHANGED <<packets, held, byHash, byTxID, lastID, batch>>
  BY DEF index, cursors
<1>2. \A t \in DOMAIN held : txHash'[t] = txHash[t]
  BY DEF Typed, StoreTypeOK
<1> QED
  BY <1>1, <1>2 DEF IndexInv, BatchAhead, HeldBehind, TxIndexesAgree

\* A step that keeps the list, its index keys and the batch of rows, or clears it.
LEMMA IndexInvKept ==
    ASSUME IndexInv, UNCHANGED <<txHash, packets, byHash, byTxID, lastID>>,
           DOMAIN held' = DOMAIN held, batch' \subseteq batch
    PROVE  IndexInv'
BY DEF IndexInv, BatchAhead, HeldBehind, TxIndexesAgree

\* A new packet enters list and indexes together, and lies behind the cursor.
LEMMA IndexInvMergeNewTx ==
    ASSUME Typed, IndexInv, NEW r \in batch, MergeNewTx(r)
    PROVE  IndexInv'
<1>0. /\ r.id \in 1..Len(txHash) /\ lastID \in Nat
      /\ \A q \in batch : q.id \in Nat
      /\ DOMAIN held \subseteq Nat
  BY SMTT(60) DEF Typed, PollerTypeOK, DatabaseTypeOK, StoreTypeOK
<1>1. /\ batch' = batch \ {r} /\ lastID' = r.id
      /\ txHash' = txHash
      /\ packets' = Append(packets, r.id)
      /\ byTxID' = byTxID \cup {r.id}
      /\ txHash[r.id] \notin DOMAIN byHash
      /\ \A q \in batch : r.id <= q.id
  BY DEF MergeNewTx, InStore, db
<1>2. DOMAIN held' = DOMAIN held \cup {r.id}
  BY DEF MergeNewTx
<1>3. r.id > lastID /\ r.id \notin DOMAIN held
  BY <1>0 DEF IndexInv, BatchAhead, HeldBehind
<1>4. BatchAhead'
  BY <1>0, <1>1 DEF IndexInv, BatchAhead
<1>5. HeldBehind'
  BY <1>0, <1>1, <1>2, <1>3 DEF IndexInv, HeldBehind
<1>6. TxIndexesAgree'
  <2> DEFINE n == Len(packets)
  <2>0. /\ packets \in Seq(1..Len(txHash)) /\ n \in Nat
        /\ {packets[i] : i \in 1..n} = DOMAIN held
        /\ \A i, j \in 1..n : packets[i] = packets[j] => i = j
    BY DEF Typed, StoreTypeOK, IndexInv, TxIndexesAgree
  <2>1. /\ Len(packets') = n + 1 /\ packets'[n + 1] = r.id
        /\ \A i \in 1..n : packets'[i] = packets[i]
    BY <1>0, <1>1, <2>0
  <2> HIDE DEF n
  <2>2. \A i \in 1..(n + 1) : i \in 1..n \/ i = n + 1
    BY <2>0
  <2>3. {packets'[i] : i \in 1..(n + 1)} = DOMAIN held'
    <3>1. \A i \in 1..(n + 1) : packets'[i] \in DOMAIN held'
      BY <1>2, <2>0, <2>1, <2>2
    <3>2. ASSUME NEW t \in DOMAIN held' PROVE \E i \in 1..(n + 1) : packets'[i] = t
      <4>1. CASE t = r.id
        <5>1. n + 1 \in 1..(n + 1)
          BY <2>0
        <5> QED
          BY <2>1, <4>1, <5>1
      <4>2. CASE t \in DOMAIN held
        <5>1. PICK i \in 1..n : packets[i] = t
          BY <2>0, <4>2
        <5>2. i \in 1..(n + 1) /\ packets'[i] = t
          BY <2>0, <2>1, <5>1
        <5> QED
          BY <5>2
      <4> QED
        BY <1>2, <4>1, <4>2
    <3> QED
      BY <3>1, <3>2
  <2>4. \A i, j \in 1..(n + 1) : packets'[i] = packets'[j] => i = j
    BY <1>3, <2>0, <2>1, <2>2
  <2>5. byTxID' = DOMAIN held'
    BY <1>1, <1>2 DEF IndexInv, TxIndexesAgree
  <2>6. DOMAIN byHash' = DOMAIN byHash \cup {txHash[r.id]}
    BY DEF MergeNewTx
  <2>7. DOMAIN byHash' = {txHash'[t] : t \in DOMAIN held'}
    BY <1>1, <1>2, <2>6 DEF IndexInv, TxIndexesAgree
  <2>8. \A t \in DOMAIN held' : byHash'[txHash'[t]] = t
    <3> TAKE t \in DOMAIN held'
    <3>1. CASE t = r.id
      BY <1>1, <3>1 DEF MergeNewTx
    <3>2. CASE t \in DOMAIN held
      <4>1. txHash[t] \in DOMAIN byHash /\ txHash[t] # txHash[r.id] /\ byHash[txHash[t]] = t
        BY <1>1, <3>2 DEF IndexInv, TxIndexesAgree
      <4> QED
        BY <1>1, <4>1 DEF MergeNewTx
    <3> QED
      BY <1>2, <3>1, <3>2
  <2> QED
    BY <2>1, <2>3, <2>4, <2>5, <2>7, <2>8 DEF TxIndexesAgree
<1> QED
  BY <1>4, <1>5, <1>6 DEF IndexInv

\* Eviction takes a prefix of the list out of every index.
LEMMA IndexInvEvict ==
    ASSUME Typed, IndexInv, RunEviction
    PROVE  IndexInv'
<1> PICK n \in 1..Len(packets) : Evict(n)
  BY DEF RunEviction
<1>0. UNCHANGED <<txHash, lastID, batch>>
  BY DEF RunEviction, db, cursors
<1> DEFINE gone == {packets[i] : i \in 1..n}
           m == Len(packets)
<1>1. /\ packets \in Seq(1..Len(txHash)) /\ m \in Nat /\ n \in Nat /\ n <= m
      /\ {packets[i] : i \in 1..m} = DOMAIN held
      /\ \A i, j \in 1..m : packets[i] = packets[j] => i = j
      /\ byTxID = DOMAIN held
      /\ DOMAIN byHash = {txHash[t] : t \in DOMAIN held}
      /\ \A t \in DOMAIN held : byHash[txHash[t]] = t
  BY DEF Typed, StoreTypeOK, IndexInv, TxIndexesAgree
<1>2. /\ packets' = SubSeq(packets, n + 1, m)
      /\ held' = [t \in DOMAIN held \ gone |-> held[t]]
      /\ byHash' = [h \in DOMAIN byHash \ {txHash[t] : t \in gone} |-> byHash[h]]
      /\ byTxID' = byTxID \ gone
  BY DEF Evict
<1>3. /\ Len(packets') = m - n
      /\ \A i \in 1..(m - n) : packets'[i] = packets[i + n]
  BY <1>1, <1>2
<1>4. DOMAIN held' = DOMAIN held \ gone
  BY <1>2
<1>5. BatchAhead' /\ HeldBehind'
  BY <1>0, <1>4 DEF IndexInv, BatchAhead, HeldBehind
<1> HIDE DEF m
<1>6. \A i, j \in 1..(m - n) : packets'[i] = packets'[j] => i = j
  BY <1>1, <1>3
<1>7. {packets'[i] : i \in 1..(m - n)} = DOMAIN held'
  <2>1. ASSUME NEW i \in 1..(m - n) PROVE packets'[i] \in DOMAIN held \ gone
    <3>1. i + n \in 1..m /\ i + n \notin 1..n
      BY <1>1
    <3>2. packets'[i] = packets[i + n] /\ packets[i + n] \in DOMAIN held
      BY <1>1, <1>3, <3>1
    <3>3. ASSUME NEW j \in 1..n PROVE packets[j] # packets[i + n]
      <4>1. j \in 1..m /\ j # i + n
        BY <1>1, <3>1
      <4> QED BY <1>1, <3>1, <4>1
    <3>4. packets[i + n] \notin gone
      BY <3>3
    <3> QED
      BY <3>2, <3>4
  <2>2. ASSUME NEW t \in DOMAIN held \ gone
        PROVE  \E i \in 1..(m - n) : packets'[i] = t
    <3>1. PICK j \in 1..m : packets[j] = t
      BY <1>1
    <3>2. j \notin 1..n
      BY <3>1
    <3>3. j - n \in 1..(m - n) /\ (j - n) + n = j
      BY <1>1, <3>2
    <3>4. packets'[j - n] = t
      BY <1>3, <3>1, <3>3
    <3> QED
      BY <3>3, <3>4
  <2> QED
    BY <1>4, <2>1, <2>2
<1>8. gone \subseteq DOMAIN held
  BY <1>1
<1> HIDE DEF gone
<1>9. DOMAIN byHash' = {txHash[t] : t \in DOMAIN held'}
  <2>1. \A t, u \in DOMAIN held : txHash[t] = txHash[u] => t = u
    BY <1>1
  <2>2. DOMAIN byHash' = DOMAIN byHash \ {txHash[t] : t \in gone}
    BY <1>2
  <2> QED
    BY <1>1, <1>4, <1>8, <2>1, <2>2
<1>10. \A t \in DOMAIN held' : byHash'[txHash[t]] = t
  <2> TAKE t \in DOMAIN held'
  <2>1. t \in DOMAIN held /\ t \notin gone
    BY <1>4
  <2>2. txHash[t] \in DOMAIN byHash'
    BY <1>9
  <2> QED
    BY <1>1, <1>2, <2>1, <2>2
<1>11. TxIndexesAgree'
  <2>1. txHash' = txHash /\ byTxID' = DOMAIN held' /\ Len(packets') = m - n
    BY <1>0, <1>1, <1>2, <1>3, <1>4
  <2> QED
    BY <1>6, <1>7, <1>9, <1>10, <2>1 DEF TxIndexesAgree
<1> QED
  BY <1>5, <1>11 DEF IndexInv

\* Every step keeps list, byHash and byTxID in agreement.
LEMMA NextIndexInv == Typed /\ IndexInv /\ [Next]_vars => IndexInv'
<1> SUFFICES ASSUME Typed, IndexInv, [Next]_vars PROVE IndexInv'
  OBVIOUS
<1>1. CASE Ingestor \/ Tick
  <2>1. UNCHANGED <<index, cursors>>
    BY <1>1 DEF Ingestor, Tick, InsertTx, HearAgain, InsertObservation,
                LoseObservation, PruneOldPackets
  <2>2. txHash' = txHash \/ \E h \in Hashes : txHash' = Append(txHash, h)
    BY <1>1 DEF Ingestor, Tick, InsertTx, HearAgain, InsertObservation,
                LoseObservation, PruneOldPackets, db
  <2>3. txHash \in Seq(Hashes)
    BY DEF Typed, DatabaseTypeOK
  <2>4. \A t \in 1..Len(txHash) : txHash'[t] = txHash[t]
    BY <2>2, <2>3
  <2> QED
    BY <2>1, <2>4, IndexInvRows
<1>2. CASE ReadTransmissions
  <2>1. UNCHANGED <<packets, held, byHash, byTxID, lastID, txHash>>
    BY <1>2 DEF ReadTransmissions, index, db
  <2>2. BatchAhead'
    <3> DEFINE page == Lowest({t \in txLive : t > lastID}, TxLimit)
    <3>1. page \subseteq {t \in txLive : t > lastID}
      BY PageTyped DEF Typed
    <3>2. batch' = {[id |-> t, seen |-> txSeen[t], obs |-> Joined(t)] : t \in page}
      BY <1>2 DEF ReadTransmissions
    <3> HIDE DEF page
    <3>3. \A r \in batch' : \E t \in page :
              r = [id |-> t, seen |-> txSeen[t], obs |-> Joined(t)]
      BY <3>2
    <3>4. \A r \in batch' : r.id \in page /\ r.id > lastID
      BY <3>1, <3>3
    <3>5. \A r, q \in batch' : q.id = r.id => q = r
      BY <3>3
    <3> QED
      BY <2>1, <3>4, <3>5 DEF BatchAhead
  <2> QED
    BY <2>1, <2>2 DEF IndexInv, HeldBehind, TxIndexesAgree
<1>3. CASE \E r \in batch : MergeNewTx(r)
  BY <1>3, IndexInvMergeNewTx
<1>4. CASE \E r \in batch : MergeKnownHash(r)
  <2> PICK r \in batch : MergeKnownHash(r)
    BY <1>4
  <2>0. /\ r.id \in 1..Len(txHash) /\ lastID \in Nat
        /\ \A q \in batch : q.id \in Nat
        /\ DOMAIN held \subseteq Nat
    BY SMTT(60) DEF Typed, PollerTypeOK, DatabaseTypeOK, StoreTypeOK
  <2>1. /\ UNCHANGED <<txHash, packets, byHash, byTxID>>
        /\ batch' = batch \ {r} /\ lastID' = r.id
        /\ \A q \in batch : r.id <= q.id
    BY DEF MergeKnownHash, db
  <2>2. DOMAIN held' = DOMAIN held
    BY DEF MergeKnownHash
  <2>3. BatchAhead'
    BY <2>0, <2>1 DEF IndexInv, BatchAhead
  <2>4. HeldBehind'
    BY <2>0, <2>1, <2>2 DEF IndexInv, HeldBehind, BatchAhead
  <2> QED
    BY <2>1, <2>2, <2>3, <2>4 DEF IndexInv, TxIndexesAgree
<1>5. CASE \E o \in obsBatch : MergeObservation(o)
  <2>1. UNCHANGED <<txHash, packets, byHash, byTxID, lastID, batch>>
    BY <1>5 DEF MergeObservation, db
  <2>2. DOMAIN held' = DOMAIN held
    BY <1>5 DEF MergeObservation
  <2> QED
    BY <2>1, <2>2, IndexInvKept
<1>6. CASE \/ ReadNextObsID \/ ReadObservations \/ FinishPoll \/ QueryFails
           \/ \E o \in obsBatch : SkipObservation(o)
  <2>1. /\ UNCHANGED <<txHash, packets, held, byHash, byTxID, lastID>>
        /\ batch' \subseteq batch
    BY <1>6 DEF ReadNextObsID, ReadObservations, FinishPoll, QueryFails,
                SkipObservation, index, db
  <2> QED
    BY <2>1, IndexInvKept
<1>7. CASE RunEviction
  BY <1>7, IndexInvEvict
<1>8. CASE UNCHANGED vars
  BY <1>8, IndexInvKept DEF vars, db, index, cursors
<1> QED
  BY <1>1, <1>2, <1>3, <1>4, <1>5, <1>6, <1>7, <1>8 DEF Next, Poll, MergeTx, MergeObs

\* The ids, rows, cursors and index entries the actions work with are always
\* those of existing rows; no cursor passes the end of its table.
THEOREM TypedThm == Spec => []Typed
<1> QED
  BY InitTyped, NextTyped, PTL DEF Spec

\* The packet list, byHash and byTxID describe the same packets after every
\* merge and every eviction, whatever the ingestor does meanwhile, for any
\* number of packets.
THEOREM TxIndexesAgreeThm == Spec => []TxIndexesAgree
<1>1. Init => IndexInv
  BY DEF Init, IndexInv, BatchAhead, HeldBehind, TxIndexesAgree
<1>2. IndexInv => TxIndexesAgree
  BY DEF IndexInv
<1> QED
  BY <1>1, <1>2, InitTyped, NextTyped, NextIndexInv, PTL DEF Spec

-----------------------------------------------------------------------------
(* No observation is passed over while no query fails.  The strengthening   *)
(* follows the page from the cursor query to the end of the merge: its rows *)
(* will all be read (PageWillBeRead), then each of them waits in the batch  *)
(* or has arrived (PageArrives); and a transmission row still to be merged  *)
(* carries every observation at or below the cursor (BatchComplete).        *)

\* Observation o is seen in its packet, if that is in the store.
Shows(o) ==
    obsLog[o].tx \in byTxID => obsLog[o].key \in KeysOf(held[obsLog[o].tx].obs)

Page == {o \in obsLive : lastObsID < o /\ o <= nextObsID}

PageWillBeRead == pc = "readObs" => Page \subseteq NewObsRows

PageArrives ==
    pc \in {"gotObs", "mergeObs"} => \A o \in Page : o \in obsBatch \/ Shows(o)

BatchComplete ==
    \A r \in batch :
        /\ \A o \in r.obs : obsLog[o].tx = r.id
        /\ \A o \in obsLive : obsLog[o].tx = r.id /\ o <= lastObsID => o \in r.obs

BatchOnlyInMerge == batch # {} => pc \in {"gotTx", "mergeTx"}

IngestedShows == \A o \in byObsID : Shows(o) /\ obsLog[o].tx <= lastID

ReachInv ==
    /\ ObservationsReachStore
    /\ PageWillBeRead /\ PageArrives
    /\ BatchComplete /\ BatchOnlyInMerge /\ IngestedShows

\* A packet that stays and loses no observation still shows what it showed.
LEMMA ShowsKept ==
    ASSUME Typed, TxIndexesAgree, NEW o \in 1..Len(obsLog), Shows(o),
           \A x \in 1..Len(obsLog) : obsLog'[x] = obsLog[x],
           obsLog[o].tx \in byTxID' =>
               /\ obsLog[o].tx \in byTxID
               /\ held[obsLog[o].tx].obs \subseteq held'[obsLog[o].tx].obs
    PROVE  Shows(o)'
<1> DEFINE t == obsLog[o].tx
<1> SUFFICES ASSUME t \in byTxID'
             PROVE  obsLog[o].key \in {obsLog'[x].key : x \in held'[t].obs}
  BY DEF Shows, KeysOf
<1>1. t \in DOMAIN held /\ held[t].obs \subseteq held'[t].obs
  BY DEF TxIndexesAgree
<1>2. held[t].obs \subseteq 1..Len(obsLog)
  BY <1>1 DEF Typed, StoreTypeOK
<1>3. PICK x \in held[t].obs : obsLog[o].key = obsLog[x].key
  BY <1>1 DEF Shows, KeysOf
<1> QED
  BY <1>1, <1>2, <1>3

\* Of the rows at or below a page's last row none is left out of the page.
LEMMA PagePrefix ==
    ASSUME DatabaseTypeOK, lastObsID \in Nat, NEW c \in NewObsRows,
           NEW x \in obsLive, lastObsID < x, x <= c
    PROVE  x \in NewObsRows
<1> DEFINE rows == {o \in obsLive : o > lastObsID}
           below(z) == {y \in rows : y < z}
<1>0. NewObsRows = {z \in rows : Cardinality(below(z)) < ObsLimit}
  BY DEF NewObsRows, Lowest
<1>1. /\ rows \subseteq 1..Len(obsLog) /\ Len(obsLog) \in Nat
      /\ x \in rows /\ c \in rows /\ Cardinality(below(c)) < ObsLimit
  <2>1. rows \subseteq 1..Len(obsLog) /\ Len(obsLog) \in Nat
    <3>1. obsLive \subseteq 1..Len(obsLog)
      BY DEF DatabaseTypeOK
    <3>2. obsLog \in Seq(Obs)
      BY DEF DatabaseTypeOK
    <3>3. Len(obsLog) \in Nat
      BY <3>2
    <3> QED
      BY <3>1, <3>3
  <2>2. c \in rows /\ Cardinality(below(c)) < ObsLimit
    BY <1>0
  <2>3. x \in rows
    BY DEF DatabaseTypeOK
  <2> QED
    BY <2>1, <2>2, <2>3
<1>2. below(x) \subseteq below(c)
  BY <1>1
<1>3. IsFiniteSet(below(c))
  <2>1. IsFiniteSet(1..Len(obsLog))
    BY <1>1, FS_Interval
  <2> QED
    BY <1>1, <2>1, FS_Subset
<1>4. Cardinality(below(x)) <= Cardinality(below(c)) /\ IsFiniteSet(below(x))
  BY <1>2, <1>3, FS_Subset
<1>5. Cardinality(below(x)) \in Nat /\ Cardinality(below(c)) \in Nat
  BY <1>3, <1>4, FS_CardinalityType
<1>6. Cardinality(below(x)) < ObsLimit
  BY <1>1, <1>4, <1>5, LimitsAssumption
<1> QED
  BY <1>1, <1>6 DEF NewObsRows, Lowest

\* A row of the page stays in it when rows above it are added or any are deleted.
LEMMA PageStays ==
    ASSUME DatabaseTypeOK, lastObsID \in Nat, lastObsID' = lastObsID,
           NEW x \in NewObsRows, x \in obsLive',
           \A y \in obsLive' : y < x => y \in obsLive
    PROVE  x \in NewObsRows'
<1> DEFINE rows == {o \in obsLive : o > lastObsID}
           below == {y \in rows : y < x}
           rowsN == {o \in obsLive' : o > lastObsID}
           belowN == {y \in rowsN : y < x}
<1>0. NewObsRows = {z \in rows : Cardinality({y \in rows : y < z}) < ObsLimit}
  BY DEF NewObsRows, Lowest
<1>1. /\ rows \subseteq 1..Len(obsLog) /\ Len(obsLog) \in Nat
      /\ x \in rows /\ Cardinality(below) < ObsLimit
  <2>1. rows \subseteq 1..Len(obsLog) /\ Len(obsLog) \in Nat
    <3>1. obsLive \subseteq 1..Len(obsLog)
      BY DEF DatabaseTypeOK
    <3>2. obsLog \in Seq(Obs)
      BY DEF DatabaseTypeOK
    <3>3. Len(obsLog) \in Nat
      BY <3>2
    <3> QED
      BY <3>1, <3>3
  <2>2. x \in rows /\ Cardinality(below) < ObsLimit
    BY <1>0
  <2> QED
    BY <2>1, <2>2
<1>2. belowN \subseteq below
  OBVIOUS
<1>3. IsFiniteSet(below)
  <2>1. IsFiniteSet(1..Len(obsLog))
    BY <1>1, FS_Interval
  <2> QED
    BY <1>1, <2>1, FS_Subset
<1>4. Cardinality(belowN) <= Cardinality(below) /\ IsFiniteSet(belowN)
  BY <1>2, <1>3, FS_Subset
<1>5. Cardinality(belowN) \in Nat /\ Cardinality(below) \in Nat
  BY <1>3, <1>4, FS_CardinalityType
<1>6. Cardinality(belowN) < ObsLimit
  BY <1>1, <1>4, <1>5, LimitsAssumption
<1>7. x \in rowsN
  BY <1>1
<1> QED
  BY <1>6, <1>7 DEF NewObsRows, Lowest

\* Writing rows beyond the cursors keeps every committed row within reach of a
\* cursor.
LEMMA ReachRows ==
    ASSUME Typed, TxIndexesAgree, ReachInv, UNCHANGED <<index, cursors>>,
           \A x \in 1..Len(obsLog) : obsLog'[x] = obsLog[x],
           \A o \in obsLive' : o \in obsLive \/ (o \in Nat /\ o > Len(obsLog))
    PROVE  ReachInv'
<1>1. UNCHANGED <<held, byTxID, byObsID, pc, lastID, lastObsID, nextObsID, batch, obsBatch>>
  BY DEF index, cursors
<1>2. /\ obsLive \subseteq 1..Len(obsLog) /\ byObsID \subseteq 1..Len(obsLog)
      /\ lastObsID \in 0..Len(obsLog) /\ nextObsID \in 0..Len(obsLog)
      /\ \A r \in batch : r.obs \subseteq 1..Len(obsLog)
  BY DEF Typed, DatabaseTypeOK, StoreTypeOK, PollerTypeOK
<1>3. Len(obsLog) \in Nat
  <2>1. obsLog \in Seq(Obs)
    BY DEF Typed, DatabaseTypeOK
  <2> QED
    BY <2>1
<1>4. \A o \in 1..Len(obsLog) : Shows(o) => Shows(o)'
  BY <1>1, ShowsKept
<1>5. \A o \in obsLive' : o <= lastObsID \/ o <= nextObsID => o \in obsLive
  BY <1>2, <1>3
<1>6. ObservationsReachStore'
  <2> SUFFICES ASSUME NEW o \in obsLive', o <= lastObsID PROVE Shows(o)'
    BY <1>1 DEF ObservationsReachStore, Shows
  <2>1. o \in obsLive /\ Shows(o)
    BY <1>5 DEF ReachInv, ObservationsReachStore, Shows
  <2> QED
    BY <1>2, <1>4, <2>1
<1>7. Page' \subseteq Page
  BY <1>1, <1>5 DEF Page
<1>8. PageWillBeRead'
  <2> SUFFICES ASSUME pc = "readObs", NEW x \in Page' PROVE x \in NewObsRows'
    BY <1>1 DEF PageWillBeRead
  <2>1. x \in NewObsRows
    BY <1>7 DEF ReachInv, PageWillBeRead
  <2>2. x \in obsLive' /\ x <= nextObsID /\ x \in obsLive
    BY <1>1, <1>7 DEF Page
  <2>3. \A y \in obsLive' : y < x => y \in obsLive
    BY <1>2, <1>3, <2>2
  <2>4. lastObsID \in Nat
    BY <1>2
  <2> QED
    BY <1>1, <2>1, <2>2, <2>3, <2>4, PageStays DEF Typed
<1>9. PageArrives'
  <2> SUFFICES ASSUME pc \in {"gotObs", "mergeObs"}, NEW x \in Page'
               PROVE  x \in obsBatch \/ Shows(x)'
    BY <1>1 DEF PageArrives
  <2>1. x \in Page /\ x \in 1..Len(obsLog)
    BY <1>2, <1>7 DEF Page
  <2> QED
    BY <1>4, <2>1 DEF ReachInv, PageArrives
<1>10. BatchComplete'
  <2> SUFFICES ASSUME NEW r \in batch
               PROVE  /\ \A o \in r.obs : obsLog'[o].tx = r.id
                      /\ \A o \in obsLive' :
                            obsLog'[o].tx = r.id /\ o <= lastObsID => o \in r.obs
    BY <1>1 DEF BatchComplete
  <2>1. \A o \in r.obs : obsLog'[o].tx = r.id
    BY <1>2 DEF ReachInv, BatchComplete
  <2>2. ASSUME NEW o \in obsLive', obsLog'[o].tx = r.id, o <= lastObsID
        PROVE  o \in r.obs
    <3>1. o \in obsLive /\ obsLog[o].tx = r.id
      BY <1>2, <1>5, <2>2
    <3> QED
      BY <2>2, <3>1 DEF ReachInv, BatchComplete
  <2> QED
    BY <2>1, <2>2
<1>11. BatchOnlyInMerge'
  BY <1>1 DEF ReachInv, BatchOnlyInMerge
<1>12. IngestedShows'
  BY <1>1, <1>2, <1>4 DEF ReachInv, IngestedShows
<1> QED
  BY <1>6, <1>8, <1>9, <1>10, <1>11, <1>12 DEF ReachInv

\* The rows of a new packet that are not yet indexed lie ahead of the
\* observation cursor.
LEMMA ReachMergeNewTx ==
    ASSUME Typed, IndexInv, ReachInv, NEW r \in batch, MergeNewTx(r)
    PROVE  ReachInv'
<1>1. /\ UNCHANGED <<obsLog, obsLive, lastObsID, nextObsID, obsBatch>>
      /\ pc' = "mergeTx" /\ lastID' = r.id /\ batch' \subseteq batch
      /\ byTxID' = byTxID \cup {r.id}
  BY DEF MergeNewTx, db
<1>2. /\ obsLive \subseteq 1..Len(obsLog) /\ byObsID \subseteq 1..Len(obsLog)
      /\ r.obs \subseteq 1..Len(obsLog) /\ lastID \in Nat /\ r.id \in Nat
  BY DEF Typed, DatabaseTypeOK, StoreTypeOK, PollerTypeOK
<1> PICK kept \in KeepChoices(r.obs, {}) : \E path \in BestPaths(kept, NoPath) :
        /\ held' = [i \in DOMAIN held \cup {r.id} |->
                       IF i = r.id
                       THEN [seen |-> r.seen, obs |-> kept, path |-> path]
                       ELSE held[i]]
        /\ byObsID' = byObsID \cup kept
  BY DEF MergeNewTx
<1>3. held'[r.id].obs = kept
  OBVIOUS
<1>4. /\ KeysOf(kept) = KeysOf(r.obs) /\ kept \subseteq r.obs
      /\ byObsID' = byObsID \cup kept
  BY DEF KeepChoices
<1>5. \A o \in r.obs : Shows(o)' /\ obsLog[o].tx = r.id
  <2> TAKE o \in r.obs
  <2>1. obsLog[o].tx = r.id
    BY DEF ReachInv, BatchComplete
  <2>2. obsLog[o].key \in KeysOf(kept)
    BY <1>4 DEF KeysOf
  <2>3. KeysOf(kept)' = KeysOf(kept)
    BY <1>1 DEF KeysOf
  <2>4. KeysOf(held[obsLog[o].tx].obs)' = KeysOf(kept)
    BY <1>1, <1>3, <2>1, <2>3 DEF KeysOf
  <2> QED
    BY <1>1, <2>1, <2>2, <2>4 DEF Shows
<1>6. \A o \in 1..Len(obsLog) : Shows(o) /\ obsLog[o].tx # r.id => Shows(o)'
  <2> SUFFICES ASSUME NEW o \in 1..Len(obsLog), Shows(o), obsLog[o].tx # r.id
               PROVE  Shows(o)'
    OBVIOUS
  <2>1. \A x \in 1..Len(obsLog) : obsLog'[x] = obsLog[x]
    BY <1>1
  <2>2. obsLog[o].tx \in byTxID' =>
            /\ obsLog[o].tx \in byTxID
            /\ held[obsLog[o].tx].obs \subseteq held'[obsLog[o].tx].obs
    BY <1>1 DEF IndexInv, TxIndexesAgree
  <2> QED
    BY <2>1, <2>2, ShowsKept DEF IndexInv
<1>7. ObservationsReachStore'
  <2> SUFFICES ASSUME NEW o \in obsLive, o <= lastObsID PROVE Shows(o)'
    BY <1>1 DEF ObservationsReachStore, Shows
  <2>1. CASE obsLog[o].tx = r.id
    BY <1>5, <2>1 DEF ReachInv, BatchComplete
  <2>2. CASE obsLog[o].tx # r.id
    BY <1>2, <1>6, <2>2 DEF ReachInv, ObservationsReachStore, Shows
  <2> QED
    BY <2>1, <2>2
<1>8. PageWillBeRead' /\ PageArrives' /\ BatchOnlyInMerge'
  BY <1>1 DEF PageWillBeRead, PageArrives, BatchOnlyInMerge
<1>9. BatchComplete'
  BY <1>1 DEF ReachInv, BatchComplete
<1>10. IngestedShows'
  <2> SUFFICES ASSUME NEW o \in byObsID \cup kept
               PROVE  Shows(o)' /\ obsLog[o].tx <= r.id
    BY <1>1, <1>4 DEF IngestedShows
  <2>1. CASE o \in kept
    BY <1>2, <1>4, <1>5, <2>1
  <2>2. CASE o \in byObsID
    <3>1. Shows(o) /\ obsLog[o].tx <= lastID
      BY <2>2 DEF ReachInv, IngestedShows
    <3>2. r.id > lastID
      BY DEF IndexInv, BatchAhead
    <3>3. obsLog[o] \in Obs
      BY <1>2, <2>2 DEF Typed, DatabaseTypeOK
    <3>4. obsLog[o].tx \in Nat
      BY <3>3 DEF Obs
    <3>5. obsLog[o].tx # r.id /\ obsLog[o].tx <= r.id
      BY <1>2, <3>1, <3>2, <3>4
    <3> QED
      BY <1>2, <1>6, <2>2, <3>1, <3>5
  <2> QED
    BY <2>1, <2>2
<1> QED
  BY <1>7, <1>8, <1>9, <1>10 DEF ReachInv

\* A packet that is already there gets more observations: nothing disappears.
LEMMA ShowsMore ==
    ASSUME Typed, TxIndexesAgree, UNCHANGED <<obsLog, byTxID>>,
           \A t \in DOMAIN held : held[t].obs \subseteq held'[t].obs
    PROVE  \A o \in 1..Len(obsLog) : Shows(o) => Shows(o)'
<1> SUFFICES ASSUME NEW o \in 1..Len(obsLog), Shows(o) PROVE Shows(o)'
  OBVIOUS
<1>1. obsLog[o].tx \in byTxID' =>
          /\ obsLog[o].tx \in byTxID
          /\ held[obsLog[o].tx].obs \subseteq held'[obsLog[o].tx].obs
  BY DEF TxIndexesAgree
<1> QED
  BY <1>1, ShowsKept

\* A known hash takes over its rows; the others stay within reach.
LEMMA ReachMergeKnownHash ==
    ASSUME Typed, IndexInv, ReachInv, NEW r \in batch, MergeKnownHash(r)
    PROVE  ReachInv'
<1>1. /\ UNCHANGED <<obsLog, obsLive, lastObsID, nextObsID, obsBatch, byTxID>>
      /\ pc' = "mergeTx" /\ lastID' = r.id /\ batch' \subseteq batch
  BY DEF MergeKnownHash, db
<1>2. /\ obsLive \subseteq 1..Len(obsLog) /\ byObsID \subseteq 1..Len(obsLog)
      /\ lastID \in Nat /\ r.id \in Nat
  BY DEF Typed, DatabaseTypeOK, StoreTypeOK, PollerTypeOK
<1> DEFINE i == byHash[txHash[r.id]]
<1> PICK kept \in KeepChoices(r.obs, KeysOf(held[i].obs)) :
        /\ held' = [held EXCEPT ![i].obs = @ \cup kept]
        /\ byObsID' = byObsID \cup kept
  BY DEF MergeKnownHash
<1>3. \A t \in DOMAIN held : held[t].obs \subseteq held'[t].obs
  <2> HIDE DEF i
  <2> TAKE t \in DOMAIN held
  <2>1. held[t] \in [seen : Nat, obs : SUBSET (1..Len(obsLog)), path : Paths]
    BY DEF Typed, StoreTypeOK
  <2>2. CASE t = i
    BY <2>1, <2>2
  <2>3. CASE t # i
    BY <2>3
  <2> QED
    BY <2>2, <2>3
<1>4. \A o \in 1..Len(obsLog) : Shows(o) => Shows(o)'
  BY <1>1, <1>3, ShowsMore DEF IndexInv
<1>5. ObservationsReachStore'
  BY <1>1, <1>2, <1>4 DEF ReachInv, ObservationsReachStore, Shows
<1>6. PageWillBeRead' /\ PageArrives' /\ BatchOnlyInMerge'
  BY <1>1 DEF PageWillBeRead, PageArrives, BatchOnlyInMerge
<1>7. BatchComplete'
  BY <1>1 DEF ReachInv, BatchComplete
<1>8. IngestedShows'
  <2> SUFFICES ASSUME NEW o \in byObsID \cup kept
               PROVE  Shows(o)' /\ obsLog[o].tx <= r.id
    BY <1>1 DEF IngestedShows
  <2>1. r.id > lastID /\ r.id \notin byTxID
    <3>1. r.id > lastID
      BY DEF IndexInv, BatchAhead
    <3>2. \A t \in DOMAIN held : t <= lastID /\ t \in Nat
      BY DEF IndexInv, HeldBehind, Typed, StoreTypeOK
    <3>3. byTxID = DOMAIN held
      BY DEF IndexInv, TxIndexesAgree
    <3> QED
      BY <1>2, <3>1, <3>2, <3>3
  <2>2. CASE o \in kept
    <3>1. o \in r.obs
      BY <2>2 DEF KeepChoices
    <3>2. obsLog[o].tx = r.id
      BY <3>1 DEF ReachInv, BatchComplete
    <3> QED
      BY <1>1, <1>2, <2>1, <3>2 DEF Shows
  <2>3. CASE o \in byObsID
    <3>1. Shows(o) /\ obsLog[o].tx <= lastID
      BY <2>3 DEF ReachInv, IngestedShows
    <3>2. obsLog[o] \in Obs
      BY <1>2, <2>3 DEF Typed, DatabaseTypeOK
    <3>3. obsLog[o].tx \in Nat
      BY <3>2 DEF Obs
    <3>4. obsLog[o].tx <= r.id
      BY <1>2, <2>1, <3>1, <3>3
    <3> QED
      BY <1>2, <1>4, <2>3, <3>1, <3>4
  <2> QED
    BY <2>2, <2>3
<1> QED
  BY <1>5, <1>6, <1>7, <1>8 DEF ReachInv

\* A late observation that was merged is indexed before the cursor passes it.
LEMMA ReachMergeObservation ==
    ASSUME Typed, IndexInv, ReachInv, NEW o \in obsBatch, MergeObservation(o)
    PROVE  ReachInv'
<1>1. /\ UNCHANGED <<obsLog, obsLive, lastID, lastObsID, nextObsID, batch, byTxID>>
      /\ pc' = "mergeObs" /\ pc \in {"gotObs", "mergeObs"}
      /\ obsBatch' = obsBatch \ {o} /\ byObsID' = byObsID \cup {o}
  BY DEF MergeObservation, db
<1>2. /\ obsLive \subseteq 1..Len(obsLog) /\ byObsID \subseteq 1..Len(obsLog)
      /\ o \in 1..Len(obsLog)
  BY DEF Typed, DatabaseTypeOK, StoreTypeOK, PollerTypeOK
<1> DEFINE t == obsLog[o].tx
           all == held[t].obs \cup {o}
<1> PICK path : held' = [held EXCEPT ![t].obs = all, ![t].path = path]
  BY DEF MergeObservation
<1>3. t \in byTxID /\ t \in DOMAIN held
  BY DEF MergeObservation, Skipped, IndexInv, TxIndexesAgree
<1>4. held'[t].obs = all
  <2>1. held[t] \in [seen : Nat, obs : SUBSET (1..Len(obsLog)), path : Paths]
    BY <1>3 DEF Typed, StoreTypeOK
  <2> HIDE DEF all, t
  <2> QED
    BY <1>3, <2>1
<1>5. \A u \in DOMAIN held : held[u].obs \subseteq held'[u].obs
  <2> TAKE u \in DOMAIN held
  <2>1. CASE u = t
    BY <1>4, <2>1
  <2>2. CASE u # t
    <3> HIDE DEF all, t
    <3> QED
      BY <2>2
  <2> QED
    BY <2>1, <2>2
<1>6. \A x \in 1..Len(obsLog) : Shows(x) => Shows(x)'
  BY <1>1, <1>5, ShowsMore DEF IndexInv
<1>7. Shows(o)'
  BY <1>1, <1>4 DEF Shows, KeysOf
<1>8. ObservationsReachStore'
  BY <1>1, <1>2, <1>6 DEF ReachInv, ObservationsReachStore, Shows
<1>9. PageWillBeRead' /\ BatchOnlyInMerge'
  BY <1>1 DEF PageWillBeRead, ReachInv, BatchOnlyInMerge
<1>10. PageArrives'
  <2>1. Page' = Page
    BY <1>1 DEF Page
  <2> SUFFICES ASSUME NEW x \in Page PROVE x \in obsBatch \ {o} \/ Shows(x)'
    BY <1>1, <2>1 DEF PageArrives
  <2>2. x \in obsBatch \/ Shows(x)
    BY <1>1 DEF ReachInv, PageArrives
  <2>3. x \in 1..Len(obsLog)
    BY <1>2 DEF Page
  <2> QED
    BY <1>6, <1>7, <2>2, <2>3
<1>11. BatchComplete'
  BY <1>1 DEF ReachInv, BatchComplete
<1>12. IngestedShows'
  <2>1. t <= lastID
    BY <1>3 DEF IndexInv, HeldBehind
  <2> QED
    BY <1>1, <1>2, <1>6, <1>7, <2>1 DEF ReachInv, IngestedShows
<1> QED
  BY <1>8, <1>9, <1>10, <1>11, <1>12 DEF ReachInv

\* What is evicted is not owed to anybody.
LEMMA ReachEvict ==
    ASSUME Typed, IndexInv, ReachInv, RunEviction
    PROVE  ReachInv'
<1> PICK n \in 1..Len(packets) : Evict(n)
  BY DEF RunEviction
<1>1. UNCHANGED <<obsLog, obsLive, pc, lastID, lastObsID, nextObsID, batch, obsBatch>>
  BY DEF RunEviction, db, cursors
<1> DEFINE gone == {packets[i] : i \in 1..n}
<1>2. /\ held' = [t \in DOMAIN held \ gone |-> held[t]]
      /\ byTxID' = byTxID \ gone /\ byObsID' \subseteq byObsID
  BY DEF Evict
<1> HIDE DEF gone
<1>3. /\ obsLive \subseteq 1..Len(obsLog) /\ byObsID \subseteq 1..Len(obsLog)
  BY DEF Typed, DatabaseTypeOK, StoreTypeOK
<1>4. \A o \in 1..Len(obsLog) : Shows(o) => Shows(o)'
  <2> SUFFICES ASSUME NEW o \in 1..Len(obsLog), Shows(o) PROVE Shows(o)'
    OBVIOUS
  <2>1. obsLog[o].tx \in byTxID' =>
            /\ obsLog[o].tx \in byTxID
            /\ held[obsLog[o].tx].obs \subseteq held'[obsLog[o].tx].obs
    BY <1>2 DEF IndexInv, TxIndexesAgree
  <2> QED
    BY <1>1, <2>1, ShowsKept DEF IndexInv
<1>5. ObservationsReachStore'
  BY <1>1, <1>3, <1>4 DEF ReachInv, ObservationsReachStore, Shows
<1>6. Page' = Page /\ NewObsRows' = NewObsRows
  BY <1>1 DEF Page, NewObsRows, Lowest
<1>7. PageWillBeRead' /\ BatchOnlyInMerge' /\ BatchComplete'
  BY <1>1, <1>6 DEF ReachInv, PageWillBeRead, BatchOnlyInMerge, BatchComplete
<1>8. PageArrives'
  <2>1. Page \subseteq 1..Len(obsLog)
    BY <1>3 DEF Page
  <2> QED
    BY <1>1, <1>4, <1>6, <2>1 DEF ReachInv, PageArrives
<1>9. IngestedShows'
  BY <1>1, <1>2, <1>3, <1>4 DEF ReachInv, IngestedShows
<1> QED
  BY <1>5, <1>7, <1>8, <1>9 DEF ReachInv

\* The steps of the poller that only read or end a page.
LEMMA ReachReadSteps ==
    ASSUME Typed, IndexInv, ReachInv,
           \/ ReadTransmissions \/ ReadNextObsID \/ ReadObservations
           \/ (\E o \in obsBatch : SkipObservation(o)) \/ FinishPoll
    PROVE  ReachInv'
<1>1. UNCHANGED <<obsLog, obsLive, held, byTxID, byObsID, lastID>>
  BY DEF ReadTransmissions, ReadNextObsID, ReadObservations, SkipObservation,
         FinishPoll, db, index
<1>2. \A o : Shows(o)' = Shows(o)
  BY <1>1 DEF Shows, KeysOf
<1>3. IngestedShows'
  BY <1>1, <1>2 DEF ReachInv, IngestedShows
<1>4. lastObsID \in Nat /\ nextObsID \in Nat /\ obsLive \subseteq Nat
  BY DEF Typed, PollerTypeOK, DatabaseTypeOK
<1>5. CASE ReadTransmissions
  <2>1. UNCHANGED <<lastObsID, nextObsID, obsBatch>> /\ pc' = "gotTx"
    BY <1>5 DEF ReadTransmissions
  <2>2. ObservationsReachStore' /\ PageWillBeRead' /\ PageArrives' /\ BatchOnlyInMerge'
    BY <1>1, <1>2, <2>1 DEF ReachInv, ObservationsReachStore, Shows, PageWillBeRead,
                            PageArrives, BatchOnlyInMerge
  <2>3. BatchComplete'
    <3> DEFINE page == Lowest({t \in txLive : t > lastID}, TxLimit)
    <3> SUFFICES ASSUME NEW r \in batch'
                 PROVE  /\ \A o \in r.obs : obsLog[o].tx = r.id
                        /\ \A o \in obsLive : obsLog[o].tx = r.id => o \in r.obs
      BY <1>1 DEF BatchComplete
    <3> PICK t \in page : r = [id |-> t, seen |-> txSeen[t], obs |-> Joined(t)]
      BY <1>5 DEF ReadTransmissions
    <3> HIDE DEF page
    <3>1. r.id = t /\ r.obs = Joined(t)
      OBVIOUS
    <3> QED
      BY <3>1 DEF Joined
  <2> QED
    BY <1>3, <2>2, <2>3 DEF ReachInv
<1>6. CASE ReadNextObsID
  <2>1. UNCHANGED <<lastObsID, batch, obsBatch>> /\ pc' = "readObs" /\ batch = {}
    BY <1>6 DEF ReadNextObsID
  <2>2. PICK c : IsNextCursor(c) /\ nextObsID' = c
    BY <1>6 DEF ReadNextObsID
  <2>3. NewObsRows' = NewObsRows
    BY <1>1, <2>1 DEF NewObsRows, Lowest
  <2>4. PageWillBeRead'
    <3> SUFFICES ASSUME NEW x \in obsLive, lastObsID < x, x <= c
                 PROVE  x \in NewObsRows
      BY <1>1, <2>1, <2>2, <2>3 DEF PageWillBeRead, Page
    <3>1. c \in NewObsRows
      BY <1>4, <2>2 DEF IsNextCursor
    <3> QED
      BY <1>4, <3>1, PagePrefix DEF Typed
  <2>5. ObservationsReachStore' /\ PageArrives' /\ BatchOnlyInMerge' /\ BatchComplete'
    BY <1>1, <1>2, <2>1 DEF ReachInv, ObservationsReachStore, Shows, PageArrives,
                            BatchOnlyInMerge, BatchComplete
  <2> QED
    BY <1>3, <2>4, <2>5 DEF ReachInv
<1>7. CASE ReadObservations
  <2>1. /\ UNCHANGED <<lastObsID, nextObsID, batch>> /\ pc' = "gotObs"
        /\ pc = "readObs" /\ obsBatch' = NewObsRows
    BY <1>7 DEF ReadObservations
  <2>2. Page' = Page
    BY <1>1, <2>1 DEF Page
  <2>3. PageArrives'
    BY <2>1, <2>2 DEF ReachInv, PageWillBeRead, PageArrives
  <2>4. batch = {}
    BY <2>1 DEF ReachInv, BatchOnlyInMerge
  <2>5. ObservationsReachStore' /\ PageWillBeRead' /\ BatchOnlyInMerge' /\ BatchComplete'
    BY <1>1, <1>2, <2>1, <2>4 DEF ReachInv, ObservationsReachStore, Shows,
                            PageWillBeRead, BatchOnlyInMerge, BatchComplete
  <2> QED
    BY <1>3, <2>3, <2>5 DEF ReachInv
<1>8. CASE \E o \in obsBatch : SkipObservation(o)
  <2> PICK o \in obsBatch : SkipObservation(o)
    BY <1>8
  <2>1. /\ UNCHANGED <<lastObsID, nextObsID, batch>> /\ pc' = "mergeObs"
        /\ pc \in {"gotObs", "mergeObs"} /\ obsBatch' = obsBatch \ {o}
        /\ Skipped(o)
    BY DEF SkipObservation
  <2>2. Page' = Page
    BY <1>1, <2>1 DEF Page
  <2>3. Shows(o)
    <3>1. CASE o \in byObsID
      BY <3>1 DEF ReachInv, IngestedShows
    <3>2. CASE o \notin byObsID
      BY <2>1, <3>2 DEF Skipped, Shows
    <3> QED
      BY <3>1, <3>2
  <2>4. PageArrives'
    BY <1>2, <2>1, <2>2, <2>3 DEF ReachInv, PageArrives
  <2>5. ObservationsReachStore' /\ PageWillBeRead' /\ BatchOnlyInMerge' /\ BatchComplete'
    BY <1>1, <1>2, <2>1 DEF ReachInv, ObservationsReachStore, Shows,
                            PageWillBeRead, BatchOnlyInMerge, BatchComplete
  <2> QED
    BY <1>3, <2>4, <2>5 DEF ReachInv
<1>9. CASE FinishPoll
  <2>1. /\ UNCHANGED <<nextObsID, batch, obsBatch>> /\ pc' = "idle"
        /\ pc \in {"gotObs", "mergeObs"} /\ obsBatch = {} /\ lastObsID' = nextObsID
    BY <1>9 DEF FinishPoll
  <2>2. batch = {}
    BY <2>1 DEF ReachInv, BatchOnlyInMerge
  <2>3. ObservationsReachStore'
    <3> SUFFICES ASSUME NEW o \in obsLive, o <= nextObsID PROVE Shows(o)
      BY <1>1, <1>2, <2>1 DEF ObservationsReachStore, Shows
    <3>1. CASE o <= lastObsID
      BY <3>1 DEF ReachInv, ObservationsReachStore, Shows
    <3>2. CASE lastObsID < o
      BY <2>1, <3>2 DEF ReachInv, PageArrives, Page
    <3> QED
      BY <1>4, <3>1, <3>2
  <2>4. PageWillBeRead' /\ PageArrives' /\ BatchOnlyInMerge' /\ BatchComplete'
    BY <2>1, <2>2 DEF PageWillBeRead, PageArrives, BatchOnlyInMerge, BatchComplete
  <2> QED
    BY <1>3, <2>3, <2>4 DEF ReachInv
<1> QED
  BY <1>5, <1>6, <1>7, <1>8, <1>9

\* As long as no query fails, every step keeps each row indexed, evicted or
\* ahead of the cursor.
LEMMA NextReachInv ==
    ASSUME MaxErrors = 0, Typed, IndexInv, ReachInv, [Next]_vars
    PROVE  ReachInv'
<1>1. CASE Ingestor \/ Tick
  <2>1. UNCHANGED <<index, cursors>>
    BY <1>1 DEF Ingestor, Tick, InsertTx, HearAgain, InsertObservation,
                LoseObservation, PruneOldPackets
  <2>2. obsLog \in Seq(Obs) /\ Len(obsLog) \in Nat
    BY DEF Typed, DatabaseTypeOK
  <2>3. \/ obsLog' = obsLog /\ obsLive' \subseteq obsLive
        \/ /\ obsLog' = Append(obsLog, pending[1])
           /\ obsLive' = obsLive \cup {Len(obsLog) + 1}
    BY <1>1 DEF Ingestor, Tick, InsertTx, HearAgain, InsertObservation,
                LoseObservation, PruneOldPackets, db
  <2>4. \A x \in 1..Len(obsLog) : obsLog'[x] = obsLog[x]
    BY <2>2, <2>3
  <2>5. \A o \in obsLive' : o \in obsLive \/ (o \in Nat /\ o > Len(obsLog))
    BY <2>2, <2>3
  <2> QED
    BY <2>1, <2>4, <2>5, ReachRows DEF IndexInv
<1>2. CASE Poll
  BY <1>2, ReachReadSteps, ReachMergeNewTx, ReachMergeKnownHash, ReachMergeObservation
     DEF Poll, MergeTx, MergeObs
<1>3. CASE QueryFails
  <2>1. errors \in 0..0 /\ errors < 0
    BY <1>3 DEF QueryFails, Typed, PollerTypeOK
  <2> QED
    BY <2>1
<1>4. CASE RunEviction
  BY <1>4, ReachEvict
<1>5. CASE UNCHANGED vars
  <2>1. UNCHANGED <<index, cursors, obsLog, obsLive>>
    BY <1>5 DEF vars, db
  <2> QED
    BY <2>1, ReachRows DEF IndexInv
<1> QED
  BY <1>1, <1>2, <1>3, <1>4, <1>5 DEF Next

\* While no query fails, the observation cursor never passes an observation of
\* a packet in the store that the packet does not show: for any page sizes,
\* with commits, prunings and evictions between the two queries of a tick.
THEOREM ObservationsReachStoreThm ==
    ASSUME MaxErrors = 0 PROVE Spec => []ObservationsReachStore
<1>1. Init => IndexInv
  BY DEF Init, IndexInv, BatchAhead, HeldBehind, TxIndexesAgree
<1>2. Init => ReachInv
  BY DEF Init, ReachInv, ObservationsReachStore, PageWillBeRead, PageArrives,
         BatchComplete, BatchOnlyInMerge, IngestedShows
<1>3. Typed /\ IndexInv /\ ReachInv /\ [Next]_vars => ReachInv'
  BY NextReachInv
<1>4. ReachInv => ObservationsReachStore
  BY DEF ReachInv
<1> QED
  BY <1>1, <1>2, <1>3, <1>4, InitTyped, NextTyped, NextIndexInv, PTL DEF Spec

-----------------------------------------------------------------------------
(* The indexes of observations and paths, and the broadcasts.  The          *)
(* strengthening: the rows read with a transmission are its own, and what   *)
(* is indexed or sent belongs to transmissions behind the cursor, so that   *)
(* the observations of a new packet are neither indexed nor sent yet.       *)

BatchOwn == \A r \in batch : \A o \in r.obs : obsLog[o].tx = r.id
ObsBehind == \A o \in byObsID : obsLog[o].tx <= lastID
SentBehind ==
    \A o \in sentOnce :
        /\ obsLog[o].tx <= lastID
        /\ obsLog[o].tx \in DOMAIN held => o \in held[obsLog[o].tx].obs

Showing(p) == {t \in DOMAIN held : held[t].path = p}
LongShown == {t \in DOMAIN held : held[t].path \in LongPaths}
TotalsTyped ==
    /\ totalObs \in Nat /\ spTotalPaths \in Nat /\ trackedBytes \in Nat
    /\ spIndex \in [LongPaths -> Nat]
    /\ Cardinality(LongShown) <= spTotalPaths

StoreInv ==
    /\ BatchOwn /\ ObsBehind /\ SentBehind /\ TotalsTyped
    /\ ObsIndexesAgree /\ SubpathIndexExact /\ ShowsLongestPath /\ BroadcastOnce

\* The empty store has no observation, no subpath and nothing sent.
LEMMA StoreStarts == Init => StoreInv
<1> SUFFICES ASSUME Init PROVE StoreInv
  OBVIOUS
<1>1. /\ held = <<>> /\ DOMAIN held = {} /\ byObsID = {} /\ batch = {} /\ sentOnce = {} /\ sentAgain = {}
      /\ totalObs = 0 /\ spTotalPaths = 0 /\ trackedBytes = 0 /\ spIndex = [p \in LongPaths |-> 0]
  BY DEF Init
<1>2. LongShown = {} /\ \A p \in LongPaths : {t \in DOMAIN held : held[t].path = p} = {}
  BY <1>1 DEF LongShown
<1>3. Cardinality({}) = 0
  BY FS_EmptySet
<1> QED
  BY <1>1, <1>2, <1>3 DEF StoreInv, BatchOwn, ObsBehind, SentBehind, TotalsTyped, ObsIndexesAgree,
     SubpathIndexExact, ShowsLongestPath, BroadcastOnce

\* What the store holds is finite.
LEMMA HeldFinite ==
    ASSUME Typed
    PROVE  /\ IsFiniteSet(DOMAIN held) /\ IsFiniteSet(byObsID) /\ IsFiniteSet(LongShown)
           /\ \A p : IsFiniteSet(Showing(p))
           /\ \A t \in DOMAIN held : IsFiniteSet(held[t].obs)
<1>1. Len(txHash) \in Nat /\ Len(obsLog) \in Nat
  BY DEF Typed, DatabaseTypeOK
<1>2. IsFiniteSet(1..Len(txHash)) /\ IsFiniteSet(1..Len(obsLog))
  BY <1>1, FS_Interval
<1>3. DOMAIN held \subseteq 1..Len(txHash) /\ byObsID \subseteq 1..Len(obsLog)
      /\ \A t \in DOMAIN held : held[t].obs \subseteq 1..Len(obsLog)
  BY DEF Typed, StoreTypeOK
<1>4. IsFiniteSet(DOMAIN held) /\ IsFiniteSet(byObsID) /\ \A t \in DOMAIN held : IsFiniteSet(held[t].obs)
  BY <1>2, <1>3, FS_Subset
<1>5. LongShown \subseteq DOMAIN held /\ \A p : Showing(p) \subseteq DOMAIN held
  BY DEF LongShown, Showing
<1> QED
  BY <1>4, <1>5, FS_Subset

\* Every row names the packet it belongs to by a number.
LEMMA RowsOfTx == ASSUME Typed PROVE \A o \in 1..Len(obsLog) : obsLog[o].tx \in Nat
<1>1. \A o \in 1..Len(obsLog) : obsLog[o] \in Obs
  BY DEF Typed, DatabaseTypeOK
<1> QED
  BY <1>1 DEF Obs

\* Writing rows leaves the store as it is.
LEMMA StoreRows ==
    ASSUME Typed, StoreInv, UNCHANGED <<index, cursors, sent>>,
           \A x \in 1..Len(obsLog) : obsLog'[x] = obsLog[x]
    PROVE  StoreInv'
<1>1. /\ UNCHANGED <<held, byObsID, totalObs, spIndex, spTotalPaths, trackedBytes, lastID, batch, sentOnce, sentAgain>>
  BY DEF index, cursors, sent
<1>2. /\ byObsID \subseteq 1..Len(obsLog) /\ sentOnce \subseteq 1..Len(obsLog)
      /\ \A r \in batch : r.obs \subseteq 1..Len(obsLog)
      /\ \A t \in DOMAIN held : held[t].obs \subseteq 1..Len(obsLog)
  BY DEF Typed, StoreTypeOK, PollerTypeOK
<1>3. BatchOwn' /\ ObsBehind' /\ SentBehind' /\ BroadcastOnce'
  BY <1>1, <1>2 DEF StoreInv, BatchOwn, ObsBehind, SentBehind, BroadcastOnce
<1>4. TotalsTyped' /\ ObsIndexesAgree' /\ SubpathIndexExact'
  BY <1>1 DEF StoreInv, TotalsTyped, LongShown, ObsIndexesAgree, SubpathIndexExact
<1>5. ShowsLongestPath'
  <2> SUFFICES ASSUME NEW t \in DOMAIN held, held[t].obs # {}, \A o \in held[t].obs : obsLog'[o].tx = t
               PROVE  held[t].path \in {obsLog'[o].key.path : o \in held[t].obs}
                      /\ \A o \in held[t].obs : PathLen[obsLog'[o].key.path] <= PathLen[held[t].path]
    BY <1>1 DEF ShowsLongestPath, Longest
  <2>1. \A o \in held[t].obs : obsLog'[o] = obsLog[o]
    BY <1>2
  <2>2. held[t].path \in Longest(held[t].obs)
    BY <2>1 DEF StoreInv, ShowsLongestPath
  <2> QED
    BY <2>1, <2>2 DEF Longest
<1> QED
  BY <1>3, <1>4, <1>5 DEF StoreInv

\* The steps that only read, skip or finish.
LEMMA StoreReads ==
    ASSUME Typed, StoreInv,
           \/ ReadTransmissions \/ ReadNextObsID \/ ReadObservations
           \/ (\E o \in obsBatch : SkipObservation(o)) \/ FinishPoll \/ QueryFails
    PROVE  StoreInv'
<1>1. UNCHANGED <<obsLog, held, byObsID, totalObs, spIndex, spTotalPaths, trackedBytes, lastID, sentOnce, sentAgain>>
  BY DEF ReadTransmissions, ReadNextObsID, ReadObservations, SkipObservation, FinishPoll, QueryFails, db, index, sent
<1>2. BatchOwn'
  <2>1. CASE ReadTransmissions
    <3> DEFINE page == Lowest({t \in txLive : t > lastID}, TxLimit)
    <3>1. batch' = {[id |-> t, seen |-> txSeen[t], obs |-> Joined(t)] : t \in page}
      BY <2>1 DEF ReadTransmissions
    <3> HIDE DEF page
    <3>2. ASSUME NEW r \in batch', NEW o \in r.obs PROVE obsLog[o].tx = r.id
      <4>1. PICK t \in page : r = [id |-> t, seen |-> txSeen[t], obs |-> Joined(t)]
        BY <3>1, <3>2
      <4>2. r.id = t /\ r.obs = Joined(t)
        BY <4>1
      <4> QED
        BY <3>2, <4>2 DEF Joined
    <3> QED
      BY <1>1, <3>2 DEF BatchOwn
  <2>2. CASE batch' \subseteq batch
    BY <1>1, <2>2 DEF StoreInv, BatchOwn
  <2>3. ReadTransmissions \/ batch' \subseteq batch
    BY DEF ReadNextObsID, ReadObservations, SkipObservation, FinishPoll, QueryFails
  <2> QED
    BY <2>1, <2>2, <2>3
<1>3. ObsBehind' /\ SentBehind' /\ BroadcastOnce' /\ TotalsTyped' /\ ObsIndexesAgree' /\ SubpathIndexExact'
  BY <1>1 DEF StoreInv, ObsBehind, SentBehind, BroadcastOnce, TotalsTyped, LongShown, ObsIndexesAgree, SubpathIndexExact
<1>4. ShowsLongestPath'
  BY <1>1 DEF StoreInv, ShowsLongestPath, Longest
<1> QED
  BY <1>2, <1>3, <1>4 DEF StoreInv

\* The indexed observations are those of the packets held.
LEMMA IndexedAre ==
    ASSUME NEW B, NEW h, \A o \in B : \E t \in DOMAIN h : o \in h[t].obs,
           \A t \in DOMAIN h : h[t].obs \subseteq B
    PROVE  B = UNION {h[t].obs : t \in DOMAIN h}
<1>1. ASSUME NEW o \in B PROVE o \in UNION {h[t].obs : t \in DOMAIN h}
  <2>1. PICK t \in DOMAIN h : o \in h[t].obs
    BY <1>1
  <2> QED
    BY <2>1
<1>2. ASSUME NEW o \in UNION {h[t].obs : t \in DOMAIN h} PROVE o \in B
  BY <1>2
<1> QED
  BY <1>1, <1>2

\* A packet, new or known, gets observations that are nobody's yet.
LEMMA IndexedMore ==
    ASSUME Typed, ObsIndexesAgree, NEW i, NEW S, IsFiniteSet(S), S \cap byObsID = {},
           DOMAIN held' = DOMAIN held \cup {i},
           held'[i].obs = (IF i \in DOMAIN held THEN held[i].obs ELSE {}) \cup S,
           \A t \in DOMAIN held : t # i => held'[t].obs = held[t].obs,
           byObsID' = byObsID \cup S, totalObs' = totalObs + Cardinality(S)
    PROVE  ObsIndexesAgree'
<1>1. /\ byObsID = UNION {held[t].obs : t \in DOMAIN held}
      /\ \A t, u \in DOMAIN held : t # u => held[t].obs \cap held[u].obs = {}
      /\ totalObs = Cardinality(byObsID)
  BY DEF ObsIndexesAgree
<1>2. byObsID' = UNION {held'[t].obs : t \in DOMAIN held'}
  <2>1. \A o \in byObsID' : \E t \in DOMAIN held' : o \in held'[t].obs
    BY <1>1
  <2>2. \A t \in DOMAIN held' : held'[t].obs \subseteq byObsID'
    BY <1>1
  <2> QED
    BY <2>1, <2>2, IndexedAre
<1>3. \A t \in DOMAIN held : held[t].obs \cap S = {}
  BY <1>1
<1>4. \A t, u \in DOMAIN held' : t # u => held'[t].obs \cap held'[u].obs = {}
  BY <1>1, <1>3
<1>5. totalObs' = Cardinality(byObsID')
  <2>1. Cardinality(byObsID \cup S) = Cardinality(byObsID) + Cardinality(S) - Cardinality(byObsID \cap S)
    BY HeldFinite, FS_Union
  <2>2. Cardinality(byObsID \cap S) = 0 /\ Cardinality(byObsID) \in Nat /\ Cardinality(S) \in Nat
    <3>1. byObsID \cap S = {}
      OBVIOUS
    <3> QED
      BY <3>1, HeldFinite, FS_EmptySet, FS_CardinalityType
  <2>3. Cardinality(byObsID \cup S) = Cardinality(byObsID) + Cardinality(S)
    BY <2>1, <2>2
  <2> QED
    BY <1>1, <2>3
<1> QED
  BY <1>2, <1>4, <1>5 DEF ObsIndexesAgree

\* One more packet is counted under its path and no other.
LEMMA ShownMore ==
    ASSUME Typed, NEW t, t \notin DOMAIN held, NEW path,
           DOMAIN held' = DOMAIN held \cup {t}, held'[t].path = path,
           \A u \in DOMAIN held : held'[u].path = held[u].path
    PROVE  /\ \A p : Cardinality(Showing(p)') = Cardinality(Showing(p)) + (IF p = path THEN 1 ELSE 0)
           /\ Cardinality(LongShown') = Cardinality(LongShown) + One(path)
<1>1. /\ IsFiniteSet(LongShown) /\ Cardinality(LongShown) \in Nat
      /\ \A p : IsFiniteSet(Showing(p)) /\ Cardinality(Showing(p)) \in Nat
  BY HeldFinite, FS_CardinalityType
<1>2. ASSUME NEW p
      PROVE  Cardinality(Showing(p)') = Cardinality(Showing(p)) + (IF p = path THEN 1 ELSE 0)
  <2>1. CASE p = path
    <3>1. Showing(p)' = Showing(p) \cup {t} /\ t \notin Showing(p)
      BY <2>1 DEF Showing
    <3> QED
      BY <1>1, <2>1, <3>1, FS_AddElement, ZenonT(60)
  <2>2. CASE p # path
    <3>1. Showing(p)' = Showing(p)
      BY <2>2 DEF Showing
    <3> QED
      BY <1>1, <2>2, <3>1
  <2> QED
    BY <2>1, <2>2
<1>3. Cardinality(LongShown') = Cardinality(LongShown) + One(path)
  <2>1. CASE path \in LongPaths
    <3>1. LongShown' = LongShown \cup {t} /\ t \notin LongShown
      BY <2>1 DEF LongShown, LongPaths
    <3> QED
      BY <1>1, <2>1, <3>1, FS_AddElement DEF One
  <2>2. CASE path \notin LongPaths
    <3>1. LongShown' = LongShown
      BY <2>2 DEF LongShown, LongPaths
    <3> QED
      BY <1>1, <2>2, <3>1 DEF One
  <2> QED
    BY <2>1, <2>2
<1> QED
  BY <1>2, <1>3

\* Packets that show a longest path of their own observations show a longest
\* path.
LEMMA LongestStays ==
    ASSUME obsLog' = obsLog,
           \A t \in DOMAIN held' : held'[t].obs # {} /\ (\A o \in held'[t].obs : obsLog[o].tx = t)
               => held'[t].path \in Longest(held'[t].obs)
    PROVE  ShowsLongestPath'
<1>1. ASSUME NEW t \in DOMAIN held', held'[t].obs # {}, \A o \in held'[t].obs : obsLog'[o].tx = t
      PROVE  held'[t].path \in Longest(held[t].obs)'
  <2>1. held'[t].path \in Longest(held'[t].obs)
    BY <1>1
  <2> QED
    BY <2>1 DEF Longest
<1> QED
  BY <1>1 DEF ShowsLongestPath

\* The subpath index is exact when each count is the number of packets that
\* show the path.
LEMMA SubpathIs == SubpathIndexExact <=> \A p \in LongPaths : spIndex[p] = Cardinality(Showing(p))
  BY DEF SubpathIndexExact, Showing

\* The same, after a step.
LEMMA SubpathStays ==
    ASSUME \A p \in LongPaths : spIndex'[p] = Cardinality(Showing(p)') PROVE SubpathIndexExact'
<1>1. LongPaths' = LongPaths
  BY DEF LongPaths
<1> QED
  BY <1>1 DEF SubpathIndexExact, Showing

\* Merging a new packet keeps the counters, the paths shown and what was sent.
LEMMA StoreMergeNewTx ==
    ASSUME Typed, IndexInv, StoreInv, NEW r \in batch, MergeNewTx(r)
    PROVE  StoreInv'
<1>0. /\ r.id \in Nat /\ lastID \in Nat /\ r.id > lastID /\ r.id \notin DOMAIN held
      /\ r.obs \subseteq 1..Len(obsLog) /\ Len(obsLog) \in Nat /\ IsFiniteSet(r.obs)
  <2>1. /\ r.id \in Nat /\ lastID \in Nat /\ DOMAIN held \subseteq Nat /\ r.obs \subseteq 1..Len(obsLog) /\ Len(obsLog) \in Nat
    BY SMTT(60) DEF Typed, PollerTypeOK, DatabaseTypeOK, StoreTypeOK
  <2>2. r.id > lastID /\ r.id \notin DOMAIN held
    BY <2>1 DEF IndexInv, BatchAhead, HeldBehind
  <2>3. IsFiniteSet(1..Len(obsLog))
    BY <2>1, FS_Interval
  <2>4. IsFiniteSet(r.obs)
    BY <2>1, <2>3, FS_Subset
  <2> QED
    BY <2>1, <2>2, <2>4
<1>1. UNCHANGED obsLog /\ batch' = batch \ {r} /\ lastID' = r.id
  BY DEF MergeNewTx, db
<1> PICK kept \in KeepChoices(r.obs, {}) : \E path \in BestPaths(kept, NoPath) :
        /\ held' = [i \in DOMAIN held \cup {r.id} |->
                       IF i = r.id
                       THEN [seen |-> r.seen, obs |-> kept, path |-> path]
                       ELSE held[i]]
        /\ byObsID' = byObsID \cup kept
        /\ totalObs' = totalObs + Cardinality(kept)
        /\ spIndex' = Increment(spIndex, path)
        /\ spTotalPaths' = spTotalPaths + One(path)
        /\ trackedBytes' = trackedBytes + TxBytes(NoPath) + ObsBytes * Cardinality(kept)
        /\ Broadcast(kept)
  BY DEF MergeNewTx
<1> PICK path \in BestPaths(kept, NoPath) :
        /\ held' = [i \in DOMAIN held \cup {r.id} |->
                       IF i = r.id
                       THEN [seen |-> r.seen, obs |-> kept, path |-> path]
                       ELSE held[i]]
        /\ byObsID' = byObsID \cup kept
        /\ totalObs' = totalObs + Cardinality(kept)
        /\ spIndex' = Increment(spIndex, path)
        /\ spTotalPaths' = spTotalPaths + One(path)
        /\ trackedBytes' = trackedBytes + TxBytes(NoPath) + ObsBytes * Cardinality(kept)
        /\ Broadcast(kept)
  OBVIOUS
<1>2. /\ kept \subseteq r.obs /\ IsFiniteSet(kept) /\ Cardinality(kept) \in Nat
      /\ \A o \in kept : obsLog[o].tx = r.id
  <2>1. kept \subseteq r.obs
    BY KeepTyped
  <2> QED
    BY <1>0, <2>1, FS_Subset, FS_CardinalityType DEF StoreInv, BatchOwn
<1>3. /\ DOMAIN held' = DOMAIN held \cup {r.id} /\ held'[r.id].obs = kept /\ held'[r.id].path = path
      /\ \A t \in DOMAIN held : held'[t] = held[t]
  BY <1>0
<1>4. kept \cap byObsID = {} /\ kept \cap sentOnce = {}
  BY <1>0, <1>2 DEF StoreInv, ObsBehind, SentBehind
<1>5. sentOnce' = sentOnce \cup kept /\ sentAgain' = {}
  BY <1>4 DEF Broadcast, StoreInv, BroadcastOnce
<1>6. BatchOwn'
  BY <1>1 DEF StoreInv, BatchOwn
<1>7. \A o \in byObsID \cup sentOnce : obsLog[o].tx \in Nat /\ obsLog[o].tx <= lastID
  <2>1. byObsID \cup sentOnce \subseteq 1..Len(obsLog)
    BY DEF Typed, StoreTypeOK, PollerTypeOK
  <2>2. \A o \in 1..Len(obsLog) : obsLog[o].tx \in Nat
    BY RowsOfTx
  <2> QED
    BY <2>1, <2>2 DEF StoreInv, ObsBehind, SentBehind
<1>8. ObsBehind'
  BY <1>0, <1>1, <1>2, <1>7 DEF ObsBehind
<1>9. SentBehind'
  <2> SUFFICES ASSUME NEW o \in sentOnce \cup kept
               PROVE  /\ obsLog[o].tx <= r.id
                      /\ obsLog[o].tx \in DOMAIN held \cup {r.id} => o \in held'[obsLog[o].tx].obs
    BY <1>1, <1>3, <1>5 DEF SentBehind
  <2>1. CASE o \in kept
    BY <1>0, <1>2, <1>3, <2>1
  <2>2. CASE o \in sentOnce
    <3>1. obsLog[o].tx <= r.id /\ obsLog[o].tx # r.id
      BY <1>0, <1>7, <2>2
    <3>2. obsLog[o].tx \in DOMAIN held => o \in held[obsLog[o].tx].obs
      BY <2>2 DEF StoreInv, SentBehind
    <3> QED
      BY <1>3, <3>1, <3>2
  <2> QED
    BY <2>1, <2>2
<1>10. BroadcastOnce'
  <2> SUFFICES ASSUME NEW t \in DOMAIN held', NEW o \in held'[t].obs, obsLog[o].tx = t PROVE o \in sentOnce'
    BY <1>1, <1>5 DEF BroadcastOnce
  <2>1. CASE t = r.id
    BY <1>3, <1>5, <2>1
  <2>2. CASE t \in DOMAIN held
    BY <1>3, <1>5, <2>2 DEF StoreInv, BroadcastOnce
  <2> QED
    BY <1>3, <2>1, <2>2
<1>11. ObsIndexesAgree'
  <2>1. held'[r.id].obs = (IF r.id \in DOMAIN held THEN held[r.id].obs ELSE {}) \cup kept
    BY <1>0, <1>3
  <2> QED
    BY <1>2, <1>3, <1>4, <2>1, IndexedMore DEF StoreInv
<1>12. /\ \A p : Cardinality(Showing(p)') = Cardinality(Showing(p)) + (IF p = path THEN 1 ELSE 0)
       /\ Cardinality(LongShown') = Cardinality(LongShown) + One(path)
  BY <1>0, <1>3, ShownMore
<1>13. SubpathIndexExact'
  <2>1. ASSUME NEW p \in LongPaths PROVE spIndex'[p] = Cardinality(Showing(p)')
    <3>1. spIndex \in [LongPaths -> Nat] /\ spIndex[p] = Cardinality(Showing(p))
      BY SubpathIs DEF StoreInv, TotalsTyped
    <3> QED
      BY <1>12, <3>1 DEF Increment
  <2> QED
    BY <2>1, SubpathStays
<1>14. TotalsTyped'
  <2>1. /\ totalObs \in Nat /\ spTotalPaths \in Nat /\ trackedBytes \in Nat /\ spIndex \in [LongPaths -> Nat]
        /\ Cardinality(LongShown) <= spTotalPaths /\ Cardinality(LongShown) \in Nat
    BY HeldFinite, FS_CardinalityType DEF StoreInv, TotalsTyped
  <2>2. One(path) \in Nat /\ TxBytes(NoPath) \in Nat
    BY PathsAssumption DEF One, TxBytes
  <2>3. spIndex' \in [LongPaths -> Nat]
    BY <2>1 DEF Increment
  <2>4. spIndex' \in [LongPaths' -> Nat]
    BY <2>3 DEF LongPaths
  <2>5. totalObs' \in Nat /\ spTotalPaths' \in Nat /\ trackedBytes' \in Nat /\ Cardinality(LongShown') <= spTotalPaths'
    BY <1>2, <1>12, <2>1, <2>2 DEF ObsBytes
  <2> QED
    BY <2>4, <2>5 DEF TotalsTyped
<1>15. ShowsLongestPath'
  <2> SUFFICES ASSUME NEW t \in DOMAIN held', held'[t].obs # {}, \A o \in held'[t].obs : obsLog[o].tx = t
               PROVE  held'[t].path \in Longest(held'[t].obs)
    BY <1>1, LongestStays
  <2>1. CASE t = r.id
    BY <1>3, <2>1 DEF BestPaths
  <2>2. CASE t \in DOMAIN held
    BY <1>3, <2>2 DEF StoreInv, ShowsLongestPath
  <2> QED
    BY <1>3, <2>1, <2>2
<1> QED
  BY <1>6, <1>8, <1>9, <1>10, <1>11, <1>13, <1>14, <1>15 DEF StoreInv

\* Merging a known hash keeps the counters, the paths shown and what was sent.
LEMMA StoreMergeKnownHash ==
    ASSUME Typed, IndexInv, StoreInv, NEW r \in batch, MergeKnownHash(r)
    PROVE  StoreInv'
<1>0. /\ r.id \in Nat /\ lastID \in Nat /\ r.id > lastID /\ r.id \notin DOMAIN held
      /\ r.obs \subseteq 1..Len(obsLog) /\ Len(obsLog) \in Nat /\ IsFiniteSet(r.obs)
  <2>1. /\ r.id \in Nat /\ lastID \in Nat /\ DOMAIN held \subseteq Nat /\ r.obs \subseteq 1..Len(obsLog) /\ Len(obsLog) \in Nat
    BY SMTT(60) DEF Typed, PollerTypeOK, DatabaseTypeOK, StoreTypeOK
  <2>2. r.id > lastID /\ r.id \notin DOMAIN held
    BY <2>1 DEF IndexInv, BatchAhead, HeldBehind
  <2>3. IsFiniteSet(1..Len(obsLog))
    BY <2>1, FS_Interval
  <2>4. IsFiniteSet(r.obs)
    BY <2>1, <2>3, FS_Subset
  <2> QED
    BY <2>1, <2>2, <2>4
<1>1. UNCHANGED <<obsLog, spIndex, spTotalPaths, sentOnce, sentAgain>> /\ batch' = batch \ {r} /\ lastID' = r.id
  BY DEF MergeKnownHash, db, sent
<1> DEFINE i == byHash[txHash[r.id]]
<1> PICK kept \in KeepChoices(r.obs, KeysOf(held[i].obs)) :
        /\ held' = [held EXCEPT ![i].obs = @ \cup kept]
        /\ byObsID' = byObsID \cup kept
        /\ totalObs' = totalObs + Cardinality(kept)
        /\ trackedBytes' = trackedBytes + ObsBytes * Cardinality(kept)
  BY DEF MergeKnownHash
<1>2. /\ kept \subseteq r.obs /\ IsFiniteSet(kept) /\ Cardinality(kept) \in Nat
      /\ \A o \in kept : obsLog[o].tx = r.id
  <2>1. kept \subseteq r.obs
    BY KeepTyped
  <2> QED
    BY <1>0, <2>1, FS_Subset, FS_CardinalityType DEF StoreInv, BatchOwn
<1>3. i \in DOMAIN held /\ i # r.id
  <2>1. txHash[r.id] \in {txHash[t] : t \in DOMAIN held} /\ \A t \in DOMAIN held : byHash[txHash[t]] = t
    BY DEF MergeKnownHash, InStore, IndexInv, TxIndexesAgree
  <2>2. PICK t \in DOMAIN held : txHash[t] = txHash[r.id]
    BY <2>1
  <2> QED
    BY <1>0, <2>1, <2>2
<1> HIDE DEF i
<1>4. /\ DOMAIN held' = DOMAIN held /\ held'[i].obs = held[i].obs \cup kept /\ held'[i].path = held[i].path
      /\ \A t \in DOMAIN held : t # i => held'[t] = held[t]
  <2>1. held[i] \in [seen : Nat, obs : SUBSET (1..Len(obsLog)), path : Paths]
    BY <1>3 DEF Typed, StoreTypeOK
  <2> QED
    BY <1>3, <2>1
<1>5. kept \cap byObsID = {}
  BY <1>0, <1>2 DEF StoreInv, ObsBehind
<1>6. BatchOwn'
  BY <1>1 DEF StoreInv, BatchOwn
<1>7. \A o \in byObsID \cup sentOnce : obsLog[o].tx \in Nat /\ obsLog[o].tx <= lastID
  <2>1. byObsID \cup sentOnce \subseteq 1..Len(obsLog)
    BY DEF Typed, StoreTypeOK, PollerTypeOK
  <2>2. \A o \in 1..Len(obsLog) : obsLog[o].tx \in Nat
    BY RowsOfTx
  <2> QED
    BY <2>1, <2>2 DEF StoreInv, ObsBehind, SentBehind
<1>8. ObsBehind'
  BY <1>0, <1>1, <1>2, <1>7 DEF ObsBehind
<1>9. SentBehind'
  <2> SUFFICES ASSUME NEW o \in sentOnce
               PROVE  obsLog[o].tx <= r.id /\ (obsLog[o].tx \in DOMAIN held => o \in held'[obsLog[o].tx].obs)
    BY <1>1, <1>4 DEF SentBehind
  <2>1. obsLog[o].tx <= r.id
    BY <1>0, <1>7
  <2>2. obsLog[o].tx \in DOMAIN held => o \in held[obsLog[o].tx].obs
    BY DEF StoreInv, SentBehind
  <2> QED
    BY <1>4, <2>1, <2>2
<1>10. BroadcastOnce'
  <2> SUFFICES ASSUME NEW t \in DOMAIN held, NEW o \in held'[t].obs, obsLog[o].tx = t PROVE o \in sentOnce
    BY <1>1, <1>4 DEF BroadcastOnce, StoreInv
  <2>1. o \in held[t].obs
    BY <1>2, <1>3, <1>4
  <2> QED
    BY <2>1 DEF StoreInv, BroadcastOnce
<1>11. ObsIndexesAgree'
  <2>1. DOMAIN held' = DOMAIN held \cup {i} /\ held'[i].obs = (IF i \in DOMAIN held THEN held[i].obs ELSE {}) \cup kept
    BY <1>3, <1>4
  <2> QED
    BY <1>2, <1>4, <1>5, <2>1, IndexedMore, ZenonT(60) DEF StoreInv
<1>12. \A p : Showing(p)' = Showing(p)
  BY <1>4 DEF Showing
<1>13. SubpathIndexExact'
  <2>1. \A p \in LongPaths : spIndex'[p] = Cardinality(Showing(p)')
    BY <1>1, <1>12, SubpathIs DEF StoreInv
  <2> QED
    BY <2>1, SubpathStays
<1>14. TotalsTyped'
  <2>1. LongShown' = LongShown
    BY <1>4 DEF LongShown, LongPaths
  <2>2. spIndex' \in [LongPaths' -> Nat]
    BY <1>1 DEF StoreInv, TotalsTyped, LongPaths
  <2>3. totalObs' \in Nat /\ trackedBytes' \in Nat
    BY <1>2 DEF StoreInv, TotalsTyped, ObsBytes
  <2> QED
    BY <1>1, <2>1, <2>2, <2>3 DEF StoreInv, TotalsTyped
<1>15. ShowsLongestPath'
  <2> SUFFICES ASSUME NEW t \in DOMAIN held, held'[t].obs # {}, \A o \in held'[t].obs : obsLog[o].tx = t
               PROVE  held'[t].path \in Longest(held'[t].obs)
    BY <1>1, <1>4, LongestStays
  <2>1. held'[t].obs = held[t].obs /\ held'[t].path = held[t].path
    <3>1. CASE t = i
      <4>1. \A o \in kept : obsLog[o].tx # i
        BY <1>2, <1>3
      <4>2. kept = {}
        BY <1>4, <3>1, <4>1
      <4> QED
        BY <1>4, <3>1, <4>2
    <3>2. CASE t # i
      BY <1>4, <3>2
    <3> QED
      BY <3>1, <3>2
  <2> QED
    BY <2>1 DEF StoreInv, ShowsLongestPath
<1> QED
  BY <1>6, <1>8, <1>9, <1>10, <1>11, <1>13, <1>14, <1>15 DEF StoreInv

\* A packet that changes its path is counted under the new one.
LEMMA ShownMoved ==
    ASSUME Typed, NEW t \in DOMAIN held, NEW path, path # held[t].path,
           DOMAIN held' = DOMAIN held, held'[t].path = path,
           \A u \in DOMAIN held : u # t => held'[u].path = held[u].path
    PROVE  /\ Cardinality(Showing(held[t].path)) > 0
           /\ \A p : Cardinality(Showing(p)') =
                        Cardinality(Showing(p)) + (IF p = path THEN 1 ELSE IF p = held[t].path THEN -1 ELSE 0)
           /\ Cardinality(LongShown) >= One(held[t].path)
           /\ Cardinality(LongShown') = Cardinality(LongShown) - One(held[t].path) + One(path)
<1>1. /\ IsFiniteSet(LongShown) /\ Cardinality(LongShown) \in Nat
      /\ \A p : IsFiniteSet(Showing(p)) /\ Cardinality(Showing(p)) \in Nat
  BY HeldFinite, FS_CardinalityType
<1>2. ASSUME NEW S, IsFiniteSet(S), t \in S
      PROVE  Cardinality(S \ {t}) = Cardinality(S) - 1 /\ Cardinality(S) \in Nat /\ Cardinality(S \ {t}) \in Nat /\ IsFiniteSet(S \ {t})
  <2>1. Cardinality(S \ {t}) = Cardinality(S) - 1 /\ IsFiniteSet(S \ {t})
    BY <1>2, FS_RemoveElement
  <2> QED
    BY <1>2, <2>1, FS_CardinalityType
<1>7. ASSUME NEW S, IsFiniteSet(S), t \notin S PROVE Cardinality(S \cup {t}) = Cardinality(S) + 1
  BY <1>7, FS_AddElement
<1>3. Cardinality(Showing(held[t].path)) > 0
  <2>1. t \in Showing(held[t].path)
    BY DEF Showing
  <2>2. /\ Cardinality(Showing(held[t].path)) \in Nat /\ Cardinality(Showing(held[t].path) \ {t}) \in Nat
        /\ Cardinality(Showing(held[t].path) \ {t}) = Cardinality(Showing(held[t].path)) - 1
    BY <1>1, <1>2, <2>1
  <2> QED
    BY <2>2
<1>4. ASSUME NEW p
      PROVE  Cardinality(Showing(p)') =
                 Cardinality(Showing(p)) + (IF p = path THEN 1 ELSE IF p = held[t].path THEN -1 ELSE 0)
  <2>1. CASE p = path
    <3>1. Showing(p)' = Showing(p) \cup {t} /\ t \notin Showing(p)
      BY <2>1 DEF Showing
    <3> QED
      BY <1>1, <1>7, <2>1, <3>1
  <2>2. CASE p = held[t].path
    <3>1. Showing(p)' = Showing(p) \ {t} /\ t \in Showing(p)
      BY <2>2 DEF Showing
    <3>2. Cardinality(Showing(p) \ {t}) = Cardinality(Showing(p)) - 1
      BY <1>1, <1>2, <3>1
    <3> QED
      BY <1>1, <2>2, <3>1, <3>2
  <2>3. CASE p # path /\ p # held[t].path
    <3>1. Showing(p)' = Showing(p)
      BY <2>3 DEF Showing
    <3> QED
      BY <1>1, <2>3, <3>1
  <2> QED
    BY <2>1, <2>2, <2>3
<1>5. ASSUME held[t].path \in LongPaths PROVE Cardinality(LongShown) >= 1
  <2>1. t \in LongShown
    BY <1>5 DEF LongShown
  <2>2. Cardinality(LongShown \ {t}) = Cardinality(LongShown) - 1 /\ Cardinality(LongShown \ {t}) \in Nat
    BY <1>1, <1>2, <2>1
  <2> QED
    BY <1>1, <2>2
<1>6. /\ Cardinality(LongShown) >= One(held[t].path)
      /\ Cardinality(LongShown') = Cardinality(LongShown) - One(held[t].path) + One(path)
  <2>1. CASE held[t].path \in LongPaths /\ path \in LongPaths
    <3>1. LongShown' = LongShown
      BY <2>1 DEF LongShown, LongPaths
    <3> QED
      BY <1>1, <1>5, <2>1, <3>1 DEF One
  <2>2. CASE held[t].path \in LongPaths /\ path \notin LongPaths
    <3>1. LongShown' = LongShown \ {t} /\ t \in LongShown
      BY <2>2 DEF LongShown, LongPaths
    <3>2. Cardinality(LongShown \ {t}) = Cardinality(LongShown) - 1
      BY <1>1, <1>2, <3>1
    <3> QED
      BY <1>1, <1>5, <2>2, <3>1, <3>2 DEF One
  <2>3. CASE held[t].path \notin LongPaths /\ path \in LongPaths
    <3>1. LongShown' = LongShown \cup {t} /\ t \notin LongShown
      BY <2>3 DEF LongShown, LongPaths
    <3> QED
      BY <1>1, <1>7, <2>3, <3>1 DEF One
  <2>4. CASE held[t].path \notin LongPaths /\ path \notin LongPaths
    <3>1. LongShown' = LongShown
      BY <2>4 DEF LongShown, LongPaths
    <3> QED
      BY <1>1, <2>4, <3>1 DEF One
  <2> QED
    BY <2>1, <2>2, <2>3, <2>4
<1> QED
  BY <1>3, <1>4, <1>6

\* Merging a late observation keeps the counters, moves the packet to its new
\* path in the subpath index and sends it once.
LEMMA StoreMergeObservation ==
    ASSUME Typed, IndexInv, StoreInv, NEW o \in obsBatch, MergeObservation(o)
    PROVE  StoreInv'
<1> DEFINE t == obsLog[o].tx
           all == held[t].obs \cup {o}
<1>0. UNCHANGED <<obsLog, batch, lastID>>
  BY DEF MergeObservation, db
<1> PICK path \in BestPaths(all, held[t].path) :
        /\ held' = [held EXCEPT ![t].obs = all, ![t].path = path]
        /\ IF path = held[t].path
           THEN UNCHANGED <<spIndex, spTotalPaths>>
           ELSE /\ spIndex' = Increment(Decrement(spIndex, held[t].path), path)
                /\ spTotalPaths' = spTotalPaths - One(held[t].path) + One(path)
  BY DEF MergeObservation
<1>1. t \in DOMAIN held /\ o \notin byObsID /\ t <= lastID
  BY DEF MergeObservation, Skipped, IndexInv, HeldBehind, TxIndexesAgree
<1>2. byObsID' = byObsID \cup {o} /\ totalObs' = totalObs + 1 /\ trackedBytes' = trackedBytes + ObsBytes /\ Broadcast({o})
  BY DEF MergeObservation
<1>3. path \in Longest(all)
  BY DEF BestPaths
<1> HIDE DEF t
<1>4. /\ DOMAIN held' = DOMAIN held /\ held'[t].obs = held[t].obs \cup {o} /\ held'[t].path = path
      /\ \A u \in DOMAIN held : u # t => held'[u] = held[u]
  <2>1. held[t] \in [seen : Nat, obs : SUBSET (1..Len(obsLog)), path : Paths]
    BY <1>1 DEF Typed, StoreTypeOK
  <2> QED
    BY <1>1, <2>1
<1>5. obsLog[o].tx = t
  BY DEF t
<1>6. o \notin sentOnce
  <2>1. held[t].obs \subseteq byObsID
    BY <1>1 DEF StoreInv, ObsIndexesAgree
  <2> QED
    BY <1>1, <1>5, <2>1 DEF StoreInv, SentBehind
<1>7. sentOnce' = sentOnce \cup {o} /\ sentAgain' = {}
  BY <1>2, <1>6 DEF Broadcast, StoreInv, BroadcastOnce
<1>8. BatchOwn' /\ ObsBehind'
  BY <1>0, <1>1, <1>2, <1>5 DEF StoreInv, BatchOwn, ObsBehind
<1>9. SentBehind'
  <2> SUFFICES ASSUME NEW x \in sentOnce \cup {o}
               PROVE  obsLog[x].tx <= lastID /\ (obsLog[x].tx \in DOMAIN held => x \in held'[obsLog[x].tx].obs)
    BY <1>0, <1>4, <1>7 DEF SentBehind
  <2>1. CASE x = o
    BY <1>1, <1>4, <1>5, <2>1
  <2>2. CASE x \in sentOnce
    BY <1>4, <2>2 DEF StoreInv, SentBehind
  <2> QED
    BY <2>1, <2>2
<1>10. BroadcastOnce'
  <2> SUFFICES ASSUME NEW u \in DOMAIN held, NEW x \in held'[u].obs, obsLog[x].tx = u PROVE x \in sentOnce'
    BY <1>0, <1>4, <1>7 DEF BroadcastOnce
  <2>1. x = o \/ x \in held[u].obs
    BY <1>4
  <2> QED
    BY <1>7, <2>1 DEF StoreInv, BroadcastOnce
<1>11. ObsIndexesAgree'
  <2>1. Cardinality({o}) = 1 /\ IsFiniteSet({o})
    BY FS_Singleton
  <2>2. totalObs' = totalObs + Cardinality({o}) /\ {o} \cap byObsID = {}
    BY <1>1, <1>2, <2>1
  <2>3. DOMAIN held' = DOMAIN held \cup {t} /\ held'[t].obs = (IF t \in DOMAIN held THEN held[t].obs ELSE {}) \cup {o}
    BY <1>1, <1>4
  <2> QED
    BY <1>2, <1>4, <2>1, <2>2, <2>3, IndexedMore DEF StoreInv
<1>12. ShowsLongestPath'
  <2> SUFFICES ASSUME NEW u \in DOMAIN held, held'[u].obs # {}, \A x \in held'[u].obs : obsLog[x].tx = u
               PROVE  held'[u].path \in Longest(held'[u].obs)
    BY <1>0, <1>4, LongestStays
  <2>1. CASE u = t
    BY <1>3, <1>4, <2>1
  <2>2. CASE u # t
    BY <1>4, <2>2 DEF StoreInv, ShowsLongestPath
  <2> QED
    BY <2>1, <2>2
<1>13. totalObs' \in Nat /\ trackedBytes' \in Nat
  BY <1>2 DEF StoreInv, TotalsTyped, ObsBytes
<1>14. spIndex \in [LongPaths -> Nat] /\ spTotalPaths \in Nat /\ Cardinality(LongShown) <= spTotalPaths /\ LongPaths' = LongPaths
  BY DEF StoreInv, TotalsTyped, LongPaths
<1>15. SubpathIndexExact' /\ spTotalPaths' \in Nat /\ spIndex' \in [LongPaths -> Nat] /\ Cardinality(LongShown') <= spTotalPaths'
  <2>1. CASE path = held[t].path
    <3>1. \A p : Showing(p)' = Showing(p)
      BY <1>4, <2>1 DEF Showing
    <3>2. LongShown' = LongShown
      BY <1>4, <2>1 DEF LongShown, LongPaths
    <3>3. \A p \in LongPaths : spIndex'[p] = Cardinality(Showing(p)')
      BY <2>1, <3>1, SubpathIs DEF StoreInv
    <3> QED
      BY <1>14, <2>1, <3>2, <3>3, SubpathStays
  <2>2. CASE path # held[t].path
    <3> DEFINE old == held[t].path
    <3>1. /\ Cardinality(Showing(old)) > 0
          /\ \A p : Cardinality(Showing(p)') =
                        Cardinality(Showing(p)) + (IF p = path THEN 1 ELSE IF p = old THEN -1 ELSE 0)
          /\ Cardinality(LongShown) >= One(old)
          /\ Cardinality(LongShown') = Cardinality(LongShown) - One(old) + One(path)
      BY <1>1, <1>4, <2>2, ShownMoved
    <3>2. spIndex' = Increment(Decrement(spIndex, old), path) /\ spTotalPaths' = spTotalPaths - One(old) + One(path)
      BY <2>2
    <3>3. Cardinality(LongShown) \in Nat /\ One(old) \in Nat /\ One(path) \in Nat
      BY HeldFinite, FS_CardinalityType DEF One
    <3>4. spTotalPaths' \in Nat /\ Cardinality(LongShown') <= spTotalPaths'
      BY <1>14, <3>1, <3>2, <3>3
    <3>5. \A p \in LongPaths : spIndex[p] = Cardinality(Showing(p))
      BY SubpathIs DEF StoreInv
    <3> HIDE DEF old
    <3>6. Decrement(spIndex, old) \in [LongPaths -> Nat]
          /\ \A p \in LongPaths : Decrement(spIndex, old)[p] = Cardinality(Showing(p)) + (IF p = old THEN -1 ELSE 0)
      <4>1. CASE old \in LongPaths
        <5>1. spIndex[old] > 0 /\ Decrement(spIndex, old) = [spIndex EXCEPT ![old] = @ - 1]
          BY <3>1, <3>5, <4>1 DEF Decrement
        <5> QED
          BY <1>14, <3>5, <4>1, <5>1
      <4>2. CASE old \notin LongPaths
        BY <1>14, <3>5, <4>2 DEF Decrement
      <4> QED
        BY <4>1, <4>2
    <3>7. spIndex' \in [LongPaths -> Nat]
      BY <3>2, <3>6 DEF Increment
    <3>8. \A p \in LongPaths : spIndex'[p] = Cardinality(Showing(p)')
      <4> SUFFICES ASSUME NEW p \in LongPaths PROVE spIndex'[p] = Cardinality(Showing(p)')
        OBVIOUS
      <4>1. spIndex'[p] = Decrement(spIndex, old)[p] + (IF p = path THEN 1 ELSE 0)
        BY <3>2, <3>6 DEF Increment
      <4>2. Decrement(spIndex, old)[p] = Cardinality(Showing(p)) + (IF p = old THEN -1 ELSE 0)
        BY <3>6
      <4>3. Cardinality(Showing(p)') = Cardinality(Showing(p)) + (IF p = path THEN 1 ELSE IF p = old THEN -1 ELSE 0)
        BY <3>1
      <4>4. path # old /\ Cardinality(Showing(p)) \in Nat
        BY <2>2, HeldFinite, FS_CardinalityType DEF old
      <4> QED
        BY <4>1, <4>2, <4>3, <4>4
    <3> QED
      BY <3>4, <3>7, <3>8, SubpathStays
  <2> QED
    BY <2>1, <2>2
<1> QED
  BY <1>8, <1>9, <1>10, <1>11, <1>12, <1>13, <1>14, <1>15 DEF StoreInv, TotalsTyped

\* The code's guard against negative totals changes only what is negative.
LEMMA ZeroOrMore == ASSUME NEW x \in Int PROVE Max({0, x}) = IF x >= 0 THEN x ELSE 0
<1>1. \E m \in {0, x} : \A y \in {0, x} : m >= y
  OBVIOUS
<1>2. Max({0, x}) \in {0, x} /\ \A y \in {0, x} : Max({0, x}) >= y
  BY <1>1 DEF Max
<1> QED
  BY <1>2

\* The bytes of a range of packets are counted.
LEMMA BytesCounted == ASSUME Typed, TxIndexesAgree, NEW n \in 1..Len(packets) PROVE BytesBetween(0, n) \in Nat
<1> DEFINE I == (0 + 1)..n
           f == [i \in I |-> {i} \X (1..PacketBytes(packets[i]))]
           F == {f[i] : i \in I}
<1>1. n \in Int /\ 0 + 1 \in Int /\ Len(packets) \in Nat /\ \A i \in I : packets[i] \in DOMAIN held
  BY DEF Typed, StoreTypeOK, TxIndexesAgree
<1>2. IsFiniteSet(I)
  BY <1>1, FS_Interval
<1>3. ASSUME NEW i \in I PROVE IsFiniteSet({i} \X (1..PacketBytes(packets[i])))
  <2>1. held[packets[i]] \in [seen : Nat, obs : SUBSET (1..Len(obsLog)), path : Paths] /\ IsFiniteSet(held[packets[i]].obs)
    BY <1>1, HeldFinite DEF Typed, StoreTypeOK
  <2>2. Cardinality(held[packets[i]].obs) \in Nat /\ PathLen[held[packets[i]].path] \in Nat
    BY <2>1, FS_CardinalityType, PathsAssumption
  <2>3. PacketBytes(packets[i]) \in Int /\ 1 \in Int
    BY <2>2 DEF PacketBytes, TxBytes, ObsBytes
  <2>4. IsFiniteSet(1..PacketBytes(packets[i]))
    BY <2>3, FS_Interval
  <2>5. IsFiniteSet({i})
    BY FS_Singleton
  <2> QED
    BY <2>4, <2>5, FS_Product
<1>4. f \in Surjection(I, F)
  <2>1. f \in [I -> F]
    OBVIOUS
  <2>2. \A y \in F : \E i \in I : f[i] = y
    OBVIOUS
  <2> QED
    BY <2>1, <2>2 DEF Surjection
<1>5. IsFiniteSet(F)
  BY <1>2, <1>4, FS_Surjection
<1>6. \A T \in F : IsFiniteSet(T)
  BY <1>3
<1>7. IsFiniteSet(UNION F)
  BY <1>5, <1>6, FS_UNION
<1>8. F = {{i} \X (1..PacketBytes(packets[i])) : i \in (0 + 1)..n}
  OBVIOUS
<1> QED
  BY <1>7, <1>8, FS_CardinalityType DEF BytesBetween

\* Eviction takes exactly the packet's own observations and path out of the
\* counters.
LEMMA StoreEvict == ASSUME Typed, IndexInv, StoreInv, RunEviction PROVE StoreInv'
<1> PICK n \in 1..Len(packets) : Evict(n)
  BY DEF RunEviction
<1>0. UNCHANGED <<obsLog, lastID, batch, sentOnce, sentAgain>>
  BY DEF RunEviction, db, cursors, sent
<1> DEFINE gone == {packets[i] : i \in 1..n}
<1>1. /\ held' = [t \in DOMAIN held \ gone |-> held[t]]
      /\ byObsID' = byObsID \ ObsOf(gone)
      /\ totalObs' = totalObs - Cardinality(ObsOf(gone))
      /\ spIndex' = SubtractPaths(spIndex, gone)
      /\ trackedBytes' = BytesAfter(n)
      /\ spTotalPaths' = spTotalPaths
  BY DEF Evict
<1>2. gone \subseteq DOMAIN held
  BY DEF Typed, StoreTypeOK, IndexInv, TxIndexesAgree
<1> HIDE DEF gone
<1>3. DOMAIN held' = DOMAIN held \ gone /\ \A t \in DOMAIN held' : held'[t] = held[t]
  BY <1>1
<1>4. /\ byObsID = UNION {held[t].obs : t \in DOMAIN held}
      /\ \A t, u \in DOMAIN held : t # u => held[t].obs \cap held[u].obs = {}
      /\ totalObs = Cardinality(byObsID) /\ IsFiniteSet(byObsID)
  BY HeldFinite DEF StoreInv, ObsIndexesAgree
<1>5. ObsOf(gone) \subseteq byObsID /\ \A o : o \in ObsOf(gone) <=> \E t \in gone : o \in held[t].obs
  BY <1>2, <1>4 DEF ObsOf
<1>6. ObsIndexesAgree'
  <2>1. \A o \in byObsID' : \E t \in DOMAIN held' : o \in held'[t].obs
    <3> TAKE o \in byObsID'
    <3>1. PICK t \in DOMAIN held : o \in held[t].obs
      BY <1>1, <1>4
    <3>2. t \notin gone
      BY <1>1, <1>5, <3>1
    <3> QED
      BY <1>3, <3>1, <3>2
  <2>2. \A t \in DOMAIN held' : held'[t].obs \subseteq byObsID'
    <3> SUFFICES ASSUME NEW t \in DOMAIN held', NEW o \in held'[t].obs PROVE o \in byObsID'
      OBVIOUS
    <3>1. t \in DOMAIN held /\ t \notin gone /\ o \in held[t].obs /\ o \in byObsID
      BY <1>3, <1>4
    <3>2. o \notin ObsOf(gone)
      <4> SUFFICES ASSUME NEW u \in gone, o \in held[u].obs PROVE FALSE
        BY <1>5
      <4>1. u # t /\ u \in DOMAIN held
        BY <1>2, <3>1
      <4> QED
        BY <1>4, <3>1, <4>1
    <3> QED
      BY <1>1, <3>1, <3>2
  <2>3. byObsID' = UNION {held'[t].obs : t \in DOMAIN held'}
    BY <2>1, <2>2, IndexedAre
  <2>4. \A t, u \in DOMAIN held' : t # u => held'[t].obs \cap held'[u].obs = {}
    BY <1>3, <1>4
  <2>5. totalObs' = Cardinality(byObsID')
    <3>1. Cardinality(byObsID \ ObsOf(gone)) = Cardinality(byObsID) - Cardinality(byObsID \cap ObsOf(gone))
      BY <1>4, FS_Difference
    <3>2. byObsID \cap ObsOf(gone) = ObsOf(gone)
      BY <1>5
    <3> QED
      BY <1>1, <1>4, <3>1, <3>2
  <2> QED
    BY <2>3, <2>4, <2>5 DEF ObsIndexesAgree
<1>7. BatchOwn' /\ ObsBehind' /\ SentBehind' /\ BroadcastOnce'
  BY <1>0, <1>1, <1>3 DEF StoreInv, BatchOwn, ObsBehind, SentBehind, BroadcastOnce
<1>8. ShowsLongestPath'
  <2>1. \A t \in DOMAIN held' : held'[t].obs # {} /\ (\A o \in held'[t].obs : obsLog[o].tx = t)
               => held'[t].path \in Longest(held'[t].obs)
    BY <1>3 DEF StoreInv, ShowsLongestPath
  <2> QED
    BY <1>0, <2>1, LongestStays
<1>9. ASSUME NEW p \in LongPaths PROVE spIndex'[p] = Cardinality(Showing(p)') /\ spIndex'[p] \in Nat
  <2> DEFINE out == {t \in gone : held[t].path = p}
  <2>1. Showing(p)' = Showing(p) \ out /\ Showing(p) \cap out = out
    BY <1>2, <1>3 DEF Showing
  <2>2. IsFiniteSet(Showing(p)) /\ IsFiniteSet(out) /\ Cardinality(out) <= Cardinality(Showing(p))
    <3>1. IsFiniteSet(Showing(p)) /\ out \subseteq Showing(p)
      BY <2>1, HeldFinite
    <3> QED
      BY <3>1, FS_Subset
  <2>3. Cardinality(out) \in Nat /\ Cardinality(Showing(p)) \in Nat
    BY <2>2, FS_CardinalityType
  <2>4. Cardinality(Showing(p)') = Cardinality(Showing(p)) - Cardinality(out)
    BY <2>1, <2>2, FS_Difference
  <2>5. spIndex'[p] = Max({0, spIndex[p] - Cardinality(out)})
    BY <1>1 DEF SubtractPaths
  <2>6. spIndex[p] = Cardinality(Showing(p))
    BY SubpathIs DEF StoreInv
  <2> HIDE DEF out
  <2>7. Max({0, spIndex[p] - Cardinality(out)}) = spIndex[p] - Cardinality(out)
    BY <2>2, <2>3, <2>6, ZeroOrMore
  <2> QED
    BY <2>2, <2>3, <2>4, <2>5, <2>6, <2>7
<1>10. SubpathIndexExact'
  BY <1>9, SubpathStays
<1>11. TotalsTyped'
  <2>1. totalObs' \in Nat
    <3>1. IsFiniteSet(byObsID')
      BY <1>1, <1>4, FS_Subset
    <3> QED
      BY <1>6, <3>1, FS_CardinalityType DEF ObsIndexesAgree
  <2>2. trackedBytes' \in Nat
    <3>1. trackedBytes - BytesBetween(0, n) \in Int
      BY BytesCounted DEF IndexInv, StoreInv, TotalsTyped
    <3> QED
      BY <1>1, <3>1, ZeroOrMore DEF BytesAfter
  <2>3. spIndex' \in [LongPaths -> Nat] /\ LongPaths' = LongPaths
    BY <1>1, <1>9 DEF SubtractPaths, LongPaths
  <2>4. spTotalPaths' \in Nat /\ Cardinality(LongShown') <= spTotalPaths'
    <3>1. LongShown' \subseteq LongShown
      BY <1>3, <2>3 DEF LongShown
    <3>2. Cardinality(LongShown') <= Cardinality(LongShown) /\ Cardinality(LongShown') \in Nat /\ Cardinality(LongShown) \in Nat
      BY <3>1, HeldFinite, FS_Subset, FS_CardinalityType
    <3> QED
      BY <1>1, <3>2 DEF StoreInv, TotalsTyped
  <2> QED
    BY <2>1, <2>2, <2>3, <2>4 DEF TotalsTyped
<1> QED
  BY <1>6, <1>7, <1>8, <1>10, <1>11 DEF StoreInv

\* Every step keeps the counters, the paths shown and what was sent.
LEMMA NextStoreInv == Typed /\ IndexInv /\ StoreInv /\ [Next]_vars => StoreInv'
<1> SUFFICES ASSUME Typed, IndexInv, StoreInv, [Next]_vars PROVE StoreInv'
  OBVIOUS
<1>1. CASE Ingestor \/ Tick
  <2>1. UNCHANGED <<index, cursors, sent>>
    BY <1>1 DEF Ingestor, Tick, InsertTx, HearAgain, InsertObservation, LoseObservation, PruneOldPackets
  <2>2. obsLog \in Seq(Obs)
    BY DEF Typed, DatabaseTypeOK
  <2>3. obsLog' = obsLog \/ obsLog' = Append(obsLog, pending[1])
    BY <1>1 DEF Ingestor, Tick, InsertTx, HearAgain, InsertObservation, LoseObservation, PruneOldPackets, db
  <2>4. \A x \in 1..Len(obsLog) : obsLog'[x] = obsLog[x]
    BY <2>2, <2>3
  <2> QED
    BY <2>1, <2>4, StoreRows
<1>2. CASE Poll \/ QueryFails
  BY <1>2, StoreReads, StoreMergeNewTx, StoreMergeKnownHash, StoreMergeObservation DEF Poll, MergeTx, MergeObs
<1>3. CASE RunEviction
  BY <1>3, StoreEvict
<1>4. CASE UNCHANGED vars
  <2>1. UNCHANGED <<index, cursors, sent>> /\ \A x \in 1..Len(obsLog) : obsLog'[x] = obsLog[x]
    BY <1>4 DEF vars, db
  <2> QED
    BY <2>1, StoreRows
<1> QED
  BY <1>1, <1>2, <1>3, <1>4 DEF Next

\* The list, the four indexes, the counts of the subpath index and the
\* totals of the store agree after every merge, late observation and
\* eviction, for any number of packets, observations and paths (store.go).
THEOREM StoreIndexesThm == Spec => []StoreIndexes
<1>1. Init => IndexInv
  BY DEF Init, IndexInv, BatchAhead, HeldBehind, TxIndexesAgree
<1>2. Typed /\ IndexInv /\ StoreInv => StoreIndexes
  BY DEF Typed, IndexInv, StoreInv, TotalsTyped, StoreIndexes, TypeOK
<1> QED
  BY <1>1, <1>2, InitTyped, NextTyped, NextIndexInv, StoreStarts, NextStoreInv, PTL DEF Spec

\* A packet shows one of its longest paths, and each observation of a packet
\* in the store is sent to the browsers once (websocket.go, store.go).
THEOREM BroadcastsTheBestThm == Spec => []BroadcastsTheBest
<1>1. Init => IndexInv
  BY DEF Init, IndexInv, BatchAhead, HeldBehind, TxIndexesAgree
<1>2. StoreInv => BroadcastsTheBest
  BY DEF StoreInv, BroadcastsTheBest
<1> QED
  BY <1>1, <1>2, InitTyped, NextTyped, NextIndexInv, StoreStarts, NextStoreInv, PTL DEF Spec
=============================================================================
