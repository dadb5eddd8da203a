---------------------------- MODULE Packets_proof ----------------------------
(***************************************************************************)
(* Proofs about the packets page: the list and the index by hash           *)
(* (PktList), its filters, columns and sorts (PktFilters), and the detail  *)
(* view, the groups and the bytes of a packet (PktDetail).                 *)
(***************************************************************************)
EXTENDS PktList, PktDetail, FunctionTheorems, SequenceTheorems, TLAPS

------------------------------------------------------------------------------
(* The visits of the packets page: a handler that is registered is that of *)
(* the visit that is on, or of one whose init came to an end after it.     *)
Own == IF on THEN {visit} ELSE {}
LifeInv ==
    /\ visit \in Nat /\ overtaken \in Nat /\ wsHandler \in Nat /\ on \in BOOLEAN
    /\ registered \in SUBSET (1..visit)
    /\ \A i \in inits : i.v \in 1..visit
    /\ wsHandler # 0 => wsHandler \in registered
    /\ on /\ wsHandler = 0 => visit \notin registered
    /\ Cardinality(registered \ Own) <= overtaken
    /\ overtaken = 0 => registered = (IF on /\ wsHandler # 0 THEN {visit} ELSE {})
DrawInv == (built => on) /\ NoLostRender

\* The visits up to now are finitely many, and so is every set of them.
LEMMA VisitsFinite ==
  ASSUME NEW n \in Nat, NEW S \in SUBSET (1..n)
  PROVE  IsFiniteSet(S) /\ Cardinality(S) \in Nat
<1>1. IsFiniteSet(1..n)
  <2>1. 1 \in Int /\ n \in Int
    OBVIOUS
  <2> QED BY <2>1, FS_Interval
<1>2. IsFiniteSet(S)
  BY <1>1, FS_Subset
<1> QED BY <1>2, FS_CardinalityType

\* Before the first visit nobody listens and nothing is drawn.
LEMMA LifeStarts == ListInit => LifeInv /\ DrawInv
<1> SUFFICES ASSUME ListInit PROVE LifeInv /\ DrawInv
  OBVIOUS
<1>1. Cardinality({}) = 0 /\ registered \ Own = {}
  BY FS_EmptySet DEF ListInit
<1>2. LifeInv
  <2>1. visit = 0 /\ overtaken = 0 /\ wsHandler = 0 /\ on = FALSE /\ registered = {} /\ inits = {}
    BY DEF ListInit
  <2>2. Cardinality(registered \ Own) <= overtaken
    BY <1>1, <2>1
  <2> QED BY <2>1, <2>2 DEF LifeInv
<1> QED BY <1>2 DEF ListInit, DrawInv, NoLostRender

\* A visit that begins has a handler to register and none yet.
LEMMA MountStep == ASSUME LifeInv, initPackets PROVE LifeInv'
<1> USE DEF LifeInv, initPackets
<1>1. visit \in Nat /\ visit' = visit + 1 /\ ~on /\ on'
  OBVIOUS
<1>2. visit + 1 \notin registered /\ registered' = registered /\ registered \in SUBSET (1..(visit + 1))
  BY <1>1
<1>3. (registered \ Own)' = registered \ Own
  BY <1>1, <1>2 DEF Own
<1>4. overtaken' = overtaken /\ wsHandler' = wsHandler
  OBVIOUS
<1>5. \A i \in inits' : i.v \in 1..visit'
  <2> SUFFICES ASSUME NEW i \in inits' PROVE i.v \in 1..(visit + 1)
    BY <1>1
  <2>1. CASE i \in inits
    BY <2>1, <1>1
  <2>2. CASE i = [v |-> visit + 1, l |-> nload + 1]
    BY <2>2, <1>1
  <2> QED BY <2>1, <2>2
<1>6. overtaken = 0 => registered = {} /\ wsHandler = 0
  BY <1>1
<1>7. overtaken' = 0 => registered' = (IF on' /\ wsHandler' # 0 THEN {visit'} ELSE {})
  BY <1>2, <1>4, <1>6
<1>8. Cardinality(registered' \ Own') <= overtaken'
  BY <1>3, <1>4
<1>9. /\ visit' \in Nat /\ overtaken' \in Nat /\ wsHandler' \in Nat /\ on' \in BOOLEAN /\ registered' \in SUBSET (1..visit')
      /\ (wsHandler' # 0 => wsHandler' \in registered') /\ visit' \notin registered'
  BY <1>1, <1>2, <1>4
<1> QED BY ONLY <1>5, <1>7, <1>8, <1>9 DEF LifeInv

\* init registers the handler of its visit; that of a visit already left is
\* one that was overtaken.
LEMMA InitEndsStep == ASSUME LifeInv, NEW i \in inits, initEnds(i) PROVE LifeInv'
<1> DEFINE w == i.v
<1>1. w \in 1..visit /\ visit \in Nat /\ w # 0 /\ w \in Nat
  BY DEF LifeInv
<1>2. visit' = visit /\ on' = on /\ wsHandler' = w /\ registered' = registered \union {w} /\ inits' = inits \ {i}
      /\ overtaken' = (IF on /\ w = visit THEN overtaken ELSE overtaken + 1)
  BY DEF initEnds
<1> HIDE DEF w
<1>3. registered' \in SUBSET (1..visit)
  BY <1>1, <1>2 DEF LifeInv
<1>4. Cardinality(registered' \ Own) <= overtaken' /\ overtaken' \in Nat
  <2>1. IsFiniteSet(registered \ Own) /\ Cardinality(registered \ Own) \in Nat
    BY VisitsFinite DEF LifeInv
  <2>2. CASE on /\ w = visit
    <3>1. registered' \ Own = registered \ Own
      BY <2>2, <1>2 DEF Own
    <3> QED BY <3>1, <2>2, <1>2 DEF LifeInv
  <2>3. CASE ~(on /\ w = visit)
    <3>1. registered' \ Own = (registered \ Own) \union {w}
      BY <2>3, <1>2, <1>1 DEF Own
    <3>2. Cardinality((registered \ Own) \union {w}) <= Cardinality(registered \ Own) + 1
      <4>1. Cardinality((registered \ Own) \union {w}) = IF w \in registered \ Own THEN Cardinality(registered \ Own) ELSE Cardinality(registered \ Own) + 1
        BY <2>1, FS_AddElement
      <4> QED BY <4>1, <2>1
    <3>3. Cardinality((registered \ Own) \union {w}) \in Nat
      BY <2>1, FS_AddElement, FS_CardinalityType
    <3>4. overtaken' = overtaken + 1 /\ overtaken \in Nat /\ Cardinality(registered \ Own) <= overtaken
      BY <2>3, <1>2 DEF LifeInv
    <3> QED BY <3>1, <3>2, <3>3, <3>4, <2>1
  <2> QED BY <2>2, <2>3
<1>5. Own' = Own
  BY <1>2 DEF Own
<1>6. overtaken' = 0 => registered' = {visit} /\ on
  <2> HAVE overtaken' = 0
  <2>1. on /\ w = visit /\ overtaken = 0
    BY <1>2 DEF LifeInv
  <2>2. registered \in SUBSET {visit}
    BY <2>1 DEF LifeInv
  <2> QED BY <2>1, <2>2, <1>2
<1>7. \A k \in inits' : k.v \in 1..visit
  BY <1>2 DEF LifeInv
<1>8. on \in BOOLEAN /\ w \in registered'
  BY <1>2 DEF LifeInv
<1>9. overtaken' = 0 => registered' = (IF on' /\ wsHandler' # 0 THEN {visit'} ELSE {})
  BY <1>1, <1>2, <1>6
<1>10. Cardinality(registered' \ Own') <= overtaken'
  BY <1>4, <1>5
<1> QED BY <1>1, <1>2, <1>3, <1>4, <1>7, <1>8, <1>9, <1>10 DEF LifeInv

\* destroy takes the handler of the visit that ends away, if it was
\* registered.
LEMMA DestroyStep == ASSUME LifeInv, destroy PROVE LifeInv'
<1>1. /\ on /\ on' = FALSE /\ visit' = visit /\ overtaken' = overtaken /\ wsHandler' = 0 /\ inits' = inits
      /\ registered' = registered \ {wsHandler}
  BY DEF destroy
<1>2. Own = {visit} /\ Own' = {}
  BY <1>1 DEF Own
<1>3. /\ visit \in Nat /\ overtaken \in Nat /\ wsHandler \in Nat /\ registered \in SUBSET (1..visit)
      /\ (wsHandler # 0 => wsHandler \in registered) /\ (wsHandler = 0 => visit \notin registered)
      /\ Cardinality(registered \ {visit}) <= overtaken
  BY <1>1, <1>2 DEF LifeInv
<1>4. IsFiniteSet(registered) /\ Cardinality(registered) \in Nat
  BY <1>3, VisitsFinite
<1>5. Cardinality(registered \ {wsHandler}) <= overtaken
  <2>1. CASE wsHandler = 0
    <3>1. registered \ {wsHandler} = registered \ {visit}
      BY <2>1, <1>3
    <3> QED BY <3>1, <1>3
  <2>2. CASE wsHandler # 0 /\ visit \in registered
    <3>1. Cardinality(registered \ {wsHandler}) = Cardinality(registered) - 1
      BY <2>2, <1>3, <1>4, FS_RemoveElement
    <3>2. Cardinality(registered \ {visit}) = Cardinality(registered) - 1
      BY <2>2, <1>4, FS_RemoveElement
    <3> QED BY <3>1, <3>2, <1>3
  <2>3. CASE wsHandler # 0 /\ visit \notin registered
    <3>1. Cardinality(registered \ {wsHandler}) = Cardinality(registered) - 1
      BY <2>3, <1>3, <1>4, FS_RemoveElement
    <3>2. registered \ {visit} = registered
      BY <2>3
    <3>3. Cardinality(registered) <= overtaken
      BY <3>2, <1>3
    <3> QED BY ONLY <3>1, <3>3, <1>3, <1>4
  <2> QED BY <2>1, <2>2, <2>3
<1>6. overtaken = 0 => registered \ {wsHandler} = {}
  BY <1>1, <1>3 DEF LifeInv
<1>7. registered' \ Own' = registered \ {wsHandler}
  BY <1>1, <1>2
<1>8. Cardinality(registered' \ Own') <= overtaken'
  BY <1>1, <1>5, <1>7
<1> QED BY <1>1, <1>3, <1>6, <1>8 DEF LifeInv

\* What touches neither visits nor handlers keeps LifeInv.
LEMMA LifeRests == ASSUME LifeInv, UNCHANGED life PROVE LifeInv'
<1>1. UNCHANGED <<visit, on, inits, registered, wsHandler, overtaken>>
  BY DEF life
<1> QED BY <1>1 DEF LifeInv, Own

\* Every step of the list keeps LifeInv.
LEMMA LifeStepHolds == LifeInv /\ [ListNext]_listVars => LifeInv'
<1> SUFFICES ASSUME LifeInv, [ListNext]_listVars PROVE LifeInv'
  OBVIOUS
<1>1. CASE initPackets
  BY <1>1, MountStep
<1>2. ASSUME NEW i \in inits, initEnds(i) PROVE LifeInv'
  BY <1>2, InitEndsStep
<1>3. CASE destroy
  BY <1>3, DestroyStep
<1>4. CASE ClickReload \/ fGroup \/ onSort \/ pktPause \/ flushBatch \/ wsFrame
  <2>1. UNCHANGED life
    BY <1>4 DEF ClickReload, fGroup, onSort, pktPause, flushBatch, wsFrame
  <2> QED BY <2>1, LifeRests
<1>5. ASSUME NEW l \in loadsAt, loadAnswers(l) \/ loadFails(l) PROVE LifeInv'
  <2>1. UNCHANGED life
    BY <1>5 DEF loadAnswers, loadFails
  <2> QED BY <2>1, LifeRests
<1>6. ASSUME NEW l \in loadsAt, loadEnds(l) PROVE LifeInv'
  <2>1. UNCHANGED <<visit, on, inits, registered, wsHandler, overtaken>>
    BY <1>6 DEF loadEnds
  <2> QED BY <2>1 DEF LifeInv, Own
<1>7. ASSUME NEW h \in PktHashes, Heard(h) PROVE LifeInv'
  <2>1. UNCHANGED life
    BY <1>7 DEF Heard
  <2> QED BY <2>1, LifeRests
<1>8. ASSUME NEW x \in merges, merge(x) PROVE LifeInv'
  <2>1. UNCHANGED life
    BY <1>8 DEF merge
  <2> QED BY <2>1, LifeRests
<1>9. CASE UNCHANGED listVars
  <2>1. UNCHANGED life
    BY <1>9 DEF listVars, life
  <2> QED BY <2>1, LifeRests
<1> QED BY <1>1, <1>2, <1>3, <1>4, <1>5, <1>6, <1>7, <1>8, <1>9 DEF ListNext

\* Every step leaves the list drawn or its drawing due.
LEMMA DrawStepHolds == DrawInv /\ [ListNext]_listVars => DrawInv'
<1> SUFFICES ASSUME DrawInv, [ListNext]_listVars PROVE DrawInv'
  OBVIOUS
<1> USE DEF DrawInv, NoLostRender
<1>1. CASE initPackets
  BY <1>1 DEF initPackets
<1>2. ASSUME NEW i \in inits, initEnds(i) PROVE DrawInv'
  BY <1>2 DEF initEnds
<1>3. CASE destroy
  BY <1>3 DEF destroy
<1>4. CASE ClickReload \/ fGroup
  <2>1. UNCHANGED <<on, built, stale, wsRafId>> /\ \A l \in loadsAt : l \in loadsAt'
    BY <1>4 DEF ClickReload, fGroup, life
  <2> QED BY <2>1
<1>5. CASE onSort
  BY <1>5 DEF onSort, life
<1>6. CASE pktPause \/ flushBatch
  <2>1. UNCHANGED <<on, built, stale, wsRafId, loadsAt>>
    BY <1>6 DEF pktPause, flushBatch, life
  <2> QED BY <2>1
<1>7. ASSUME NEW l \in loadsAt, loadAnswers(l) PROVE DrawInv'
  <2>1. [l EXCEPT !.at = "kids"] \in loadsAt' /\ UNCHANGED <<on, built>>
    BY <1>7 DEF loadAnswers, life
  <2>2. [l EXCEPT !.at = "kids"].at = "kids"
    OBVIOUS
  <2> QED BY <2>1, <2>2
<1>8. ASSUME NEW l \in loadsAt, loadFails(l) PROVE DrawInv'
  <2>1. UNCHANGED <<on, built, stale, wsRafId>> /\ l.at = "net" /\ loadsAt' = loadsAt \ {l}
    BY <1>8 DEF loadFails, life
  <2>2. \A k \in loadsAt : k.at = "kids" => k \in loadsAt'
    BY <2>1
  <2> QED BY <2>1, <2>2
<1>9. ASSUME NEW l \in loadsAt, loadEnds(l) PROVE DrawInv'
  <2>1. on' = on /\ built' = (built \/ on) /\ stale' = (stale /\ ~on)
    BY <1>9 DEF loadEnds
  <2> QED BY <2>1
<1>10. ASSUME NEW h \in PktHashes, Heard(h) PROVE DrawInv'
  <2>1. UNCHANGED <<on, built, stale, wsRafId, loadsAt>>
    BY <1>10 DEF Heard, life
  <2> QED BY <2>1
<1>11. ASSUME NEW x \in merges, merge(x) PROVE DrawInv'
  <2>1. UNCHANGED <<on, built>> /\ wsRafId' = TRUE
    BY <1>11 DEF merge, life
  <2> QED BY <2>1
<1>12. CASE wsFrame
  <2>1. UNCHANGED <<on, built>> /\ stale' = (stale /\ ~(on /\ built))
    BY <1>12 DEF wsFrame, life
  <2> QED BY <2>1
<1>13. CASE UNCHANGED listVars
  <2>1. UNCHANGED <<on, built, stale, wsRafId, loadsAt>>
    BY <1>13 DEF listVars
  <2> QED BY <2>1
<1> QED BY <1>1, <1>2, <1>3, <1>4, <1>5, <1>6, <1>7, <1>8, <1>9, <1>10, <1>11, <1>12, <1>13 DEF ListNext

\* At most the overtaken visits listen beside the present one.
LEMMA LifeCounts == LifeInv => HandlersCounted
<1> SUFFICES ASSUME LifeInv PROVE HandlersCounted
  OBVIOUS
<1>1. IsFiniteSet(registered \ Own) /\ Cardinality(registered \ Own) \in Nat /\ IsFiniteSet(registered) /\ Cardinality(registered) \in Nat
  BY VisitsFinite DEF LifeInv
<1>2. Cardinality(registered) <= Cardinality(registered \ Own) + 1
  <2>1. CASE ~on \/ visit \notin registered
    <3>1. registered \ Own = registered
      BY <2>1 DEF Own
    <3> QED BY <3>1, <1>1
  <2>2. CASE on /\ visit \in registered
    <3>1. Cardinality(registered \ {visit}) = Cardinality(registered) - 1
      BY <2>2, <1>1, FS_RemoveElement
    <3>2. Own = {visit}
      BY <2>2 DEF Own
    <3> QED BY <3>1, <3>2, <1>1
  <2> QED BY <2>1, <2>2
<1>3. Cardinality(registered) <= 1 + overtaken
  BY <1>1, <1>2 DEF LifeInv
<1> QED BY <1>3 DEF LifeInv, HandlersCounted

------------------------------------------------------------------------------
(* The index of groups: every row has its hash's entry and every entry its *)
(* row, whatever is merged, sorted and cut off.                            *)
Rows_ == Seq([o : Nat, h : PktHashes, t : Nat])
Index == [PktHashes -> Nat]
Paired(rows, idx) ==
    /\ \A i \in DOMAIN rows : rows[i].o # 0 /\ idx[rows[i].h] = rows[i].o
    /\ \A i, j \in DOMAIN rows : rows[i].h = rows[j].h => i = j
    /\ \A h \in PktHashes : idx[h] # 0 => \E i \in DOMAIN rows : rows[i].h = h
Exact(rows, idx) == rows \in Rows_ /\ idx \in Index /\ Paired(rows, idx)

\* An element of a sequence is of the sequence's set.
LEMMA MemberIs == ASSUME NEW M, NEW s \in Seq(M), NEW i \in DOMAIN s PROVE s[i] \in M /\ i \in Nat /\ i \in 1..Len(s)
  OBVIOUS

\* What a row of the list consists of.
LEMMA RowIs ==
  ASSUME NEW rows \in Rows_, NEW i \in DOMAIN rows
  PROVE  i \in Nat /\ rows[i].o \in Nat /\ rows[i].h \in PktHashes /\ rows[i].t \in Nat
<1>1. rows[i] \in [o : Nat, h : PktHashes, t : Nat] /\ i \in Nat
  <2>1. rows \in Seq([o : Nat, h : PktHashes, t : Nat])
    BY DEF Rows_
  <2> QED BY ONLY <2>1, i \in DOMAIN rows, MemberIs
<1> QED BY <1>1

\* Comparing times and, among equals, positions is a strict total order.
LEMMA ByTimeOrders == ASSUME NEW rows \in Rows_, NEW up PROVE StrictlyOrders(ByTime(rows, up), DOMAIN rows)
<1> DEFINE R == ByTime(rows, up)
           ps == DOMAIN rows
           less(a, b) == IF up THEN a < b ELSE a > b
<1>1. \A i \in ps : i \in Int /\ rows[i].t \in Int
  BY RowIs
<1>2. \A i, j \in ps : <<i, j>> \in R <=> less(rows[i].t, rows[j].t) \/ (rows[i].t = rows[j].t /\ i < j)
  BY DEF ByTime
<1> HIDE DEF R, ps
<1>3. \A i \in ps : <<i, i>> \notin R
  BY <1>1, <1>2
<1>4. \A i, j \in ps : i # j => <<i, j>> \in R \/ <<j, i>> \in R
  BY <1>1, <1>2
<1>5. \A i, j, k \in ps : <<i, j>> \in R /\ <<j, k>> \in R => <<i, k>> \in R
  BY <1>1, <1>2
<1>6. StrictlyOrders(R, ps)
  BY <1>3, <1>4, <1>5 DEF StrictlyOrders
<1> QED BY <1>6 DEF R, ps

\* Sorting returns the rows in other places, each once.
LEMMA SortedIs ==
  ASSUME NEW rows \in Rows_, NEW up
  PROVE  /\ Sorted(rows, up) \in Rows_ /\ Len(Sorted(rows, up)) = Len(rows)
         /\ \E at \in [DOMAIN rows -> DOMAIN rows] :
              /\ \A i, j \in DOMAIN rows : at[i] = at[j] => i = j
              /\ \A p \in DOMAIN rows : \E i \in DOMAIN rows : at[i] = p
              /\ \A i \in DOMAIN rows : Sorted(rows, up)[i] = rows[at[i]]
<1> DEFINE R == ByTime(rows, up)
           ps == DOMAIN rows
           place == [i \in ps |-> Placed(ps, R, i)]
<1>1. StrictlyOrders(R, ps)
  BY ByTimeOrders
<1>2. rows \in Seq([o : Nat, h : PktHashes, t : Nat])
  BY DEF Rows_
<1>3. /\ Arranged(rows, R) \in Seq([o : Nat, h : PktHashes, t : Nat]) /\ Len(Arranged(rows, R)) = Len(rows)
      /\ \A i \in DOMAIN rows : Placed(DOMAIN rows, R, i) \in DOMAIN rows /\ Arranged(rows, R)[i] = rows[Placed(DOMAIN rows, R, i)]
      /\ \A i, j \in DOMAIN rows : i < j => <<Placed(DOMAIN rows, R, i), Placed(DOMAIN rows, R, j)>> \in R
      /\ \A p \in DOMAIN rows : \E i \in DOMAIN rows : p = Placed(DOMAIN rows, R, i)
  <2> HIDE DEF R
  <2> QED BY <1>1, <1>2, ArrangedIs
<1>4. Sorted(rows, up) = Arranged(rows, R)
  BY DEF Sorted
<1>5. \A i \in ps : i \in Int
  BY <1>2
<1> HIDE DEF R
<1>6. place \in [ps -> ps] /\ \A i \in ps : place[i] = Placed(ps, R, i)
  BY <1>3
<1> HIDE DEF ps, place
<1>7. \A i, j \in ps : place[i] = place[j] => i = j
  <2> SUFFICES ASSUME NEW i \in ps, NEW j \in ps, place[i] = place[j] PROVE i = j
    OBVIOUS
  <2>1. ~(i < j)
    <3> SUFFICES ASSUME i < j PROVE FALSE
      OBVIOUS
    <3>1. <<place[i], place[j]>> \in R
      BY <1>3, <1>6 DEF ps
    <3> QED BY <3>1, <1>1, <1>6 DEF StrictlyOrders
  <2>2. ~(j < i)
    <3> SUFFICES ASSUME j < i PROVE FALSE
      OBVIOUS
    <3>1. <<place[j], place[i]>> \in R
      BY <1>3, <1>6 DEF ps
    <3> QED BY <3>1, <1>1, <1>6 DEF StrictlyOrders
  <2> QED BY <2>1, <2>2, <1>5
<1>8. \A p \in ps : \E i \in ps : place[i] = p
  BY <1>3, <1>6 DEF ps
<1>9. \A i \in ps : Sorted(rows, up)[i] = rows[place[i]]
  BY <1>3, <1>4, <1>6 DEF ps
<1> QED BY <1>3, <1>4, <1>6, <1>7, <1>8, <1>9 DEF ps, Rows_

\* A sorted list agrees with the same index.
LEMMA SortedPaired == ASSUME NEW rows, NEW idx, Exact(rows, idx), NEW up PROVE Exact(Sorted(rows, up), idx)
<1> DEFINE s == Sorted(rows, up)
           ps == DOMAIN rows
<1>1. rows \in Rows_
  BY DEF Exact
<1>2. s \in Rows_ /\ Len(s) = Len(rows)
  BY <1>1, SortedIs
<1>3. PICK at \in [ps -> ps] :
              /\ \A i, j \in ps : at[i] = at[j] => i = j
              /\ \A p \in ps : \E i \in ps : at[i] = p
              /\ \A i \in ps : s[i] = rows[at[i]]
  <2>1. rows \in Rows_
    BY <1>1
  <2> QED BY ONLY <2>1, SortedIs DEF s, ps
<1> HIDE DEF s
<1>4. DOMAIN s = ps
  BY <1>1, <1>2 DEF Rows_
<1>5. Paired(rows, idx) /\ idx \in Index
  BY DEF Exact
<1> HIDE DEF ps
<1>6. \A i \in ps : s[i].o # 0 /\ idx[s[i].h] = s[i].o
  BY <1>3, <1>5 DEF Paired, ps
<1>7. \A i, j \in ps : s[i].h = s[j].h => i = j
  BY <1>3, <1>5 DEF Paired, ps
<1>8. \A h \in PktHashes : idx[h] # 0 => \E i \in ps : s[i].h = h
  BY <1>3, <1>5 DEF Paired, ps
<1>9. Paired(s, idx)
  BY <1>4, <1>6, <1>7, <1>8 DEF Paired
<1> QED BY <1>2, <1>5, <1>9 DEF Exact, s

\* The lesser of two numbers.
LEMMA LesserOf == ASSUME NEW a \in Int, NEW b \in Int PROVE Min({a, b}) = IF a <= b THEN a ELSE b
<1> DEFINE c == IF a <= b THEN a ELSE b
<1>1. c \in {a, b} /\ \A y \in {a, b} : c <= y
  OBVIOUS
<1>2. \A x \in {a, b} : (\A y \in {a, b} : x <= y) => x = c
  OBVIOUS
<1> HIDE DEF c
<1>3. Min({a, b}) = c
  BY <1>1, <1>2 DEF Min
<1> QED BY <1>3 DEF c

\* The greater of two numbers.
LEMMA GreaterOf == ASSUME NEW a \in Int, NEW b \in Int PROVE Max({a, b}) = IF a >= b THEN a ELSE b
<1> DEFINE c == IF a >= b THEN a ELSE b
<1>1. c \in {a, b} /\ \A y \in {a, b} : c >= y
  OBVIOUS
<1>2. \A x \in {a, b} : (\A y \in {a, b} : x >= y) => x = c
  OBVIOUS
<1> HIDE DEF c
<1>3. Max({a, b}) = c
  BY <1>1, <1>2 DEF Max
<1> QED BY <1>3 DEF c

\* The first rows of a list.
LEMMA CutIs ==
  ASSUME NEW M, NEW rows \in Seq(M), NEW k \in Nat
  PROVE  LET n == Min({Len(rows), k}) IN
         /\ n = (IF Len(rows) <= k THEN Len(rows) ELSE k) /\ SubSeq(rows, 1, n) \in Seq(M) /\ Len(SubSeq(rows, 1, n)) = n
         /\ \A i \in 1..n : i \in DOMAIN rows /\ SubSeq(rows, 1, n)[i] = rows[i]
<1> DEFINE n == Min({Len(rows), k})
<1>1. Len(rows) \in Nat
  OBVIOUS
<1>2. n = (IF Len(rows) <= k THEN Len(rows) ELSE k)
  BY <1>1, LesserOf
<1> HIDE DEF n
<1>3. n \in 0..Len(rows)
  BY <1>1, <1>2
<1>4. SubSeq(rows, 1, n) \in Seq(M) /\ Len(SubSeq(rows, 1, n)) = n /\ \A i \in 1..n : i \in DOMAIN rows /\ SubSeq(rows, 1, n)[i] = rows[i]
  BY <1>1, <1>3
<1> QED BY <1>2, <1>4 DEF n

\* evict drops rows from the end and their entries from the index: list and
\* index still agree.
LEMMA EvictPaired == ASSUME NEW rows, NEW idx, Exact(rows, idx) PROVE Exact(evict(rows, idx).rows, evict(rows, idx).idx)
<1> DEFINE n == Min({Len(rows), PktLimit})
           s == SubSeq(rows, 1, n)
           x == [h \in PktHashes |-> IF \E i \in (PktLimit + 1)..Len(rows) : rows[i].h = h THEN 0 ELSE idx[h]]
<1>1. rows \in Rows_ /\ idx \in Index /\ Paired(rows, idx) /\ PktLimit \in Nat
  BY PktListAssumption DEF Exact
<1>2. /\ n = (IF Len(rows) <= PktLimit THEN Len(rows) ELSE PktLimit) /\ s \in Rows_ /\ Len(s) = n
      /\ \A i \in 1..n : i \in DOMAIN rows /\ s[i] = rows[i]
  <2>1. rows \in Seq([o : Nat, h : PktHashes, t : Nat])
    BY <1>1 DEF Rows_
  <2>2. /\ n = (IF Len(rows) <= PktLimit THEN Len(rows) ELSE PktLimit) /\ s \in Seq([o : Nat, h : PktHashes, t : Nat]) /\ Len(s) = n
        /\ \A i \in 1..n : i \in DOMAIN rows /\ s[i] = rows[i]
    <3>1. PktLimit \in Nat
      BY <1>1
    <3> DEFINE M == [o : Nat, h : PktHashes, t : Nat]
    <3>2. rows \in Seq(M)
      BY <2>1
    <3> HIDE DEF M
    <3>3. /\ n = (IF Len(rows) <= PktLimit THEN Len(rows) ELSE PktLimit) /\ s \in Seq(M) /\ Len(s) = n
          /\ \A i \in 1..n : i \in DOMAIN rows /\ s[i] = rows[i]
      BY ONLY <3>1, <3>2, CutIs
    <3> QED BY <3>3 DEF M
  <2> QED BY <2>2 DEF Rows_
<1>3. evict(rows, idx) = [rows |-> s, idx |-> x]
  BY DEF evict
<1>4. Len(rows) \in Nat /\ DOMAIN rows = 1..Len(rows)
  BY <1>1 DEF Rows_
<1> HIDE DEF s, n
<1>5. DOMAIN s = 1..n
  BY <1>2 DEF Rows_
<1>6. x \in Index
  BY <1>1 DEF Index
<1>7. \A i \in DOMAIN rows : rows[i].h \in PktHashes
  BY <1>1, RowIs
<1>8. \A i \in 1..n : s[i].o # 0 /\ x[s[i].h] = s[i].o
  <2> SUFFICES ASSUME NEW i \in 1..n PROVE s[i].o # 0 /\ x[s[i].h] = s[i].o
    OBVIOUS
  <2>1. i \in DOMAIN rows /\ s[i] = rows[i] /\ rows[i].h \in PktHashes /\ i <= PktLimit
    BY <1>1, <1>2, <1>4, <1>7
  <2>2. ~ \E j \in (PktLimit + 1)..Len(rows) : rows[j].h = rows[i].h
    BY <1>1, <1>4, <2>1 DEF Paired
  <2>3. x[rows[i].h] = idx[rows[i].h]
    BY <2>1, <2>2
  <2> QED BY <1>1, <2>1, <2>3 DEF Paired
<1>9. \A i, j \in 1..n : s[i].h = s[j].h => i = j
  BY <1>1, <1>2 DEF Paired
<1>10. \A h \in PktHashes : x[h] # 0 => \E i \in 1..n : s[i].h = h
  <2> SUFFICES ASSUME NEW h \in PktHashes, x[h] # 0 PROVE \E i \in 1..n : s[i].h = h
    OBVIOUS
  <2>1. idx[h] # 0 /\ ~ \E i \in (PktLimit + 1)..Len(rows) : rows[i].h = h
    OBVIOUS
  <2>2. PICK i \in DOMAIN rows : rows[i].h = h
    BY <1>1, <2>1 DEF Paired
  <2>3. i \in 1..n
    BY <1>1, <1>2, <1>4, <2>1, <2>2
  <2> QED BY <1>2, <2>2, <2>3
<1> HIDE DEF x
<1>11. Paired(s, x)
  BY <1>5, <1>8, <1>9, <1>10 DEF Paired
<1> QED BY <1>2, <1>3, <1>6, <1>11 DEF Exact

\* A set of numbers that is not empty has a least.
LEMMA LeastIs == ASSUME NEW S \in SUBSET Nat, S # {} PROVE Min(S) \in S /\ \A k \in S : Min(S) <= k
<1>1. \E m \in S : \A k \in S : m <= k
  BY LeastNumber
<1> QED BY <1>1 DEF Min

\* There is an object number that neither list nor index knows.
LEMMA FreshId ==
  ASSUME NEW rows \in Rows_, NEW idx \in Index
  PROVE  LET used == {idx[g] : g \in PktHashes} \union {rows[i].o : i \in 1..Len(rows)}
         IN Min((1..(Cardinality(used) + 1)) \ used) \in Nat \ {0}
<1> DEFINE A == {idx[g] : g \in PktHashes}
           B == {rows[i].o : i \in 1..Len(rows)}
           used == A \union B
           N == 1..(Cardinality(used) + 1)
<1>1. IsFiniteSet(A)
  <2>1. IsFiniteSet(PktHashes) /\ idx \in Surjection(PktHashes, A)
    BY PktListAssumption DEF Surjection, Index
  <2> QED BY <2>1, FS_Surjection
<1>2. IsFiniteSet(B)
  <2> DEFINE f == [i \in 1..Len(rows) |-> rows[i].o]
  <2>1. f \in Surjection(1..Len(rows), B)
    BY DEF Surjection
  <2>2. Len(rows) \in Int /\ 1 \in Int
    BY DEF Rows_
  <2>3. IsFiniteSet(1..Len(rows))
    BY <2>2, FS_Interval
  <2> HIDE DEF f, B
  <2> QED BY <2>1, <2>3, FS_Surjection
<1>3. IsFiniteSet(used) /\ Cardinality(used) \in Nat
  <2> HIDE DEF A, B
  <2>1. IsFiniteSet(used)
    BY <1>1, <1>2, FS_Union
  <2> QED BY <2>1, FS_CardinalityType
<1> HIDE DEF used
<1>4. IsFiniteSet(N) /\ Cardinality(N) = Cardinality(used) + 1
  <2>1. 1 \in Int /\ Cardinality(used) + 1 \in Int
    BY <1>3
  <2>2. IsFiniteSet(N)
    BY <2>1, FS_Interval
  <2>3. Cardinality(N) = IF 1 > Cardinality(used) + 1 THEN 0 ELSE (Cardinality(used) + 1) - 1 + 1
    BY <2>1, FS_Interval
  <2> QED BY <1>3, <2>2, <2>3
<1>5. N \ used # {}
  <2> SUFFICES ASSUME N \in SUBSET used PROVE FALSE
    OBVIOUS
  <2>1. Cardinality(N) <= Cardinality(used)
    BY <1>3, FS_Subset
  <2> QED BY <1>3, <1>4, <2>1
<1>6. N \ used \in SUBSET Nat /\ 0 \notin N
  BY <1>3
<1>7. Min(N \ used) \in N \ used
  <2> HIDE DEF N
  <2> QED BY <1>5, <1>6, LeastIs
<1>8. Min(N \ used) \in Nat \ {0}
  BY <1>6, <1>7
<1> QED BY <1>8 DEF used

\* A merge of a message into its group, known or new, keeps list and index in
\* agreement.
LEMMA MergedPaired ==
  ASSUME Exact(lst, hashIndex), NEW h \in PktHashes, NEW t \in Nat, MergeGrouped(h, t)
  PROVE  Exact(lst', hashIndex')
<1> DEFINE o == hashIndex[h]
           used == {hashIndex[g] : g \in PktHashes} \union {lst[i].o : i \in 1..Len(lst)}
           new_ == Min((1..(Cardinality(used) + 1)) \ used)
           touched == [i \in 1..Len(lst) |-> IF lst[i].o = o /\ t > lst[i].t THEN [lst[i] EXCEPT !.t = t] ELSE lst[i]]
           fresh == <<[o |-> new_, h |-> h, t |-> t]>> \o lst
           idx == [hashIndex EXCEPT ![h] = new_]
           old == evict(Sorted(touched, asc), hashIndex)
           add == evict(Sorted(fresh, asc), idx)
<1>1. lst' = (IF o # 0 THEN old ELSE add).rows /\ hashIndex' = (IF o # 0 THEN old ELSE add).idx
  BY DEF MergeGrouped
<1>2. lst \in Rows_ /\ hashIndex \in Index /\ Paired(lst, hashIndex)
  BY DEF Exact
<1>3. new_ \in Nat \ {0}
  BY <1>2, FreshId
<1>4. Len(lst) \in Nat /\ DOMAIN lst = 1..Len(lst)
  BY <1>2 DEF Rows_
<1>5. \A i \in 1..Len(lst) : lst[i] \in [o : Nat, h : PktHashes, t : Nat]
  <2> DEFINE M == [o : Nat, h : PktHashes, t : Nat]
  <2>1. lst \in Seq(M)
    BY <1>2 DEF Rows_
  <2> HIDE DEF M
  <2>2. \A i \in 1..Len(lst) : lst[i] \in M
    BY <2>1
  <2> QED BY <2>2 DEF M
<1>6. Exact(touched, hashIndex)
  <2>1. \A i \in 1..Len(lst) : /\ touched[i].o = lst[i].o /\ touched[i].h = lst[i].h
                               /\ touched[i] \in [o : Nat, h : PktHashes, t : Nat]
    <3> SUFFICES ASSUME NEW i \in 1..Len(lst) PROVE touched[i].o = lst[i].o /\ touched[i].h = lst[i].h
                                                    /\ touched[i] \in [o : Nat, h : PktHashes, t : Nat]
      OBVIOUS
    <3>1. touched[i] = (IF lst[i].o = o /\ t > lst[i].t THEN [lst[i] EXCEPT !.t = t] ELSE lst[i])
      OBVIOUS
    <3>2. lst[i] \in [o : Nat, h : PktHashes, t : Nat]
      BY <1>5
    <3> QED BY <3>1, <3>2
  <2>2. DOMAIN touched = 1..Len(lst)
    OBVIOUS
  <2> HIDE DEF touched
  <2>3. Paired(touched, hashIndex)
    <3>1. \A i \in DOMAIN touched : i \in DOMAIN lst /\ touched[i].o = lst[i].o /\ touched[i].h = lst[i].h
      BY ONLY <1>4, <2>1, <2>2
    <3>2. \A i \in DOMAIN lst : i \in DOMAIN touched
      BY ONLY <1>4, <2>2
    <3> QED BY ONLY <1>2, <3>1, <3>2 DEF Paired
  <2>4. touched \in Rows_
    <3> DEFINE M == [o : Nat, h : PktHashes, t : Nat]
    <3>1. \A i \in 1..Len(lst) : touched[i] \in M
      BY <2>1
    <3> HIDE DEF M
    <3>2. touched \in Seq(M)
      <4>1. touched = [i \in 1..Len(lst) |-> touched[i]]
        BY DEF touched
      <4> QED BY <1>4, <3>1, <4>1
    <3> QED BY <3>2 DEF M, Rows_
  <2> QED BY <1>2, <2>3, <2>4 DEF Exact
<1> HIDE DEF new_, touched
<1>7. o = 0 => Exact(fresh, idx)
  <2> HAVE o = 0
  <2>1. idx \in Index
    BY <1>2, <1>3 DEF Index
  <2>2. fresh \in Rows_ /\ Len(fresh) = Len(lst) + 1 /\ fresh[1] = [o |-> new_, h |-> h, t |-> t] /\ \A i \in 1..Len(lst) : fresh[i + 1] = lst[i]
    <3> DEFINE M == [o : Nat, h : PktHashes, t : Nat]
               r == [o |-> new_, h |-> h, t |-> t]
    <3>1. lst \in Seq(M) /\ r \in M
      BY <1>2, <1>3 DEF Rows_
    <3> HIDE DEF M, r
    <3>2. <<r>> \o lst \in Seq(M) /\ Len(<<r>> \o lst) = Len(lst) + 1 /\ (<<r>> \o lst)[1] = r /\ \A i \in 1..Len(lst) : (<<r>> \o lst)[i + 1] = lst[i]
      BY <3>1
    <3> QED BY <3>2 DEF M, r, Rows_
  <2> HIDE DEF fresh
  <2>3. DOMAIN fresh = 1..(Len(lst) + 1)
    BY <2>2 DEF Rows_
  <2>4. \A i \in 1..Len(lst) : lst[i].h # h
    BY <1>2, <1>4 DEF Paired
  <2>5. \A i \in 1..(Len(lst) + 1) : i # 1 => i - 1 \in 1..Len(lst) /\ fresh[i] = lst[i - 1]
    <3> TAKE i \in 1..(Len(lst) + 1)
    <3> HAVE i # 1
    <3>1. i - 1 \in 1..Len(lst) /\ (i - 1) + 1 = i
      BY <1>4
    <3> QED BY <3>1, <2>2
  <2>6. fresh[1].h = h /\ fresh[1].o = new_
    BY <2>2
  <2>7. \A i \in 1..(Len(lst) + 1) : fresh[i].o # 0 /\ idx[fresh[i].h] = fresh[i].o
    <3> SUFFICES ASSUME NEW i \in 1..(Len(lst) + 1) PROVE fresh[i].o # 0 /\ idx[fresh[i].h] = fresh[i].o
      OBVIOUS
    <3>1. CASE i = 1
      BY <1>2, <1>3, <2>6, <3>1 DEF Index
    <3>2. CASE i # 1
      <4>1. i - 1 \in 1..Len(lst) /\ fresh[i] = lst[i - 1]
        BY <2>5, <3>2
      <4>2. lst[i - 1].o # 0 /\ hashIndex[lst[i - 1].h] = lst[i - 1].o /\ lst[i - 1].h # h
        BY <1>2, <1>4, <2>4, <4>1 DEF Paired
      <4>3. idx[lst[i - 1].h] = hashIndex[lst[i - 1].h]
        <5>1. lst[i - 1].h \in PktHashes
          BY <1>5, <4>1
        <5> QED BY <1>2, <4>2, <5>1 DEF Index
      <4> QED BY <4>1, <4>2, <4>3
    <3> QED BY <3>1, <3>2
  <2>8. \A i, j \in 1..(Len(lst) + 1) : fresh[i].h = fresh[j].h => i = j
    <3> SUFFICES ASSUME NEW i \in 1..(Len(lst) + 1), NEW j \in 1..(Len(lst) + 1), fresh[i].h = fresh[j].h PROVE i = j
      OBVIOUS
    <3>1. CASE i = 1 \/ j = 1
      BY <2>4, <2>5, <2>6, <3>1
    <3>2. CASE i # 1 /\ j # 1
      <4>1. i - 1 \in 1..Len(lst) /\ j - 1 \in 1..Len(lst) /\ lst[i - 1].h = lst[j - 1].h
        BY <2>5, <3>2
      <4>2. i - 1 = j - 1
        BY <1>2, <1>4, <4>1 DEF Paired
      <4> QED BY <1>4, <4>2
    <3> QED BY <3>1, <3>2
  <2>9. \A g \in PktHashes : idx[g] # 0 => \E i \in 1..(Len(lst) + 1) : fresh[i].h = g
    <3> SUFFICES ASSUME NEW g \in PktHashes, idx[g] # 0 PROVE \E i \in 1..(Len(lst) + 1) : fresh[i].h = g
      OBVIOUS
    <3>1. CASE g = h
      <4>1. 1 \in 1..(Len(lst) + 1)
        BY <1>4
      <4> QED BY <2>6, <3>1, <4>1
    <3>2. CASE g # h
      <4>1. hashIndex[g] # 0
        BY <1>2, <3>2 DEF Index
      <4>2. PICK i \in 1..Len(lst) : lst[i].h = g
        BY <1>2, <1>4, <4>1 DEF Paired
      <4>3. i + 1 \in 1..(Len(lst) + 1)
        BY <1>4
      <4> QED BY <2>2, <4>2, <4>3
    <3> QED BY <3>1, <3>2
  <2> HIDE DEF idx
  <2>10. Paired(fresh, idx)
    BY <2>3, <2>7, <2>8, <2>9 DEF Paired
  <2> QED BY <2>1, <2>2, <2>10 DEF Exact
<1> HIDE DEF fresh, idx
<1>8. Exact(old.rows, old.idx)
  BY <1>6, SortedPaired, EvictPaired
<1>9. o = 0 => Exact(add.rows, add.idx)
  BY <1>7, SortedPaired, EvictPaired
<1> HIDE DEF old, add
<1>10. CASE o # 0
  BY <1>1, <1>8, <1>10
<1>11. CASE o = 0
  BY <1>1, <1>9, <1>11
<1> QED BY <1>10, <1>11

------------------------------------------------------------------------------
(* The way of a message: batch, pause buffer, hops, list. *)
Taken(n) == [v : Nat, m : 1..n]
FlowTypes ==
    /\ msg \in Nat /\ hashOf \in Seq([h : PktHashes, got : BOOLEAN]) /\ Len(hashOf) = msg
    /\ pend \in Seq(Taken(msg)) /\ pauseBuffer \in Seq(Taken(msg)) /\ Len(pauseBuffer) <= PauseCap
    /\ merges \in SUBSET Taken(msg) /\ merged \in SUBSET Taken(msg) /\ capped \in SUBSET Taken(msg)
    /\ lost \in SUBSET (1..msg)

\* A sequence over a set is one over any larger set.
LEMMA WiderSeq == ASSUME NEW A, NEW B, A \subseteq B, NEW s \in Seq(A) PROVE s \in Seq(B)
<1>1. DOMAIN s = 1..Len(s) /\ Len(s) \in Nat /\ \A i \in 1..Len(s) : s[i] \in B /\ s = [k \in 1..Len(s) |-> s[k]]
  OBVIOUS
<1> QED BY <1>1

\* The newest of what is held back, at most as many as asked for.
LEMMA SuffixIs ==
  ASSUME NEW M, NEW s \in Seq(M), NEW k \in Nat
  PROVE  /\ Suffix(s, k) \in Seq(M) /\ Len(Suffix(s, k)) <= k
         /\ \A i \in DOMAIN Suffix(s, k) : \E j \in DOMAIN s : Suffix(s, k)[i] = s[j]
<1>1. Len(s) \in Nat /\ DOMAIN s = 1..Len(s)
  OBVIOUS
<1>2. CASE Len(s) > k
  <2> DEFINE a == Len(s) - k + 1
             u == SubSeq(s, a, Len(s))
  <2>1. a \in 1..(Len(s) + 1) /\ a \in Int
    BY <1>1, <1>2
  <2>2. u \in Seq(M) /\ Len(u) = k /\ \A i \in 1..k : u[i] = s[a + i - 1]
    <3>1. u = [i \in 1..(Len(s) - a + 1) |-> s[i + a - 1]]
      BY <1>1, <2>1
    <3>2. Len(s) - a + 1 = k
      BY <1>1
    <3>3. \A i \in 1..k : i + a - 1 \in 1..Len(s)
      BY <1>1, <2>1, <3>2
    <3> HIDE DEF a, u
    <3>4. u = [i \in 1..k |-> s[i + a - 1]] /\ \A i \in 1..k : s[i + a - 1] \in M
      BY <3>1, <3>2, <3>3
    <3> QED BY <3>4, <2>1
  <2>3. Suffix(s, k) = u
    BY <1>2 DEF Suffix
  <2>4. \A i \in 1..k : a + i - 1 \in DOMAIN s
    BY <1>1, <1>2
  <2>5. DOMAIN u = 1..k
    BY <2>2
  <2> HIDE DEF u, a
  <2> QED BY <2>2, <2>3, <2>4, <2>5
<1>3. CASE ~(Len(s) > k)
  <2>1. Suffix(s, k) = s
    BY <1>3 DEF Suffix
  <2> QED BY <1>1, <1>3, <2>1
<1> QED BY <1>2, <1>3

\* At the start no message is on its way.
LEMMA FlowStarts == ListInit => FlowTypes
<1> SUFFICES ASSUME ListInit PROVE FlowTypes
  OBVIOUS
<1>1. PauseCap \in Nat
  BY PktListAssumption
<1>2. msg = 0 /\ hashOf = << >> /\ pend = << >> /\ pauseBuffer = << >> /\ merges = {} /\ merged = {} /\ capped = {} /\ lost = {}
  BY DEF ListInit
<1> QED BY <1>1, <1>2 DEF FlowTypes

\* The batch a message is put into, one entry for each handler.
LEMMA HeardBatch ==
  ASSUME LifeInv, FlowTypes, NEW h \in PktHashes, Heard(h)
  PROVE  LET n == Cardinality(registered)
             b == [i \in 1..n |-> [v |-> Nth(registered, i), m |-> msg + 1]]
         IN /\ n \in Nat /\ b \in Seq(Taken(msg + 1)) /\ Len(b) = n /\ pend' = pend \o b
            /\ pend \in Seq(Taken(msg + 1)) /\ pend' \in Seq(Taken(msg + 1))
            /\ (n = 0 <=> registered = {})
<1> DEFINE n == Cardinality(registered)
           b == [i \in 1..n |-> [v |-> Nth(registered, i), m |-> msg + 1]]
<1>1. registered \in SUBSET Int /\ IsFiniteSet(registered) /\ n \in Nat /\ msg \in Nat /\ registered \in SUBSET Nat
  <2>1. visit \in Nat /\ registered \in SUBSET (1..visit)
    BY DEF LifeInv
  <2>2. IsFiniteSet(registered) /\ n \in Nat
    BY <2>1, VisitsFinite
  <2>3. \A x \in registered : x \in Nat
    BY <2>1
  <2> QED BY <2>2, <2>3 DEF FlowTypes
<1>2. \A i \in 1..n : Nth(registered, i) \in registered
  BY <1>1, NthIs
<1>3. \A i \in 1..n : b[i] \in Taken(msg + 1)
  <2> TAKE i \in 1..n
  <2>1. Nth(registered, i) \in Nat /\ msg + 1 \in 1..(msg + 1)
    <3>1. Nth(registered, i) \in registered
      BY <1>2
    <3>2. \A x \in registered : x \in Nat
      BY <1>1
    <3>3. Nth(registered, i) \in Nat
      BY ONLY <3>1, <3>2
    <3>4. msg + 1 \in 1..(msg + 1)
      BY ONLY <1>1
    <3> QED BY <3>3, <3>4
  <2>2. b[i] = [v |-> Nth(registered, i), m |-> msg + 1]
    OBVIOUS
  <2> QED BY <2>1, <2>2 DEF Taken
<1>4. b \in Seq(Taken(msg + 1)) /\ Len(b) = n
  BY <1>1, <1>3
<1>5. Taken(msg) \subseteq Taken(msg + 1)
  <2>1. 1..msg \subseteq 1..(msg + 1)
    BY <1>1
  <2> QED BY <2>1 DEF Taken
<1>6. pend \in Seq(Taken(msg + 1))
  BY <1>5, WiderSeq DEF FlowTypes
<1>7. pend' = pend \o b
  BY DEF Heard
<1>8. n = 0 <=> registered = {}
  BY <1>1, FS_EmptySet
<1> HIDE DEF b, n
<1>9. pend \o b \in Seq(Taken(msg + 1))
  BY <1>4, <1>6
<1> QED BY <1>1, <1>4, <1>6, <1>7, <1>8, <1>9 DEF b, n

\* A message that was heard goes into the batch, into the pause buffer or into
\* the past.
LEMMA HeardFlows == ASSUME LifeInv, FlowTypes, NEW h \in PktHashes, Heard(h) PROVE FlowTypes'
<1>1. msg \in Nat /\ msg' = msg + 1 /\ hashOf' = Append(hashOf, [h |-> h, got |-> registered # {}])
      /\ UNCHANGED <<pauseBuffer, merges, merged, capped, lost>>
  BY DEF Heard, FlowTypes
<1>2. Taken(msg) \subseteq Taken(msg + 1) /\ 1..msg \subseteq 1..(msg + 1)
  <2>1. 1..msg \subseteq 1..(msg + 1)
    BY <1>1
  <2> QED BY <2>1 DEF Taken
<1>3. pend' \in Seq(Taken(msg'))
  BY <1>1, HeardBatch
<1>4. hashOf' \in Seq([h : PktHashes, got : BOOLEAN]) /\ Len(hashOf') = msg'
  <2> DEFINE M == [h : PktHashes, got : BOOLEAN]
             r == [h |-> h, got |-> registered # {}]
  <2>1. r \in M
    BY Zenon
  <2>2. hashOf \in Seq(M) /\ Len(hashOf) = msg
    BY DEF FlowTypes
  <2> HIDE DEF M, r
  <2>3. Append(hashOf, r) \in Seq(M) /\ Len(Append(hashOf, r)) = msg + 1
    BY <2>1, <2>2
  <2> QED BY <2>3, <1>1 DEF M, r
<1>5. pauseBuffer \in Seq(Taken(msg + 1))
  BY <1>2, WiderSeq DEF FlowTypes
<1> QED BY <1>1, <1>2, <1>3, <1>4, <1>5 DEF FlowTypes

\* The members of a sequence are of its set.
LEMMA MembersTaken ==
  ASSUME NEW M, NEW s \in Seq(M)
  PROVE  ToSet(s) \in SUBSET M /\ \A x : x \in ToSet(s) <=> \E i \in DOMAIN s : s[i] = x
<1>1. \A i \in DOMAIN s : s[i] \in M
  OBVIOUS
<1>2. ToSet(s) = {s[i] : i \in DOMAIN s}
  BY DEF ToSet
<1> QED BY <1>1, <1>2

\* Flushing the batch starts one merge for each of its messages.
LEMMA FlushFlows == ASSUME FlowTypes, flushBatch PROVE FlowTypes'
<1> DEFINE M == Taken(msg)
<1>1. pend \in Seq(M) /\ pauseBuffer \in Seq(M) /\ merges \in SUBSET M /\ capped \in SUBSET M /\ PauseCap \in Nat /\ Len(pauseBuffer) <= PauseCap
  BY PktListAssumption DEF FlowTypes
<1>2. pend' = << >> /\ UNCHANGED <<msg, merged, lost, hashOf>>
  BY DEF flushBatch
<1> HIDE DEF M
<1>3. pend' \in Seq(M)
  BY <1>2
<1>4. pauseBuffer' \in Seq(M) /\ Len(pauseBuffer') <= PauseCap /\ merges' \in SUBSET M /\ capped' \in SUBSET M
  <2>1. CASE paused
    <3>1. pauseBuffer' = Suffix(pauseBuffer \o pend, PauseCap) /\ merges' = merges
          /\ capped' = capped \union (ToSet(pauseBuffer \o pend) \ ToSet(pauseBuffer'))
      BY <2>1 DEF flushBatch
    <3>2. pauseBuffer \o pend \in Seq(M)
      BY <1>1
    <3>3. ToSet(pauseBuffer \o pend) \in SUBSET M
      BY <3>2, MembersTaken
    <3>4. pauseBuffer' \in Seq(M) /\ Len(pauseBuffer') <= PauseCap
      BY <1>1, <3>1, <3>2, SuffixIs
    <3> QED BY <1>1, <3>1, <3>3, <3>4
  <2>2. CASE ~paused
    <3>1. pauseBuffer' = pauseBuffer /\ capped' = capped /\ merges' = merges \union ToSet(pend)
      BY <2>2 DEF flushBatch
    <3>2. ToSet(pend) \in SUBSET M
      BY <1>1, MembersTaken
    <3> QED BY <1>1, <3>1, <3>2
  <2> QED BY <2>1, <2>2
<1> QED BY <1>2, <1>3, <1>4 DEF FlowTypes, M

\* What was held back, with the handler of now.
LEMMA ResentIs ==
  ASSUME LifeInv, FlowTypes
  PROVE  LET b == [i \in 1..Len(pauseBuffer) |-> [pauseBuffer[i] EXCEPT !.v = wsHandler]]
         IN /\ b \in Seq(Taken(msg)) /\ Len(b) = Len(pauseBuffer) /\ pend \o b \in Seq(Taken(msg))
            /\ \A i \in 1..Len(pauseBuffer) : b[i] = [v |-> wsHandler, m |-> pauseBuffer[i].m] /\ pauseBuffer[i].m \in 1..msg
<1> DEFINE n == Len(pauseBuffer)
           b == [i \in 1..n |-> [pauseBuffer[i] EXCEPT !.v = wsHandler]]
<1>1. wsHandler \in Nat /\ pauseBuffer \in Seq(Taken(msg)) /\ pend \in Seq(Taken(msg)) /\ n \in Nat
  BY DEF LifeInv, FlowTypes
<1>2. \A i \in 1..n : pauseBuffer[i] \in Taken(msg)
  BY <1>1
<1>3. \A i \in 1..n : b[i] = [v |-> wsHandler, m |-> pauseBuffer[i].m] /\ pauseBuffer[i].m \in 1..msg
  <2> TAKE i \in 1..n
  <2>1. pauseBuffer[i] \in [v : Nat, m : 1..msg]
    BY <1>2 DEF Taken
  <2>2. b[i] = [pauseBuffer[i] EXCEPT !.v = wsHandler]
    OBVIOUS
  <2> QED BY <2>1, <2>2
<1>4. \A i \in 1..n : b[i] \in Taken(msg)
  <2> TAKE i \in 1..n
  <2>1. b[i] = [v |-> wsHandler, m |-> pauseBuffer[i].m] /\ pauseBuffer[i].m \in 1..msg
    BY <1>3
  <2>2. wsHandler \in Nat
    BY <1>1
  <2> QED BY ONLY <2>1, <2>2 DEF Taken
<1>5. b \in Seq(Taken(msg)) /\ Len(b) = n
  BY <1>1, <1>4
<1> HIDE DEF b
<1>6. pend \o b \in Seq(Taken(msg))
  BY <1>1, <1>5
<1> QED BY <1>3, <1>5, <1>6 DEF b

\* Resuming passes the buffered messages through the same handler.
LEMMA PauseFlows == ASSUME LifeInv, FlowTypes, pktPause PROVE FlowTypes'
<1>1. UNCHANGED <<msg, merges, merged, capped, hashOf>>
  BY DEF pktPause
<1>2. PauseCap \in Nat
  BY PktListAssumption
<1>3. CASE ~paused
  <2>1. UNCHANGED <<pend, pauseBuffer, lost>>
    BY <1>3 DEF pktPause
  <2> QED BY <1>1, <2>1 DEF FlowTypes
<1>4. CASE paused /\ wsHandler # 0
  <2>1. pauseBuffer' = << >> /\ lost' = lost /\ pend' = pend \o [i \in 1..Len(pauseBuffer) |-> [pauseBuffer[i] EXCEPT !.v = wsHandler]]
    BY <1>4 DEF pktPause
  <2>2. pend' \in Seq(Taken(msg))
    BY <2>1, ResentIs
  <2>3. pauseBuffer' \in Seq(Taken(msg)) /\ Len(pauseBuffer') <= PauseCap
    BY <1>2, <2>1
  <2> QED BY <1>1, <2>1, <2>2, <2>3 DEF FlowTypes
<1>5. CASE paused /\ wsHandler = 0
  <2>1. pauseBuffer' = << >> /\ pend' = pend /\ lost' = lost \union {pauseBuffer[i].m : i \in 1..Len(pauseBuffer)}
    BY <1>5 DEF pktPause
  <2>2. lost' \in SUBSET (1..msg)
    BY <2>1, ResentIs DEF FlowTypes
  <2> QED BY <1>1, <1>2, <2>1, <2>2 DEF FlowTypes
<1> QED BY <1>3, <1>4, <1>5

\* What touches no message keeps the types.
LEMMA FlowRests == ASSUME FlowTypes, UNCHANGED flow PROVE FlowTypes'
<1>1. UNCHANGED <<msg, pend, pauseBuffer, merges, merged, capped, lost, hashOf>>
  BY DEF flow
<1> QED BY <1>1 DEF FlowTypes

\* Every step keeps the types of what is on its way.
LEMMA FlowStepHolds == LifeInv /\ FlowTypes /\ [ListNext]_listVars => FlowTypes'
<1> SUFFICES ASSUME LifeInv, FlowTypes, [ListNext]_listVars PROVE FlowTypes'
  OBVIOUS
<1>1. CASE initPackets \/ destroy \/ ClickReload \/ fGroup \/ onSort \/ wsFrame
  <2>1. UNCHANGED flow
    BY <1>1 DEF initPackets, destroy, ClickReload, fGroup, onSort, wsFrame
  <2> QED BY <2>1, FlowRests
<1>2. ASSUME NEW i \in inits, initEnds(i) PROVE FlowTypes'
  <2>1. UNCHANGED flow
    BY <1>2 DEF initEnds
  <2> QED BY <2>1, FlowRests
<1>3. ASSUME NEW l \in loadsAt, loadAnswers(l) \/ loadEnds(l) \/ loadFails(l) PROVE FlowTypes'
  <2>1. UNCHANGED flow
    BY <1>3 DEF loadAnswers, loadEnds, loadFails
  <2> QED BY <2>1, FlowRests
<1>4. CASE pktPause
  BY <1>4, PauseFlows
<1>5. CASE flushBatch
  BY <1>5, FlushFlows
<1>6. ASSUME NEW h \in PktHashes, Heard(h) PROVE FlowTypes'
  BY <1>6, HeardFlows
<1>7. ASSUME NEW x \in merges, merge(x) PROVE FlowTypes'
  <2>1. merges' = merges \ {x} /\ merged' = merged \union {x} /\ UNCHANGED <<msg, pend, pauseBuffer, capped, lost, hashOf>>
    BY <1>7 DEF merge
  <2> QED BY <2>1 DEF FlowTypes
<1>8. CASE UNCHANGED listVars
  <2>1. UNCHANGED flow
    BY <1>8 DEF listVars, flow
  <2> QED BY <2>1, FlowRests
<1> QED BY <1>1, <1>2, <1>3, <1>4, <1>5, <1>6, <1>7, <1>8 DEF ListNext

------------------------------------------------------------------------------
(* What the server answers: its packets by the time of the last message,   *)
(* of which no two packets have the same.                                  *)
Dated(snap) == /\ snap \in [PktHashes -> Nat] /\ \A h \in PktHashes : snap[h] <= msg
               /\ \A g, h \in PktHashes : snap[g] > 0 /\ snap[g] = snap[h] => g = h
IndexInv ==
    /\ Dated(latest) /\ \A l \in loadsAt : Dated(l.snap)
    /\ pureGroups => grouped = TRUE /\ Exact(lst, hashIndex)

\* The rows of an answer are numbered, and no two are of one hash.
LEMMA AnswerRows ==
  ASSUME msg \in Nat, NEW snap, Dated(snap)
  PROVE  /\ Answer(snap) \in Rows_
         /\ \A i \in DOMAIN Answer(snap) : Answer(snap)[i].o = i
         /\ \A i, j \in DOMAIN Answer(snap) : Answer(snap)[i].h = Answer(snap)[j].h => i = j
<1> DEFINE hs == {h \in PktHashes : snap[h] > 0}
           R == {gh \in hs \X hs : snap[gh[1]] > snap[gh[2]]}
           c == Cardinality(hs)
           n == Min({c, PktLimit})
           rows == [i \in 1..n |-> [o |-> i, h |-> Placed(hs, R, i), t |-> snap[Placed(hs, R, i)]]]
<1>1. Answer(snap) = rows
  BY DEF Answer
<1>2. snap \in [PktHashes -> Nat] /\ \A h \in hs : h \in PktHashes /\ snap[h] \in Nat /\ snap[h] > 0
  BY DEF Dated
<1>3. \A g, h \in hs : snap[g] = snap[h] => g = h
  BY <1>2 DEF Dated
<1>4. IsFiniteSet(hs)
  <2>1. hs \in SUBSET PktHashes
    OBVIOUS
  <2> HIDE DEF hs
  <2> QED BY <2>1, PktListAssumption, FS_Subset
<1>5. StrictlyOrders(R, hs)
  <2>1. \A g, h \in hs : <<g, h>> \in R <=> snap[g] > snap[h]
    OBVIOUS
  <2> HIDE DEF R, hs
  <2>2. \A g \in hs : <<g, g>> \notin R
    BY <1>2, <2>1
  <2>3. \A g, h \in hs : g # h => <<g, h>> \in R \/ <<h, g>> \in R
    BY <1>2, <1>3, <2>1
  <2>4. \A f, g, h \in hs : <<f, g>> \in R /\ <<g, h>> \in R => <<f, h>> \in R
    BY <1>2, <2>1
  <2> QED BY <2>2, <2>3, <2>4 DEF StrictlyOrders
<1>6. /\ c \in Nat
      /\ \A i \in 1..c : Placed(hs, R, i) \in hs
      /\ \A i, j \in 1..c : i < j => <<Placed(hs, R, i), Placed(hs, R, j)>> \in R
  <2> HIDE DEF R, hs
  <2> QED BY <1>4, <1>5, PlacedIs
<1>7. n \in Nat /\ n <= c
  <2>1. c \in Int /\ PktLimit \in Int /\ PktLimit \in Nat
    BY <1>6, PktListAssumption
  <2> HIDE DEF c
  <2>2. n = IF c <= PktLimit THEN c ELSE PktLimit
    BY <2>1, LesserOf
  <2> QED BY <1>6, <2>1, <2>2 DEF c
<1>8. \A i, j \in 1..c : Placed(hs, R, i) = Placed(hs, R, j) => i = j
  <2> SUFFICES ASSUME NEW i \in 1..c, NEW j \in 1..c, Placed(hs, R, i) = Placed(hs, R, j) PROVE i = j
    OBVIOUS
  <2> HIDE DEF R, hs, c
  <2>1. Placed(hs, R, i) \in hs /\ i \in Int /\ j \in Int
    BY <1>6
  <2>2. <<Placed(hs, R, i), Placed(hs, R, i)>> \notin R
    BY <1>5, <2>1 DEF StrictlyOrders
  <2>3. ~(i < j)
    BY <1>6, <2>2
  <2>4. ~(j < i)
    BY <1>6, <2>2
  <2> QED BY <2>1, <2>3, <2>4
<1> HIDE DEF n, c, R, hs
<1>9. \A i \in 1..n : i \in 1..c /\ i \in Nat
  BY <1>6, <1>7
<1>10. \A i \in 1..n : rows[i] = [o |-> i, h |-> Placed(hs, R, i), t |-> snap[Placed(hs, R, i)]]
  OBVIOUS
<1>11. \A i \in 1..n : rows[i] \in [o : Nat, h : PktHashes, t : Nat]
  BY <1>2, <1>6, <1>9, <1>10
<1>12. rows \in Rows_ /\ DOMAIN rows = 1..n
  <2> DEFINE M == [o : Nat, h : PktHashes, t : Nat]
  <2>1. rows \in [1..n -> M]
    BY <1>11
  <2> HIDE DEF M, rows
  <2>2. rows \in Seq(M)
    BY <1>7, <2>1
  <2> QED BY <2>1, <2>2 DEF M, Rows_
<1> HIDE DEF rows
<1>13. \A i, j \in 1..n : rows[i].h = rows[j].h => i = j
  <2> SUFFICES ASSUME NEW i \in 1..n, NEW j \in 1..n, rows[i].h = rows[j].h PROVE i = j
    OBVIOUS
  <2>1. rows[i].h = Placed(hs, R, i) /\ rows[j].h = Placed(hs, R, j)
    <3>1. rows[i] = [o |-> i, h |-> Placed(hs, R, i), t |-> snap[Placed(hs, R, i)]]
      BY ONLY <1>10, i \in 1..n
    <3>2. rows[j] = [o |-> j, h |-> Placed(hs, R, j), t |-> snap[Placed(hs, R, j)]]
      BY ONLY <1>10, j \in 1..n
    <3> QED BY ONLY <3>1, <3>2
  <2>2. i \in 1..c /\ j \in 1..c
    BY <1>9
  <2> QED BY ONLY <1>8, <2>1, <2>2, rows[i].h = rows[j].h
<1> QED BY <1>1, <1>10, <1>12, <1>13

\* The index built over an answer agrees with its rows.
LEMMA IndexedPaired ==
  ASSUME NEW rows \in Rows_, \A i \in DOMAIN rows : rows[i].o = i, \A i, j \in DOMAIN rows : rows[i].h = rows[j].h => i = j
  PROVE  Exact(rows, IndexOf(rows))
<1> DEFINE of(h) == {rows[i].o : i \in {j \in 1..Len(rows) : rows[j].h = h}}
<1>1. Len(rows) \in Nat /\ DOMAIN rows = 1..Len(rows)
  BY DEF Rows_
<1>2. \A i \in DOMAIN rows : rows[i].h \in PktHashes /\ i \in Nat \ {0}
  BY RowIs, <1>1
<1>3. ASSUME NEW i \in DOMAIN rows PROVE IndexOf(rows)[rows[i].h] = i
  <2>1. of(rows[i].h) = {i}
    BY <1>1
  <2>2. Max({0} \union of(rows[i].h)) = i
    <3>1. {0} \union of(rows[i].h) = {0, i}
      BY <2>1
    <3>2. Max({0, i}) = i
      BY <1>2, GreaterOf
    <3> QED BY <3>1, <3>2
  <2> QED BY <1>2, <2>2 DEF IndexOf
<1>4. ASSUME NEW h \in PktHashes, ~ \E i \in DOMAIN rows : rows[i].h = h PROVE IndexOf(rows)[h] = 0
  <2>1. {0} \union of(h) = {0, 0}
    BY <1>1, <1>4
  <2>2. Max({0, 0}) = 0
    BY GreaterOf
  <2> QED BY <2>1, <2>2 DEF IndexOf
<1>5. IndexOf(rows) \in Index
  <2>1. \A h \in PktHashes : IndexOf(rows)[h] \in Nat
    <3> TAKE h \in PktHashes
    <3>1. CASE \E i \in DOMAIN rows : rows[i].h = h
      BY <1>2, <1>3, <3>1
    <3>2. CASE ~ \E i \in DOMAIN rows : rows[i].h = h
      BY <1>4, <3>2
    <3> QED BY <3>1, <3>2
  <2>2. IndexOf(rows) = [h \in PktHashes |-> IndexOf(rows)[h]]
    BY DEF IndexOf
  <2> QED BY <2>1, <2>2 DEF Index
<1>6. Paired(rows, IndexOf(rows))
  BY <1>2, <1>3, <1>4 DEF Paired
<1> QED BY <1>5, <1>6 DEF Exact

\* The empty list agrees with the empty index.
LEMMA IndexStarts == ListInit => IndexInv
<1> SUFFICES ASSUME ListInit PROVE IndexInv
  OBVIOUS
<1>1. Dated(latest) /\ loadsAt = {}
  BY DEF ListInit, Dated
<1>2. lst = << >> /\ hashIndex = [h \in PktHashes |-> 0] /\ grouped = TRUE
  BY DEF ListInit
<1>3. Exact(lst, hashIndex)
  BY <1>2 DEF Exact, Paired, Rows_, Index
<1> QED BY <1>1, <1>2, <1>3 DEF IndexInv

\* A request that starts takes the times of now.
LEMMA RequestDated == ASSUME IndexInv, UNCHANGED <<msg, latest>>, loadsAt' \in {loadsAt, loadsAt \union {Request}}
                      PROVE  Dated(latest)' /\ \A l \in loadsAt' : Dated(l.snap)'
<1>1. \A s : Dated(s)' <=> Dated(s)
  BY DEF Dated
<1>2. Request.snap = latest
  BY DEF Request
<1> QED BY <1>1, <1>2 DEF IndexInv, Dated

\* The times of the requests under way stay what they were.
LEMMA DatedKept == ASSUME IndexInv, UNCHANGED <<msg, latest>>, \A l \in loadsAt' : \E k \in loadsAt : l.snap = k.snap
                   PROVE  Dated(latest)' /\ \A l \in loadsAt' : Dated(l.snap)'
<1>1. \A s : Dated(s)' <=> Dated(s)
  BY DEF Dated
<1> QED BY <1>1 DEF IndexInv, Dated

\* What touches neither list, index nor times keeps IndexInv.
LEMMA IndexRests == ASSUME IndexInv, UNCHANGED <<lst, hashIndex, pureGroups, grouped>>
                    PROVE pureGroups' => grouped' = TRUE /\ Exact(lst', hashIndex')
  BY DEF IndexInv

\* Every step keeps list and index in agreement while the list is one of
\* groups.
LEMMA IndexStepHolds == FlowTypes /\ IndexInv /\ [ListNext]_listVars => IndexInv'
<1> SUFFICES ASSUME FlowTypes, IndexInv, [ListNext]_listVars PROVE IndexInv'
  OBVIOUS
<1> DEFINE Kept == pureGroups' => grouped' = TRUE /\ Exact(lst', hashIndex')
           Fine == Dated(latest)' /\ \A l \in loadsAt' : Dated(l.snap)'
<1>0. Kept /\ Fine => IndexInv'
  BY DEF IndexInv, Exact, Paired
<1> HIDE DEF Kept, Fine
<1>1. CASE initPackets
  <2>1. UNCHANGED <<lst, hashIndex, pureGroups, grouped, msg, latest>> /\ loadsAt' = loadsAt \union {Request}
    BY <1>1 DEF initPackets, listData, flow
  <2> QED BY <2>1, <1>0, IndexRests, RequestDated DEF Kept, Fine
<1>2. CASE ClickReload
  <2>1. UNCHANGED <<lst, hashIndex, pureGroups, grouped, msg, latest>> /\ loadsAt' = loadsAt \union {Request}
    BY <1>2 DEF ClickReload, listData, flow
  <2> QED BY <2>1, <1>0, IndexRests, RequestDated DEF Kept, Fine
<1>3. CASE fGroup
  <2>1. UNCHANGED <<msg, latest>> /\ loadsAt' = loadsAt \union {Request} /\ pureGroups' = FALSE
    BY <1>3 DEF fGroup, flow
  <2> QED BY <2>1, <1>0, RequestDated DEF Kept, Fine
<1>4. CASE destroy
  <2>1. UNCHANGED <<msg, latest, loadsAt>> /\ lst' = << >> /\ hashIndex' = [h \in PktHashes |-> 0] /\ grouped' = TRUE
    BY <1>4 DEF destroy, flow
  <2>2. Exact(lst', hashIndex')
    BY <2>1 DEF Exact, Paired, Rows_, Index
  <2> QED BY <2>1, <2>2, <1>0, DatedKept DEF Kept, Fine
<1>5. ASSUME NEW i \in inits, initEnds(i) PROVE IndexInv'
  <2>1. UNCHANGED <<lst, hashIndex, pureGroups, grouped, msg, latest, loadsAt>>
    BY <1>5 DEF initEnds, listData, flow
  <2> QED BY <2>1, <1>0, IndexRests, DatedKept DEF Kept, Fine
<1>6. CASE pktPause \/ flushBatch \/ wsFrame
  <2>1. UNCHANGED <<lst, hashIndex, pureGroups, grouped, msg, latest, loadsAt>>
    BY <1>6 DEF pktPause, flushBatch, wsFrame, listData, flow
  <2> QED BY <2>1, <1>0, IndexRests, DatedKept DEF Kept, Fine
<1>7. CASE onSort
  <2>1. UNCHANGED <<hashIndex, pureGroups, grouped, msg, latest, loadsAt>> /\ lst' = Sorted(lst, ~asc)
    BY <1>7 DEF onSort, flow
  <2>2. Kept
    BY <2>1, SortedPaired DEF Kept, IndexInv
  <2> QED BY <2>1, <2>2, <1>0, DatedKept DEF Fine
<1>8. ASSUME NEW l \in loadsAt, loadAnswers(l) PROVE IndexInv'
  <2>1. /\ UNCHANGED <<grouped, msg, latest>> /\ loadsAt' = (loadsAt \ {l}) \union {[l EXCEPT !.at = "kids"]}
        /\ lst' = (IF grouped THEN Answer(l.snap) ELSE Flat(Answer(l.snap))) /\ hashIndex' = IndexOf(Answer(l.snap)) /\ pureGroups' = grouped
    BY <1>8 DEF loadAnswers, flow
  <2>2. Exact(Answer(l.snap), IndexOf(Answer(l.snap)))
    <3>1. msg \in Nat /\ Dated(l.snap)
      BY DEF FlowTypes, IndexInv
    <3> QED BY <3>1, AnswerRows, IndexedPaired
  <2>3. pureGroups' => grouped = TRUE
    <3>1. pureGroups' => pureGroups' = TRUE \/ grouped
      BY <2>1
    <3>2. pureGroups' => grouped
      BY <2>1
    <3> QED BY <2>1, <3>2 DEF IndexInv
  <2>4. Kept
    BY <2>1, <2>2, <2>3 DEF Kept
  <2>5. Fine
    <3>1. [l EXCEPT !.at = "kids"].snap = l.snap
      OBVIOUS
    <3>2. \A k \in loadsAt' : \E j \in loadsAt : k.snap = j.snap
      BY <2>1, <3>1
    <3> QED BY <2>1, <3>2, DatedKept DEF Fine
  <2> QED BY <1>0, <2>4, <2>5
<1>9. ASSUME NEW l \in loadsAt, loadEnds(l) PROVE IndexInv'
  <2>1. UNCHANGED <<hashIndex, pureGroups, grouped, msg, latest>> /\ lst' = Sorted(lst, asc) /\ loadsAt' = loadsAt \ {l}
    BY <1>9 DEF loadEnds, flow
  <2>2. Kept
    BY <2>1, SortedPaired DEF Kept, IndexInv
  <2> QED BY <2>1, <2>2, <1>0, DatedKept DEF Fine
<1>10. ASSUME NEW l \in loadsAt, loadFails(l) PROVE IndexInv'
  <2>1. UNCHANGED <<lst, hashIndex, pureGroups, grouped, msg, latest>> /\ loadsAt' = loadsAt \ {l}
    BY <1>10 DEF loadFails, listData, flow
  <2> QED BY <2>1, <1>0, IndexRests, DatedKept DEF Kept, Fine
<1>11. ASSUME NEW h \in PktHashes, Heard(h) PROVE IndexInv'
  <2>1. UNCHANGED <<lst, hashIndex, pureGroups, grouped, loadsAt>> /\ msg' = msg + 1 /\ latest' = [latest EXCEPT ![h] = msg + 1] /\ msg \in Nat
    BY <1>11 DEF Heard, listData, FlowTypes
  <2>2. \A s : Dated(s) => Dated(s)'
    <3> SUFFICES ASSUME NEW s, Dated(s) PROVE Dated(s)'
      OBVIOUS
    <3>1. s \in [PktHashes -> Nat] /\ \A g \in PktHashes : s[g] \in Nat /\ s[g] <= msg
      BY DEF Dated
    <3> QED BY <3>1, <2>1 DEF Dated
  <2>3. Dated(latest)'
    <3>1. latest \in [PktHashes -> Nat] /\ (\A g \in PktHashes : latest[g] \in Nat /\ latest[g] <= msg)
          /\ \A f, g \in PktHashes : latest[f] > 0 /\ latest[f] = latest[g] => f = g
      BY DEF IndexInv, Dated
    <3>2. latest' \in [PktHashes -> Nat]
      BY <2>1, <3>1
    <3>3. \A g \in PktHashes : latest'[g] = IF g = h THEN msg + 1 ELSE latest[g]
      BY <2>1, <3>1
    <3>4. \A g \in PktHashes : latest'[g] <= msg'
      BY <2>1, <3>1, <3>3
    <3>5. \A f, g \in PktHashes : latest'[f] > 0 /\ latest'[f] = latest'[g] => f = g
      BY <2>1, <3>1, <3>3
    <3> QED BY <3>2, <3>4, <3>5 DEF Dated
  <2>4. Fine
    BY <2>1, <2>2, <2>3 DEF Fine, IndexInv
  <2> QED BY <2>1, <2>4, <1>0, IndexRests DEF Kept
<1>12. ASSUME NEW x \in merges, merge(x) PROVE IndexInv'
  <2>1. UNCHANGED <<pureGroups, grouped, msg, latest, loadsAt>>
    BY <1>12 DEF merge
  <2>2. hashOf[x.m].h \in PktHashes /\ x.m \in Nat
    <3>1. x \in Taken(msg)
      BY DEF FlowTypes
    <3>2. x.m \in 1..msg /\ msg \in Nat
      BY <3>1 DEF Taken, FlowTypes
    <3> DEFINE M == [h : PktHashes, got : BOOLEAN]
    <3>3. hashOf \in Seq(M) /\ Len(hashOf) = msg
      BY DEF FlowTypes
    <3> HIDE DEF M
    <3>4. hashOf[x.m] \in M
      BY <3>2, <3>3
    <3> QED BY <3>2, <3>4 DEF M
  <2>3. Kept
    <3> SUFFICES ASSUME pureGroups' PROVE grouped' = TRUE /\ Exact(lst', hashIndex')
      BY DEF Kept
    <3>1. grouped = TRUE /\ Exact(lst, hashIndex)
      BY <2>1 DEF IndexInv
    <3>2. MergeGrouped(hashOf[x.m].h, x.m)
      BY <1>12, <3>1 DEF merge
    <3> QED BY <2>1, <2>2, <3>1, <3>2, MergedPaired
  <2> QED BY <2>1, <2>3, <1>0, DatedKept DEF Fine
<1>13. CASE UNCHANGED listVars
  <2>1. UNCHANGED <<lst, hashIndex, pureGroups, grouped, msg, latest, loadsAt>>
    BY <1>13 DEF listVars
  <2> QED BY <2>1, <1>0, IndexRests, DatedKept DEF Kept, Fine
<1> QED BY <1>1, <1>2, <1>3, <1>4, <1>5, <1>6, <1>7, <1>8, <1>9, <1>10, <1>11, <1>12, <1>13 DEF ListNext

\* IndexInv says what the index promises.
LEMMA IndexLeads == IndexInv => IndexIsExact
<1> SUFFICES ASSUME IndexInv, pureGroups PROVE /\ \A i \in 1..Len(lst) : hashIndex[lst[i].h] = lst[i].o
                                              /\ \A h \in PktHashes : hashIndex[h] # 0 => \E i \in 1..Len(lst) : lst[i].o = hashIndex[h]
  BY DEF IndexIsExact
<1>1. Paired(lst, hashIndex) /\ lst \in Rows_
  BY DEF IndexInv, Exact
<1>2. DOMAIN lst = 1..Len(lst)
  BY <1>1 DEF Rows_
<1> QED BY <1>1, <1>2 DEF Paired

------------------------------------------------------------------------------
(* One handler, one place: the messages of each place. *)
Ms(s) == {s[i].m : i \in DOMAIN s}
Of(S) == {x.m : x \in S}
OneRecord(s) == \A i, j \in DOMAIN s : s[i].m = s[j].m => s[i] = s[j]
Apart(P, B, H, L, C, D) ==
    /\ \A m \in P : m \notin B /\ m \notin H /\ m \notin L /\ m \notin C /\ m \notin D
    /\ \A m \in B : m \notin H /\ m \notin L /\ m \notin C /\ m \notin D
    /\ \A m \in H : m \notin L /\ m \notin C /\ m \notin D
    /\ \A m \in L : m \notin C /\ m \notin D
    /\ \A m \in C : m \notin D
Got == {m \in 1..msg : hashOf[m].got}
PlacesInv ==
    /\ OneRecord(pend) /\ OneRecord(pauseBuffer) /\ \A x, y \in merges : x.m = y.m => x = y
    /\ Apart(Ms(pend), Ms(pauseBuffer), Of(merges), Of(merged), Of(capped), lost)
    /\ Ms(pend) \union Ms(pauseBuffer) \union Of(merges) \union Of(merged) \union Of(capped) \union lost = Got
OnceInv == overtaken = 0 => PlacesInv

\* The messages of two sequences in a row, none of them in both.
LEMMA JoinIs ==
  ASSUME NEW M, NEW s \in Seq(M), NEW u \in Seq(M)
  PROVE  /\ s \o u \in Seq(M) /\ Ms(s \o u) = Ms(s) \union Ms(u)
         /\ OneRecord(s) /\ OneRecord(u) /\ (\A m \in Ms(s) : m \notin Ms(u)) => OneRecord(s \o u)
<1> DEFINE t == s \o u
<1>1. Len(s) \in Nat /\ Len(u) \in Nat /\ DOMAIN s = 1..Len(s) /\ DOMAIN u = 1..Len(u)
  OBVIOUS
<1>2. t \in Seq(M) /\ Len(t) = Len(s) + Len(u) /\ DOMAIN t = 1..(Len(s) + Len(u))
      /\ \A i \in 1..(Len(s) + Len(u)) : t[i] = IF i <= Len(s) THEN s[i] ELSE u[i - Len(s)]
  OBVIOUS
<1> HIDE DEF t
<1>3. \A i \in DOMAIN t : \/ i \in DOMAIN s /\ t[i] = s[i]
                          \/ i - Len(s) \in DOMAIN u /\ t[i] = u[i - Len(s)]
  BY <1>1, <1>2
<1>4. \A i \in DOMAIN s : i \in DOMAIN t /\ t[i] = s[i]
  BY <1>1, <1>2
<1>5. \A i \in DOMAIN u : i + Len(s) \in DOMAIN t /\ t[i + Len(s)] = u[i]
  <2> TAKE i \in DOMAIN u
  <2>1. i + Len(s) \in 1..(Len(s) + Len(u)) /\ ~(i + Len(s) <= Len(s)) /\ (i + Len(s)) - Len(s) = i
    BY <1>1
  <2> QED BY <1>2, <2>1
<1>6. Ms(t) = Ms(s) \union Ms(u)
  <2>1. ASSUME NEW m \in Ms(t) PROVE m \in Ms(s) \union Ms(u)
    BY <1>3, <2>1 DEF Ms
  <2>2. ASSUME NEW m \in Ms(s) PROVE m \in Ms(t)
    BY <1>4, <2>2 DEF Ms
  <2>3. ASSUME NEW m \in Ms(u) PROVE m \in Ms(t)
    BY <1>5, <2>3 DEF Ms
  <2> QED BY <2>1, <2>2, <2>3
<1>7. ASSUME OneRecord(s), OneRecord(u), \A m \in Ms(s) : m \notin Ms(u) PROVE OneRecord(t)
  <2> SUFFICES ASSUME NEW i \in DOMAIN t, NEW j \in DOMAIN t, t[i].m = t[j].m PROVE t[i] = t[j]
    BY DEF OneRecord
  <2>1. \A a \in DOMAIN s, b \in DOMAIN u : s[a].m # u[b].m
    BY <1>7 DEF Ms
  <2>2. \A a, b \in DOMAIN s : s[a].m = s[b].m => s[a] = s[b]
    BY <1>7 DEF OneRecord
  <2>3. \A a, b \in DOMAIN u : u[a].m = u[b].m => u[a] = u[b]
    BY <1>7 DEF OneRecord
  <2> QED BY <1>3, <2>1, <2>2, <2>3
<1> QED BY <1>2, <1>6, <1>7 DEF t

\* The messages of a sequence are messages there have been.
LEMMA MsIn == ASSUME NEW n, NEW s \in Seq(Taken(n)) PROVE Ms(s) \in SUBSET (1..n)
<1>1. \A i \in DOMAIN s : s[i] \in Taken(n)
  BY MemberIs
<1>2. \A i \in DOMAIN s : s[i].m \in 1..n
  BY <1>1 DEF Taken
<1> QED BY <1>2 DEF Ms

\* The messages of a set of records are messages there have been.
LEMMA OfIn == ASSUME NEW n, NEW S \in SUBSET Taken(n) PROVE Of(S) \in SUBSET (1..n)
  BY DEF Of, Taken

\* A message heard is put in one place.
LEMMA HeardOnce == ASSUME LifeInv, FlowTypes, overtaken = 0, PlacesInv, NEW h \in PktHashes, Heard(h) PROVE PlacesInv'
<1> DEFINE n == Cardinality(registered)
           b == [i \in 1..n |-> [v |-> Nth(registered, i), m |-> msg + 1]]
<1>1. msg \in Nat /\ msg' = msg + 1 /\ hashOf' = Append(hashOf, [h |-> h, got |-> registered # {}])
      /\ UNCHANGED <<pauseBuffer, merges, merged, capped, lost>>
  BY DEF Heard, FlowTypes
<1>2. n \in Nat /\ b \in Seq(Taken(msg + 1)) /\ Len(b) = n /\ pend' = pend \o b /\ pend \in Seq(Taken(msg + 1)) /\ (n = 0 <=> registered = {})
  BY HeardBatch
<1>3. n = 0 \/ n = 1
  <2>1. registered = {} \/ registered = {visit}
    BY DEF LifeInv
  <2> QED BY <2>1, FS_EmptySet, FS_Singleton
<1>4. \A i \in DOMAIN b : b[i].m = msg + 1 /\ i = 1
  BY <1>3
<1>5. OneRecord(b)
  BY <1>4 DEF OneRecord
<1>6. Ms(b) = IF registered = {} THEN {} ELSE {msg + 1}
  <2>1. CASE n = 0
    BY <1>2, <1>4, <2>1 DEF Ms
  <2>2. CASE n = 1
    <3>1. DOMAIN b = 1..1 /\ 1..1 = {1}
      <4>1. DOMAIN b = 1..n
        OBVIOUS
      <4>2. DOMAIN b = 1..1
        BY ONLY <2>2, <4>1
      <4>3. 1..1 = {1}
        BY SMT
      <4> QED BY ONLY <4>2, <4>3
    <3>2. 1 \in DOMAIN b
      BY <3>1
    <3>3. b[1].m = msg + 1
      BY <1>4, <3>2
    <3> HIDE DEF b
    <3> QED BY <1>2, <2>2, <3>1, <3>3 DEF Ms
  <2> QED BY <1>3, <2>1, <2>2
<1>7. Ms(pend) \in SUBSET (1..msg)
  BY MsIn DEF FlowTypes
<1> HIDE DEF b
<1>8. Ms(pend') = Ms(pend) \union Ms(b) /\ OneRecord(pend')
  <2>1. OneRecord(pend) /\ \A m \in Ms(pend) : m \notin Ms(b)
    BY <1>1, <1>6, <1>7 DEF PlacesInv
  <2> QED BY <1>2, <1>5, <2>1, JoinIs
<1>9. Got' = Got \union Ms(b)
  <2>1. Len(hashOf) = msg /\ hashOf \in Seq([h : PktHashes, got : BOOLEAN])
    BY DEF FlowTypes
  <2>2. (\A m \in 1..msg : hashOf'[m] = hashOf[m]) /\ hashOf'[msg + 1] = [h |-> h, got |-> registered # {}]
    <3> DEFINE M == [h : PktHashes, got : BOOLEAN]
               r == [h |-> h, got |-> registered # {}]
    <3>1. hashOf \in Seq(M) /\ Len(hashOf) = msg
      BY <2>1
    <3> HIDE DEF M, r
    <3>2. (\A m \in 1..msg : Append(hashOf, r)[m] = hashOf[m]) /\ Append(hashOf, r)[msg + 1] = r
      BY <1>1, <3>1
    <3> QED BY <1>1, <3>2 DEF r
  <2>3. hashOf'[msg + 1].got <=> registered # {}
    <3>1. [h |-> h, got |-> registered # {}].got = (registered # {})
      BY Zenon
    <3>2. hashOf'[msg + 1].got = (registered # {})
      BY ONLY <2>2, <3>1
    <3> QED BY ONLY <3>2, Zenon
  <2>4. \A m : m \in 1..(msg + 1) <=> m \in 1..msg \/ m = msg + 1
    BY <1>1
  <2>5. \A m \in 1..msg : hashOf'[m].got <=> hashOf[m].got
    BY <2>2
  <2>6. \A m : m \in Got' <=> m \in 1..(msg + 1) /\ hashOf'[m].got
    BY <1>1 DEF Got
  <2>7. \A m : m \in Got <=> m \in 1..msg /\ hashOf[m].got
    BY DEF Got
  <2>8. \A m : m \in Ms(b) <=> registered # {} /\ m = msg + 1
    BY <1>6
  <2>9. \A m : m \in Got' <=> m \in Got \/ m \in Ms(b)
    BY ONLY <2>3, <2>4, <2>5, <2>6, <2>7, <2>8
  <2> QED BY <2>9
<1>10. \A m \in Ms(b) : m \notin Ms(pend) /\ m \notin Ms(pauseBuffer) /\ m \notin Of(merges) /\ m \notin Of(merged) /\ m \notin Of(capped) /\ m \notin lost
  <2>1. Ms(pend) \in SUBSET (1..msg) /\ Ms(pauseBuffer) \in SUBSET (1..msg) /\ Of(merges) \in SUBSET (1..msg) /\ Of(merged) \in SUBSET (1..msg)
        /\ Of(capped) \in SUBSET (1..msg) /\ lost \in SUBSET (1..msg)
    BY MsIn, OfIn DEF FlowTypes
  <2>2. \A m \in Ms(b) : m \notin 1..msg
    BY <1>1, <1>6
  <2> HIDE DEF n
  <2> QED BY ONLY <2>1, <2>2
<1>11. /\ OneRecord(pauseBuffer) /\ (\A x, y \in merges : x.m = y.m => x = y)
       /\ Apart(Ms(pend), Ms(pauseBuffer), Of(merges), Of(merged), Of(capped), lost)
       /\ Ms(pend) \union Ms(pauseBuffer) \union Of(merges) \union Of(merged) \union Of(capped) \union lost = Got
  BY DEF PlacesInv
<1>12. Apart(Ms(pend'), Ms(pauseBuffer), Of(merges), Of(merged), Of(capped), lost)
  BY ONLY <1>8, <1>10, <1>11 DEF Apart
<1>13. Ms(pend') \union Ms(pauseBuffer) \union Of(merges) \union Of(merged) \union Of(capped) \union lost = Got'
  BY ONLY <1>8, <1>9, <1>11
<1>14. pauseBuffer' = pauseBuffer /\ merges' = merges /\ merged' = merged /\ capped' = capped /\ lost' = lost
  BY <1>1
<1> QED BY ONLY <1>8, <1>11, <1>12, <1>13, <1>14 DEF PlacesInv

\* The batch's messages move to the merges, and what the limit drops is
\* counted as dropped.
LEMMA FlushOnce == ASSUME FlowTypes, PlacesInv, flushBatch PROVE PlacesInv'
<1> DEFINE M == Taken(msg)
           P == Ms(pend)
           B == Ms(pauseBuffer)
           H == Of(merges)
           L == Of(merged)
           C == Of(capped)
<1>1. pend \in Seq(M) /\ pauseBuffer \in Seq(M) /\ PauseCap \in Nat
  BY PktListAssumption DEF FlowTypes
<1>2. pend' = << >> /\ merged' = merged /\ lost' = lost /\ Got' = Got
  BY DEF flushBatch, Got
<1>3. OneRecord(pend') /\ Ms(pend') = {}
  BY <1>2 DEF OneRecord, Ms
<1>4. OneRecord(pend) /\ OneRecord(pauseBuffer) /\ (\A x, y \in merges : x.m = y.m => x = y) /\ Apart(P, B, H, L, C, lost)
      /\ P \union B \union H \union L \union C \union lost = Got
  BY DEF PlacesInv
<1> HIDE DEF M
<1>5. CASE paused
  <2> DEFINE t == pauseBuffer \o pend
             rest == ToSet(t) \ ToSet(pauseBuffer')
  <2>1. pauseBuffer' = Suffix(t, PauseCap) /\ merges' = merges /\ capped' = capped \union rest
    BY <1>5 DEF flushBatch
  <2>2. t \in Seq(M) /\ Ms(t) = B \union P /\ OneRecord(t)
    <3>1. \A m \in B : m \notin P
      BY <1>4 DEF Apart
    <3> QED BY <1>1, <1>4, <3>1, JoinIs
  <2> HIDE DEF t
  <2>3. pauseBuffer' \in Seq(M) /\ \A i \in DOMAIN pauseBuffer' : \E j \in DOMAIN t : pauseBuffer'[i] = t[j]
    BY <1>1, <2>1, <2>2, SuffixIs
  <2>4. (\A x : x \in ToSet(t) <=> \E i \in DOMAIN t : t[i] = x) /\ \A x : x \in ToSet(pauseBuffer') <=> \E i \in DOMAIN pauseBuffer' : pauseBuffer'[i] = x
    BY <2>2, <2>3, MembersTaken
  <2>5. OneRecord(pauseBuffer')
    BY <2>2, <2>3 DEF OneRecord
  <2>6. Ms(pauseBuffer') \union Of(rest) = B \union P
    <3>1. ASSUME NEW m \in Ms(pauseBuffer') PROVE m \in Ms(t)
      BY <2>3, <3>1 DEF Ms
    <3>2. ASSUME NEW m \in Of(rest) PROVE m \in Ms(t)
      BY <2>4, <3>2 DEF Ms, Of
    <3>3. ASSUME NEW m \in Ms(t) PROVE m \in Ms(pauseBuffer') \union Of(rest)
      <4>1. PICK i \in DOMAIN t : m = t[i].m
        BY <3>3 DEF Ms
      <4>2. CASE t[i] \in ToSet(pauseBuffer')
        BY <2>4, <4>1, <4>2 DEF Ms
      <4>3. CASE t[i] \notin ToSet(pauseBuffer')
        <5>1. t[i] \in rest
          BY <2>4, <4>3
        <5> QED BY <4>1, <5>1 DEF Of
      <4> QED BY <4>2, <4>3
    <3> QED BY <2>2, <3>1, <3>2, <3>3
  <2>7. \A m \in Ms(pauseBuffer') : m \notin Of(rest)
    <3> SUFFICES ASSUME NEW m \in Ms(pauseBuffer'), m \in Of(rest) PROVE FALSE
      OBVIOUS
    <3>1. PICK i \in DOMAIN pauseBuffer' : m = pauseBuffer'[i].m
      BY DEF Ms
    <3>2. PICK x \in rest : m = x.m
      BY DEF Of
    <3>3. PICK j \in DOMAIN t : pauseBuffer'[i] = t[j]
      BY <2>3
    <3>4. PICK k \in DOMAIN t : x = t[k]
      BY <2>4, <3>2
    <3>5. x = pauseBuffer'[i]
      BY <2>2, <3>1, <3>2, <3>3, <3>4 DEF OneRecord
    <3> QED BY <2>4, <3>2, <3>5
  <2>8. Of(capped') = C \union Of(rest)
    BY <2>1 DEF Of
  <2> HIDE DEF rest, P, B, H, L, C
  <2>9. Apart({}, Ms(pauseBuffer'), H, L, C \union Of(rest), lost)
    BY ONLY <1>4, <2>6, <2>7 DEF Apart
  <2>10. {} \union Ms(pauseBuffer') \union H \union L \union (C \union Of(rest)) \union lost = Got
    BY ONLY <1>4, <2>6
  <2>11. Apart(Ms(pend'), Ms(pauseBuffer'), Of(merges'), Of(merged'), Of(capped'), lost')
    BY <1>2, <1>3, <2>1, <2>8, <2>9 DEF H, L
  <2>12. Ms(pend') \union Ms(pauseBuffer') \union Of(merges') \union Of(merged') \union Of(capped') \union lost' = Got'
    BY <1>2, <1>3, <2>1, <2>8, <2>10 DEF H, L
  <2>13. \A x, y \in merges' : x.m = y.m => x = y
    BY <1>4, <2>1
  <2> QED BY ONLY <1>3, <2>5, <2>11, <2>12, <2>13 DEF PlacesInv
<1>6. CASE ~paused
  <2>1. pauseBuffer' = pauseBuffer /\ capped' = capped /\ merges' = merges \union ToSet(pend)
    BY <1>6 DEF flushBatch
  <2>2. \A x : x \in ToSet(pend) <=> \E i \in DOMAIN pend : pend[i] = x
    BY <1>1, MembersTaken
  <2>3. Of(merges') = H \union P
    BY <2>1, <2>2 DEF Of, Ms
  <2>4. \A x, y \in merges' : x.m = y.m => x = y
    <3> SUFFICES ASSUME NEW x \in merges', NEW y \in merges', x.m = y.m PROVE x = y
      OBVIOUS
    <3>1. \A z \in ToSet(pend) : z.m \in P
      BY <2>2 DEF Ms
    <3>2. \A z \in merges : z.m \in H
      BY DEF Of
    <3>3. \A m \in P : m \notin H
      BY <1>4 DEF Apart
    <3>4. \A z, w \in ToSet(pend) : z.m = w.m => z = w
      BY <1>4, <2>2 DEF OneRecord
    <3> HIDE DEF P, H
    <3> QED BY <1>4, <2>1, <3>1, <3>2, <3>3, <3>4
  <2> HIDE DEF P, B, H, L, C
  <2>5. Apart({}, B, H \union P, L, C, lost)
    BY ONLY <1>4 DEF Apart
  <2>6. {} \union B \union (H \union P) \union L \union C \union lost = Got
    BY ONLY <1>4
  <2>7. Apart(Ms(pend'), Ms(pauseBuffer'), Of(merges'), Of(merged'), Of(capped'), lost')
    BY <1>2, <1>3, <2>1, <2>3, <2>5 DEF B, L, C
  <2>8. Ms(pend') \union Ms(pauseBuffer') \union Of(merges') \union Of(merged') \union Of(capped') \union lost' = Got'
    BY <1>2, <1>3, <2>1, <2>3, <2>6 DEF B, L, C
  <2>9. OneRecord(pauseBuffer')
    BY <1>4, <2>1
  <2> QED BY ONLY <1>3, <2>4, <2>7, <2>8, <2>9 DEF PlacesInv
<1> QED BY <1>5, <1>6

\* Resuming moves the buffered messages on, each once.
LEMMA PauseOnce == ASSUME LifeInv, FlowTypes, PlacesInv, pktPause PROVE PlacesInv'
<1> DEFINE P == Ms(pend)
           B == Ms(pauseBuffer)
           H == Of(merges)
           L == Of(merged)
           C == Of(capped)
<1>1. merges' = merges /\ merged' = merged /\ capped' = capped /\ Got' = Got
  BY DEF pktPause, Got
<1>2. OneRecord(pend) /\ OneRecord(pauseBuffer) /\ (\A x, y \in merges : x.m = y.m => x = y) /\ Apart(P, B, H, L, C, lost)
      /\ P \union B \union H \union L \union C \union lost = Got
  BY DEF PlacesInv
<1>3. CASE ~paused
  <2>1. pend' = pend /\ pauseBuffer' = pauseBuffer /\ lost' = lost
    BY <1>3 DEF pktPause
  <2> QED BY <1>1, <2>1 DEF PlacesInv
<1>4. CASE paused
  <2> DEFINE b == [i \in 1..Len(pauseBuffer) |-> [pauseBuffer[i] EXCEPT !.v = wsHandler]]
             M == Taken(msg)
  <2>1. pauseBuffer' = << >>
    BY <1>4 DEF pktPause
  <2>2. OneRecord(pauseBuffer') /\ Ms(pauseBuffer') = {}
    BY <2>1 DEF OneRecord, Ms
  <2>3. b \in Seq(M) /\ Len(b) = Len(pauseBuffer) /\ (\A i \in 1..Len(pauseBuffer) : b[i] = [v |-> wsHandler, m |-> pauseBuffer[i].m])
        /\ pend \in Seq(M) /\ pauseBuffer \in Seq(M)
    BY ResentIs DEF FlowTypes
  <2>4. DOMAIN b = 1..Len(pauseBuffer) /\ DOMAIN pauseBuffer = 1..Len(pauseBuffer)
    <3> HIDE DEF M
    <3> QED BY <2>3
  <2>5. \A i \in DOMAIN pauseBuffer : b[i] = [v |-> wsHandler, m |-> pauseBuffer[i].m] /\ b[i].m = pauseBuffer[i].m
    <3> TAKE i \in DOMAIN pauseBuffer
    <3>1. b[i] = [v |-> wsHandler, m |-> pauseBuffer[i].m]
      BY ONLY <2>3, <2>4, i \in DOMAIN pauseBuffer
    <3>2. [v |-> wsHandler, m |-> pauseBuffer[i].m].m = pauseBuffer[i].m
      OBVIOUS
    <3> QED BY ONLY <3>1, <3>2
  <2>6. CASE wsHandler # 0
    <3>1. pend' = pend \o b /\ lost' = lost
      BY <1>4, <2>6 DEF pktPause
    <3> HIDE DEF b, M
    <3>2. Ms(b) = B
      BY <2>4, <2>5 DEF Ms
    <3>3. OneRecord(b)
      BY <2>4, <2>5 DEF OneRecord
    <3>4. \A m \in Ms(pend) : m \notin Ms(b)
      BY <1>2, <3>2 DEF Apart
    <3>5. Ms(pend') = P \union B /\ OneRecord(pend')
      BY <1>2, <2>3, <3>1, <3>2, <3>3, <3>4, JoinIs
    <3> HIDE DEF P, B, H, L, C
    <3>6. Apart(P \union B, {}, H, L, C, lost)
      BY ONLY <1>2 DEF Apart
    <3>7. (P \union B) \union {} \union H \union L \union C \union lost = Got
      BY ONLY <1>2
    <3>8. Apart(Ms(pend'), Ms(pauseBuffer'), Of(merges'), Of(merged'), Of(capped'), lost')
      BY <1>1, <2>2, <3>1, <3>5, <3>6 DEF H, L, C
    <3>9. Ms(pend') \union Ms(pauseBuffer') \union Of(merges') \union Of(merged') \union Of(capped') \union lost' = Got'
      BY <1>1, <2>2, <3>1, <3>5, <3>7 DEF H, L, C
    <3>10. \A x, y \in merges' : x.m = y.m => x = y
      BY <1>1, <1>2
    <3> QED BY ONLY <2>2, <3>5, <3>8, <3>9, <3>10 DEF PlacesInv
  <2>7. CASE wsHandler = 0
    <3>1. pend' = pend /\ lost' = lost \union {pauseBuffer[i].m : i \in 1..Len(pauseBuffer)}
      BY <1>4, <2>7 DEF pktPause
    <3>2. lost' = lost \union B
      BY <2>4, <3>1 DEF Ms
    <3> HIDE DEF b, M, P, B, H, L, C
    <3>3. Apart(P, {}, H, L, C, lost \union B)
      BY ONLY <1>2 DEF Apart
    <3>4. P \union {} \union H \union L \union C \union (lost \union B) = Got
      BY ONLY <1>2
    <3>5. Apart(Ms(pend'), Ms(pauseBuffer'), Of(merges'), Of(merged'), Of(capped'), lost')
      BY <1>1, <2>2, <3>1, <3>2, <3>3 DEF P, H, L, C
    <3>6. Ms(pend') \union Ms(pauseBuffer') \union Of(merges') \union Of(merged') \union Of(capped') \union lost' = Got'
      BY <1>1, <2>2, <3>1, <3>2, <3>4 DEF P, H, L, C
    <3>7. (\A x, y \in merges' : x.m = y.m => x = y) /\ OneRecord(pend')
      BY <1>1, <1>2, <3>1
    <3> QED BY ONLY <2>2, <3>5, <3>6, <3>7 DEF PlacesInv
  <2> QED BY <2>6, <2>7
<1> QED BY <1>3, <1>4

\* A merge that ends moves its message into the list.
LEMMA MergeOnce == ASSUME PlacesInv, NEW x \in merges, merge(x) PROVE PlacesInv'
<1> DEFINE P == Ms(pend)
           B == Ms(pauseBuffer)
           H == Of(merges)
           L == Of(merged)
           C == Of(capped)
<1>1. pend' = pend /\ pauseBuffer' = pauseBuffer /\ capped' = capped /\ lost' = lost /\ Got' = Got
      /\ merges' = merges \ {x} /\ merged' = merged \union {x}
  BY DEF merge, Got
<1>2. OneRecord(pend) /\ OneRecord(pauseBuffer) /\ (\A y, z \in merges : y.m = z.m => y = z) /\ Apart(P, B, H, L, C, lost)
      /\ P \union B \union H \union L \union C \union lost = Got
  BY DEF PlacesInv
<1>3. Of(merges') = H \ {x.m}
  <2>1. \A m : m \in Of(merges') <=> \E y \in merges : y # x /\ m = y.m
    BY <1>1 DEF Of
  <2>2. \A m : m \in H <=> \E y \in merges : m = y.m
    BY DEF Of
  <2> HIDE DEF H
  <2>3. \A m : m \in Of(merges') <=> m \in H /\ m # x.m
    BY <1>2, <2>1, <2>2
  <2> QED BY <2>3
<1>4. Of(merged') = L \union {x.m} /\ x.m \in H
  BY <1>1 DEF Of
<1> HIDE DEF P, B, H, L, C
<1> DEFINE k == x.m
<1>5. k \in H
  BY <1>4
<1> HIDE DEF k
<1>6. Apart(P, B, H \ {k}, L \union {k}, C, lost)
  BY ONLY <1>2, <1>5 DEF Apart
<1>7. P \union B \union (H \ {k}) \union (L \union {k}) \union C \union lost = Got
  BY ONLY <1>2, <1>5
<1>8. Apart(Ms(pend'), Ms(pauseBuffer'), Of(merges'), Of(merged'), Of(capped'), lost')
  BY <1>1, <1>3, <1>4, <1>6 DEF P, B, C, k
<1>9. Ms(pend') \union Ms(pauseBuffer') \union Of(merges') \union Of(merged') \union Of(capped') \union lost' = Got'
  BY <1>1, <1>3, <1>4, <1>7 DEF P, B, C, k
<1>10. (\A y, z \in merges' : y.m = z.m => y = z) /\ OneRecord(pend') /\ OneRecord(pauseBuffer')
  BY <1>1, <1>2
<1> QED BY ONLY <1>8, <1>9, <1>10 DEF PlacesInv

\* What touches no message keeps every message in its place.
LEMMA PlacesRest == ASSUME PlacesInv, UNCHANGED flow PROVE PlacesInv'
<1>1. UNCHANGED <<msg, pend, pauseBuffer, merges, merged, capped, lost, hashOf>>
  BY DEF flow
<1>2. Got' = Got
  BY <1>1 DEF Got
<1> QED BY <1>1, <1>2 DEF PlacesInv

\* At the start no message is anywhere.
LEMMA OnceStarts == ListInit => OnceInv
<1> SUFFICES ASSUME ListInit PROVE PlacesInv
  BY DEF OnceInv
<1>1. msg = 0 /\ pend = << >> /\ pauseBuffer = << >> /\ merges = {} /\ merged = {} /\ capped = {} /\ lost = {}
  BY DEF ListInit
<1>2. Got = {} /\ Ms(pend) = {} /\ Ms(pauseBuffer) = {} /\ Of(merges) = {} /\ Of(merged) = {} /\ Of(capped) = {}
  BY <1>1 DEF Got, Ms, Of
<1>3. OneRecord(pend) /\ OneRecord(pauseBuffer) /\ \A x, y \in merges : x.m = y.m => x = y
  BY <1>1 DEF OneRecord
<1>4. Apart(Ms(pend), Ms(pauseBuffer), Of(merges), Of(merged), Of(capped), lost)
  BY <1>1, <1>2 DEF Apart
<1> QED BY <1>1, <1>2, <1>3, <1>4 DEF PlacesInv

\* What one handler got is once in the page, however often it is paused.
LEMMA OnceStepHolds == LifeInv /\ FlowTypes /\ OnceInv /\ [ListNext]_listVars => OnceInv'
<1> SUFFICES ASSUME LifeInv, FlowTypes, OnceInv, [ListNext]_listVars, overtaken' = 0 PROVE PlacesInv'
  BY DEF OnceInv
<1>0. overtaken \in Nat
  BY DEF LifeInv
<1>1. CASE initPackets \/ destroy \/ ClickReload \/ fGroup \/ onSort \/ wsFrame
  <2>1. UNCHANGED flow /\ overtaken' = overtaken
    BY <1>1 DEF initPackets, destroy, ClickReload, fGroup, onSort, wsFrame, life
  <2> QED BY <2>1, PlacesRest DEF OnceInv
<1>2. ASSUME NEW i \in inits, initEnds(i) PROVE PlacesInv'
  <2>1. UNCHANGED flow /\ overtaken' \in {overtaken, overtaken + 1}
    BY <1>2 DEF initEnds
  <2>2. overtaken = 0
    BY <1>0, <2>1
  <2> QED BY <2>1, <2>2, PlacesRest DEF OnceInv
<1>3. ASSUME NEW l \in loadsAt, loadAnswers(l) \/ loadEnds(l) \/ loadFails(l) PROVE PlacesInv'
  <2>1. UNCHANGED flow /\ overtaken' = overtaken
    BY <1>3 DEF loadAnswers, loadEnds, loadFails, life
  <2> QED BY <2>1, PlacesRest DEF OnceInv
<1>4. ASSUME NEW h \in PktHashes, Heard(h) PROVE PlacesInv'
  <2>1. overtaken = 0
    BY <1>4 DEF Heard, life
  <2> QED BY <1>4, <2>1, HeardOnce DEF OnceInv
<1>5. CASE flushBatch
  <2>1. overtaken = 0
    BY <1>5 DEF flushBatch, life
  <2> QED BY <1>5, <2>1, FlushOnce DEF OnceInv
<1>6. CASE pktPause
  <2>1. overtaken = 0
    BY <1>6 DEF pktPause, life
  <2> QED BY <1>6, <2>1, PauseOnce DEF OnceInv
<1>7. ASSUME NEW x \in merges, merge(x) PROVE PlacesInv'
  <2>1. overtaken = 0
    BY <1>7 DEF merge, life
  <2> QED BY <1>7, <2>1, MergeOnce DEF OnceInv
<1>8. CASE UNCHANGED listVars
  <2>1. UNCHANGED flow /\ overtaken' = overtaken
    BY <1>8 DEF listVars, flow
  <2> QED BY <2>1, PlacesRest DEF OnceInv
<1> QED BY <1>1, <1>2, <1>3, <1>4, <1>5, <1>6, <1>7, <1>8 DEF ListNext

\* No message is lost to the pause: the ones dropped are beyond the buffer's
\* limit.
LEMMA OnceKeepsAll == FlowTypes /\ OnceInv => PauseKeepsAll
<1> SUFFICES ASSUME FlowTypes, PlacesInv PROVE PauseKeepsAll
  BY DEF OnceInv, PauseKeepsAll
<1> DEFINE where(m) == (IF \E i \in 1..Len(pend) : pend[i].m = m THEN {"pend"} ELSE {})
                       \union (IF \E i \in 1..Len(pauseBuffer) : pauseBuffer[i].m = m THEN {"buffer"} ELSE {})
                       \union (IF \E x \in merges : x.m = m THEN {"hops"} ELSE {})
                       \union (IF \E x \in merged : x.m = m THEN {"list"} ELSE {})
           gone == {x.m : x \in capped} \union lost
<1>1. DOMAIN pend = 1..Len(pend) /\ DOMAIN pauseBuffer = 1..Len(pauseBuffer) /\ Len(pauseBuffer) <= PauseCap
  <2> DEFINE M == Taken(msg)
  <2>1. pend \in Seq(M) /\ pauseBuffer \in Seq(M)
    BY DEF FlowTypes
  <2> HIDE DEF M
  <2> QED BY <2>1 DEF FlowTypes
<1>2. /\ \A m : m \in Ms(pend) <=> \E i \in 1..Len(pend) : pend[i].m = m
      /\ \A m : m \in Ms(pauseBuffer) <=> \E i \in 1..Len(pauseBuffer) : pauseBuffer[i].m = m
      /\ \A m : m \in Of(merges) <=> \E x \in merges : x.m = m
      /\ \A m : m \in Of(merged) <=> \E x \in merged : x.m = m
      /\ \A m : m \in gone <=> m \in Of(capped) \/ m \in lost
  BY <1>1 DEF Ms, Of
<1> SUFFICES ASSUME NEW m \in 1..msg
             PROVE  IF hashOf[m].got /\ m \notin gone THEN Cardinality(where(m)) = 1 ELSE where(m) = {}
  BY <1>1 DEF PauseKeepsAll
<1>3. where(m) = (IF m \in Ms(pend) THEN {"pend"} ELSE {}) \union (IF m \in Ms(pauseBuffer) THEN {"buffer"} ELSE {})
                 \union (IF m \in Of(merges) THEN {"hops"} ELSE {}) \union (IF m \in Of(merged) THEN {"list"} ELSE {})
  BY <1>2
<1> HIDE DEF where, gone
<1>4. m \in Got <=> hashOf[m].got
  BY DEF Got
<1>5. Apart(Ms(pend), Ms(pauseBuffer), Of(merges), Of(merged), Of(capped), lost)
      /\ Ms(pend) \union Ms(pauseBuffer) \union Of(merges) \union Of(merged) \union Of(capped) \union lost = Got
  BY DEF PlacesInv
<1>6. ASSUME ~(hashOf[m].got /\ m \notin gone) PROVE where(m) = {}
  <2>1. m \notin Ms(pend) /\ m \notin Ms(pauseBuffer) /\ m \notin Of(merges) /\ m \notin Of(merged)
    <3>1. m \notin Got \/ m \in Of(capped) \/ m \in lost
      BY <1>2, <1>4, <1>6
    <3> QED BY ONLY <1>5, <3>1 DEF Apart
  <2> QED BY <1>3, <2>1
<1>7. ASSUME hashOf[m].got /\ m \notin gone PROVE Cardinality(where(m)) = 1
  <2>1. m \in Got /\ m \notin Of(capped) /\ m \notin lost
    BY <1>2, <1>4, <1>7
  <2>2. CASE m \in Ms(pend)
    <3>1. m \notin Ms(pauseBuffer) /\ m \notin Of(merges) /\ m \notin Of(merged)
      BY ONLY <1>5, <2>2 DEF Apart
    <3>2. where(m) = {"pend"}
      BY <1>3, <2>2, <3>1
    <3> QED BY <3>2, FS_Singleton
  <2>3. CASE m \in Ms(pauseBuffer)
    <3>1. m \notin Ms(pend) /\ m \notin Of(merges) /\ m \notin Of(merged)
      BY ONLY <1>5, <2>3 DEF Apart
    <3>2. where(m) = {"buffer"}
      BY <1>3, <2>3, <3>1
    <3> QED BY <3>2, FS_Singleton
  <2>4. CASE m \in Of(merges)
    <3>1. m \notin Ms(pend) /\ m \notin Ms(pauseBuffer) /\ m \notin Of(merged)
      BY ONLY <1>5, <2>4 DEF Apart
    <3>2. where(m) = {"hops"}
      BY <1>3, <2>4, <3>1
    <3> QED BY <3>2, FS_Singleton
  <2>5. CASE m \in Of(merged)
    <3>1. m \notin Ms(pend) /\ m \notin Ms(pauseBuffer) /\ m \notin Of(merges)
      BY ONLY <1>5, <2>5 DEF Apart
    <3>2. where(m) = {"list"}
      BY <1>3, <2>5, <3>1
    <3> QED BY <3>2, FS_Singleton
  <2> QED BY <1>5, <2>1, <2>2, <2>3, <2>4, <2>5
<1> QED BY <1>6, <1>7

------------------------------------------------------------------------------
(* The virtual scroll: the offsets rise by at least a row per entry.       *)
Steps(cs, k) == {g \in [1..k -> Nat] : g[1] = 0 /\ \A i \in 1..(k - 1) : g[i + 1] = g[i] + cs[i]}

\* The partial sums of the row counts exist.
LEMMA StepsExist == ASSUME NEW cs \in Seq(Nat), NEW k \in 1..(Len(cs) + 1) PROVE Steps(cs, k) # {}
<1> DEFINE S == {j \in 1..(Len(cs) + 1) : Steps(cs, j) = {}}
<1>1. Len(cs) \in Nat /\ \A i \in 1..Len(cs) : cs[i] \in Nat
  OBVIOUS
<1> SUFFICES ASSUME S # {} PROVE FALSE
  OBVIOUS
<1>2. S \in SUBSET Nat
  BY <1>1
<1>3. PICK m \in S : \A j \in S : m <= j
  <2> HIDE DEF S
  <2> QED BY <1>2, LeastNumber
<1>4. m \in 1..(Len(cs) + 1) /\ Steps(cs, m) = {} /\ m \in Nat
  BY <1>1, <1>3
<1>5. CASE m = 1
  <2>1. [i \in 1..m |-> 0] \in Steps(cs, m)
    BY <1>5 DEF Steps
  <2> QED BY <1>4, <2>1
<1>6. CASE m # 1
  <2>1. m - 1 \in 1..(Len(cs) + 1) /\ m - 1 \in 1..Len(cs) /\ ~(m <= m - 1) /\ m - 1 \in Nat
    BY <1>1, <1>4, <1>6
  <2>2. Steps(cs, m - 1) # {}
    <3>1. m - 1 \notin S
      <4> HIDE DEF S
      <4> QED BY <1>3, <2>1
    <3> QED BY <2>1, <3>1
  <2>3. PICK g : g \in Steps(cs, m - 1)
    BY <2>2
  <2>4. g \in [1..(m - 1) -> Nat] /\ g[1] = 0 /\ \A i \in 1..(m - 2) : g[i + 1] = g[i] + cs[i]
    <3>1. (m - 1) - 1 = m - 2
      BY <1>4
    <3> QED BY <2>3, <3>1 DEF Steps
  <2> DEFINE h == [i \in 1..m |-> IF i = m THEN g[m - 1] + cs[m - 1] ELSE g[i]]
  <2>5. h \in [1..m -> Nat]
    <3>1. g[m - 1] + cs[m - 1] \in Nat
      BY <1>1, <2>1, <2>4
    <3>2. \A i \in 1..m : i # m => i \in 1..(m - 1)
      BY <1>4
    <3> QED BY <2>4, <3>1, <3>2
  <2>6. h[1] = 0
    BY <1>4, <1>6, <2>4
  <2>7. \A i \in 1..(m - 1) : h[i + 1] = h[i] + cs[i]
    <3> TAKE i \in 1..(m - 1)
    <3>1. i \in 1..m /\ i + 1 \in 1..m /\ i # m
      BY <1>4
    <3>2. CASE i = m - 1
      <4>1. i + 1 = m
        BY <1>4, <3>2
      <4> QED BY <3>1, <3>2, <4>1
    <3>3. CASE i # m - 1
      <4>1. i \in 1..(m - 2) /\ i + 1 # m
        BY <1>4, <3>3
      <4> QED BY <2>4, <3>1, <4>1
    <3> QED BY <3>2, <3>3
  <2>8. h \in Steps(cs, m)
    BY <2>5, <2>6, <2>7 DEF Steps
  <2> QED BY <1>4, <2>8
<1> QED BY <1>5, <1>6

\* The cumulative offsets start at 0, and each is the one before and the
\* entry's rows.
LEMMA OffsetsAre ==
  ASSUME NEW cs \in Seq(Nat)
  PROVE  LET off == _cumulativeRowOffsets(cs)
         IN off \in [1..(Len(cs) + 1) -> Nat] /\ off[1] = 0 /\ \A i \in 1..Len(cs) : off[i + 1] = off[i] + cs[i]
<1> DEFINE n == Len(cs)
           R(f) == f = [i \in 1..(n + 1) |-> IF i = 1 THEN 0 ELSE f[i - 1] + cs[i - 1]]
<1>1. n \in Nat /\ n + 1 \in 1..(n + 1) /\ (n + 1) - 1 = n
  OBVIOUS
<1>2. PICK g : g \in Steps(cs, n + 1)
  BY <1>1, StepsExist
<1>3. g \in [1..(n + 1) -> Nat] /\ g[1] = 0 /\ \A i \in 1..n : g[i + 1] = g[i] + cs[i]
  BY <1>1, <1>2 DEF Steps
<1>4. R(g)
  <2>1. \A i \in 1..(n + 1) : g[i] = IF i = 1 THEN 0 ELSE g[i - 1] + cs[i - 1]
    <3> TAKE i \in 1..(n + 1)
    <3>1. i # 1 => i - 1 \in 1..n /\ (i - 1) + 1 = i
      BY <1>1
    <3> QED BY <1>3, <3>1
  <2> QED BY <1>3, <2>1
<1> DEFINE off == _cumulativeRowOffsets(cs)
<1>5. R(off)
  BY <1>4 DEF _cumulativeRowOffsets
<1> HIDE DEF off
<1>6. DOMAIN off = 1..(n + 1) /\ off[1] = 0 /\ off = [i \in 1..(n + 1) |-> off[i]]
  BY <1>1, <1>5
<1>7. \A i \in 1..n : off[i + 1] = off[i] + cs[i]
  <2> TAKE i \in 1..n
  <2>1. i + 1 \in 1..(n + 1) /\ i + 1 # 1 /\ (i + 1) - 1 = i
    BY <1>1
  <2> QED BY <1>5, <2>1
<1>8. \A i \in 1..(n + 1) : off[i] = g[i]
  <2> DEFINE S == {i \in 1..(n + 1) : off[i] # g[i]}
  <2> SUFFICES ASSUME S # {} PROVE FALSE
    OBVIOUS
  <2>1. S \in SUBSET Nat
    BY <1>1
  <2>2. PICK m \in S : \A j \in S : m <= j
    <3> HIDE DEF S
    <3> QED BY <2>1, LeastNumber
  <2>3. m \in 1..(n + 1) /\ off[m] # g[m] /\ m \in Nat /\ m # 1
    BY <1>1, <1>3, <1>6, <2>2
  <2>4. m - 1 \in 1..n /\ m - 1 \in 1..(n + 1) /\ (m - 1) + 1 = m /\ ~(m <= m - 1)
    BY <1>1, <2>3
  <2>5. off[m - 1] = g[m - 1]
    BY <2>2, <2>4
  <2>6. off[m] = off[m - 1] + cs[m - 1] /\ g[m] = g[m - 1] + cs[m - 1]
    BY <1>3, <1>7, <2>4
  <2> QED BY <2>3, <2>5, <2>6
<1>9. off \in [1..(n + 1) -> Nat]
  BY <1>3, <1>6, <1>8
<1> QED BY <1>6, <1>7, <1>9 DEF off

\* Offsets of n entries that each have a row.
Rising(off, n) == n \in Nat /\ off \in [1..(n + 1) -> Nat] /\ off[1] = 0 /\ \A i \in 1..n : off[i] < off[i + 1]

\* Offsets that rise by one step rise over any distance.
LEMMA Rises ==
  ASSUME NEW off, NEW n, Rising(off, n), NEW a \in 1..(n + 1), NEW b \in 1..(n + 1), a <= b
  PROVE  off[a] <= off[b] /\ (a < b => off[a] < off[b])
<1> DEFINE S == {j \in a..(n + 1) : ~(off[a] <= off[j] /\ (a < j => off[a] < off[j]))}
<1>1. n \in Nat /\ (\A i \in 1..(n + 1) : off[i] \in Nat) /\ \A i \in 1..n : off[i] < off[i + 1]
  BY DEF Rising
<1> SUFFICES ASSUME S # {} PROVE FALSE
  BY <1>1
<1>2. S \in SUBSET Nat
  BY <1>1
<1>3. PICK m \in S : \A j \in S : m <= j
  <2> HIDE DEF S
  <2> QED BY <1>2, LeastNumber
<1>4. m \in a..(n + 1) /\ m \in Nat /\ ~(off[a] <= off[m] /\ (a < m => off[a] < off[m]))
  BY <1>1, <1>3
<1>5. m # a
  BY <1>1, <1>4
<1>6. m - 1 \in a..(n + 1) /\ m - 1 \in 1..n /\ (m - 1) + 1 = m /\ ~(m <= m - 1) /\ m \in 1..(n + 1) /\ m - 1 \in 1..(n + 1)
  BY <1>1, <1>4, <1>5
<1>7. off[a] <= off[m - 1]
  BY <1>3, <1>6
<1>8. off[m - 1] < off[m]
  BY <1>1, <1>6
<1>9. off[a] \in Nat /\ off[m] \in Nat /\ off[m - 1] \in Nat
  BY <1>1, <1>6
<1> QED BY ONLY <1>4, <1>7, <1>8, <1>9

\* Every entry has a row, so the offsets rise.
LEMMA CountsRise ==
  ASSUME NEW ks \in Seq(Nat)
  PROVE  Counts(ks) \in Seq(Nat) /\ Len(Counts(ks)) = Len(ks) /\ Rising(_cumulativeRowOffsets(Counts(ks)), Len(ks))
         /\ \A i \in 1..Len(ks) : _cumulativeRowOffsets(Counts(ks))[i + 1] = _cumulativeRowOffsets(Counts(ks))[i] + _getRowCount(ks[i])
<1> DEFINE cs == Counts(ks)
           n == Len(ks)
<1>1. n \in Nat /\ \A i \in 1..n : _getRowCount(ks[i]) \in Nat \ {0}
  BY DEF _getRowCount
<1>2. cs \in [1..n -> Nat] /\ \A i \in 1..n : cs[i] = _getRowCount(ks[i])
  BY <1>1 DEF Counts
<1> HIDE DEF cs
<1>3. cs \in Seq(Nat) /\ Len(cs) = n
  BY <1>1, <1>2
<1> DEFINE off == _cumulativeRowOffsets(cs)
<1>4. off \in [1..(n + 1) -> Nat] /\ off[1] = 0 /\ \A i \in 1..n : off[i + 1] = off[i] + cs[i]
  BY <1>3, OffsetsAre
<1> HIDE DEF off
<1>5. \A i \in 1..n : off[i] < off[i + 1]
  <2> TAKE i \in 1..n
  <2>1. i \in 1..(n + 1) /\ i + 1 \in 1..(n + 1)
    BY <1>1
  <2>2. off[i] \in Nat /\ off[i + 1] = off[i] + cs[i] /\ cs[i] \in Nat \ {0}
    BY <1>1, <1>2, <1>4, <2>1
  <2> QED BY <2>2
<1>6. Rising(off, n)
  BY <1>1, <1>4, <1>5 DEF Rising
<1> QED BY <1>2, <1>3, <1>4, <1>6 DEF off, cs

\* i is the first entry in lo..hi whose rows end below row, or hi.
IsFirst(off, row, lo, hi, i) ==
    i \in lo..hi /\ (\A j \in lo..(i - 1) : At(off, j + 1) <= row) /\ (i < hi => At(off, i + 1) > row)

\* Between the bounds there is a first entry that reaches past the row, or the
\* upper bound.
LEMMA FirstExists ==
  ASSUME NEW off, NEW n, Rising(off, n), NEW row \in Nat, NEW lo \in 0..n, NEW hi \in 0..n, lo <= hi
  PROVE  \E i : IsFirst(off, row, lo, hi, i)
<1> DEFINE S == {i \in lo..hi : i = hi \/ At(off, i + 1) > row}
<1>1. n \in Nat /\ \A i \in 1..(n + 1) : off[i] \in Nat
  BY DEF Rising
<1>2. hi \in S /\ S \in SUBSET Nat
  BY <1>1
<1>3. PICK m \in S : \A j \in S : m <= j
  <2> HIDE DEF S
  <2> QED BY <1>2, LeastNumber
<1>4. m \in lo..hi /\ m \in Nat /\ (m = hi \/ At(off, m + 1) > row)
  BY <1>1, <1>3
<1>5. ASSUME NEW j \in lo..(m - 1) PROVE At(off, j + 1) <= row
  <2>1. j \in lo..hi /\ ~(m <= j) /\ j # hi /\ (j + 1) + 1 \in 1..(n + 1)
    BY <1>1, <1>4
  <2>2. j \notin S
    <3> HIDE DEF S
    <3> QED BY <1>3, <2>1
  <2>3. At(off, j + 1) \in Nat
    BY <1>1, <2>1 DEF At
  <2>4. ~(At(off, j + 1) > row)
    BY <2>1, <2>2
  <2> QED BY <2>3, <2>4
<1>6. m < hi => At(off, m + 1) > row
  BY <1>1, <1>4
<1> QED BY <1>4, <1>5, <1>6 DEF IsFirst

\* There is only one such entry.
LEMMA FirstIsOne ==
  ASSUME NEW off, NEW n, Rising(off, n), NEW row \in Nat, NEW lo \in 0..n, NEW hi \in 0..n,
         NEW i, NEW k, IsFirst(off, row, lo, hi, i), IsFirst(off, row, lo, hi, k)
  PROVE  i = k
<1>1. n \in Nat /\ i \in lo..hi /\ k \in lo..hi /\ \A j \in 1..(n + 1) : off[j] \in Nat
  BY DEF Rising, IsFirst
<1>2. ASSUME NEW x \in {i, k}, NEW y \in {i, k}, x < y PROVE FALSE
  <2>1. IsFirst(off, row, lo, hi, x) /\ IsFirst(off, row, lo, hi, y)
    OBVIOUS
  <2>2. x \in lo..(y - 1) /\ x < hi
    BY <1>1, <1>2
  <2>3. At(off, x + 1) <= row /\ At(off, x + 1) > row
    BY <2>1, <2>2 DEF IsFirst
  <2>4. (x + 1) + 1 \in 1..(n + 1)
    BY <1>1, <2>2
  <2>5. At(off, x + 1) \in Nat
    BY <1>1, <2>4 DEF At
  <2> QED BY <2>3, <2>5
<1>3. ~(i < k) /\ ~(k < i)
  BY <1>2
<1> QED BY <1>1, <1>3

\* A step of the search keeps the first entry between its bounds.
LEMMA FirstSplits ==
  ASSUME NEW off, NEW n, Rising(off, n), NEW row \in Nat, NEW lo \in 0..n, NEW hi \in 0..n, lo < hi, NEW i
  PROVE  LET mid == (lo + hi) \div 2
         IN /\ mid \in lo..(hi - 1)
            /\ At(off, mid + 1) <= row /\ IsFirst(off, row, mid + 1, hi, i) => IsFirst(off, row, lo, hi, i)
            /\ ~(At(off, mid + 1) <= row) /\ IsFirst(off, row, lo, mid, i) => IsFirst(off, row, lo, hi, i)
<1> DEFINE mid == (lo + hi) \div 2
<1>1. n \in Nat /\ lo \in Nat /\ hi \in Nat /\ \A j \in 1..(n + 1) : off[j] \in Nat
  BY DEF Rising
<1>2. mid \in lo..(hi - 1)
  BY <1>1
<1> HIDE DEF mid
<1>3. ASSUME At(off, mid + 1) <= row, IsFirst(off, row, mid + 1, hi, i) PROVE IsFirst(off, row, lo, hi, i)
  <2>1. i \in (mid + 1)..hi /\ (\A j \in (mid + 1)..(i - 1) : At(off, j + 1) <= row) /\ (i < hi => At(off, i + 1) > row)
    BY <1>3 DEF IsFirst
  <2>2. ASSUME NEW j \in lo..(i - 1) PROVE At(off, j + 1) <= row
    <3>1. CASE j <= mid
      <4>1. (j + 1) + 1 \in 1..(n + 1) /\ (mid + 1) + 1 \in 1..(n + 1) /\ (j + 1) + 1 <= (mid + 1) + 1
        BY <1>1, <1>2, <3>1
      <4>2. off[(j + 1) + 1] <= off[(mid + 1) + 1]
        BY <4>1, Rises
      <4>3. off[(j + 1) + 1] \in Nat /\ off[(mid + 1) + 1] \in Nat /\ off[(mid + 1) + 1] <= row
        BY <1>1, <1>3, <4>1 DEF At
      <4> QED BY <4>2, <4>3 DEF At
    <3>2. CASE ~(j <= mid)
      BY <1>1, <1>2, <2>1, <3>2
    <3> QED BY <3>1, <3>2
  <2>3. i \in lo..hi
    BY <1>1, <1>2, <2>1
  <2> QED BY <2>1, <2>2, <2>3 DEF IsFirst
<1>4. ASSUME ~(At(off, mid + 1) <= row), IsFirst(off, row, lo, mid, i) PROVE IsFirst(off, row, lo, hi, i)
  <2>1. i \in lo..mid /\ (\A j \in lo..(i - 1) : At(off, j + 1) <= row) /\ (i < mid => At(off, i + 1) > row)
    BY <1>4 DEF IsFirst
  <2>2. At(off, mid + 1) > row
    <3>1. (mid + 1) + 1 \in 1..(n + 1)
      BY <1>1, <1>2
    <3>2. At(off, mid + 1) \in Nat
      BY <1>1, <3>1 DEF At
    <3> QED BY <1>4, <3>2
  <2>3. At(off, i + 1) > row
    <3>1. i < mid \/ i = mid
      BY <1>1, <1>2, <2>1
    <3> QED BY <2>1, <2>2, <3>1
  <2>4. i \in lo..hi
    BY <1>1, <1>2, <2>1
  <2> QED BY <2>1, <2>3, <2>4 DEF IsFirst
<1> QED BY <1>2, <1>3, <1>4 DEF mid

\* The equation of the search, and that there is a function it defines.
Searches(off, row, hi0, f) ==
    f = [b \in (0..hi0) \X (0..hi0) |->
           IF b[1] >= b[2] THEN b[1]
           ELSE IF At(off, ((b[1] + b[2]) \div 2) + 1) <= row THEN f[<<((b[1] + b[2]) \div 2) + 1, b[2]>>]
           ELSE f[<<b[1], (b[1] + b[2]) \div 2>>]]

\* The recursion of the binary search has a solution: a least interval without
\* one cannot be.
LEMMA SearchExists ==
  ASSUME NEW off, NEW n, Rising(off, n), NEW row \in Nat, NEW hi0 \in 0..n
  PROVE  \E f : Searches(off, row, hi0, f)
<1> DEFINE first(lo, hi) == CHOOSE i : IsFirst(off, row, lo, hi, i)
           D == (0..hi0) \X (0..hi0)
           f == [b \in D |-> IF b[1] >= b[2] THEN b[1] ELSE first(b[1], b[2])]
<1>1. n \in Nat /\ hi0 \in Nat /\ \A j \in 0..hi0 : j \in 0..n /\ j \in Nat
  BY DEF Rising
<1>2. ASSUME NEW lo \in 0..hi0, NEW hi \in 0..hi0, lo <= hi PROVE IsFirst(off, row, lo, hi, f[<<lo, hi>>])
  <2>1. <<lo, hi>> \in D /\ f[<<lo, hi>>] = IF lo >= hi THEN lo ELSE first(lo, hi)
    <3> HIDE DEF first
    <3>1. <<lo, hi>> \in D /\ <<lo, hi>>[1] = lo /\ <<lo, hi>>[2] = hi
      OBVIOUS
    <3>2. f[<<lo, hi>>] = IF <<lo, hi>>[1] >= <<lo, hi>>[2] THEN <<lo, hi>>[1] ELSE first(<<lo, hi>>[1], <<lo, hi>>[2])
      BY ONLY <3>1, Zenon
    <3> QED BY ONLY <3>1, <3>2
  <2>2. CASE lo = hi
    <3>1. f[<<lo, hi>>] = lo
      BY <1>1, <2>1, <2>2
    <3> HIDE DEF f
    <3>2. IsFirst(off, row, lo, lo, lo)
      BY <1>1 DEF IsFirst
    <3> QED BY <2>2, <3>1, <3>2
  <2>3. CASE lo # hi
    <3>1. f[<<lo, hi>>] = first(lo, hi)
      BY <1>1, <1>2, <2>1, <2>3
    <3> HIDE DEF f
    <3>2. \E i : IsFirst(off, row, lo, hi, i)
      BY <1>1, <1>2, FirstExists
    <3> QED BY <3>1, <3>2
  <2> QED BY <2>2, <2>3
<1>3. ASSUME NEW b \in D
      PROVE  f[b] = IF b[1] >= b[2] THEN b[1]
                    ELSE IF At(off, ((b[1] + b[2]) \div 2) + 1) <= row THEN f[<<((b[1] + b[2]) \div 2) + 1, b[2]>>]
                    ELSE f[<<b[1], (b[1] + b[2]) \div 2>>]
  <2> DEFINE lo == b[1]
             hi == b[2]
             mid == (lo + hi) \div 2
  <2>1. lo \in 0..hi0 /\ hi \in 0..hi0 /\ b = <<lo, hi>>
    OBVIOUS
  <2>2. lo >= hi => f[b] = lo
    OBVIOUS
  <2> HIDE DEF f, lo, hi
  <2>3. ASSUME ~(lo >= hi) PROVE f[b] = IF At(off, mid + 1) <= row THEN f[<<mid + 1, hi>>] ELSE f[<<lo, mid>>]
    <3>1. lo < hi /\ lo <= hi /\ lo \in 0..n /\ hi \in 0..n
      BY <1>1, <2>1, <2>3
    <3>2. /\ mid \in lo..(hi - 1)
          /\ \A i : At(off, mid + 1) <= row /\ IsFirst(off, row, mid + 1, hi, i) => IsFirst(off, row, lo, hi, i)
          /\ \A i : ~(At(off, mid + 1) <= row) /\ IsFirst(off, row, lo, mid, i) => IsFirst(off, row, lo, hi, i)
      BY <3>1, FirstSplits
    <3> HIDE DEF mid
    <3>3. mid \in 0..hi0 /\ mid + 1 \in 0..hi0 /\ lo <= mid /\ mid + 1 <= hi
      BY <1>1, <2>1, <3>2
    <3>4. IsFirst(off, row, lo, hi, f[b]) /\ IsFirst(off, row, mid + 1, hi, f[<<mid + 1, hi>>]) /\ IsFirst(off, row, lo, mid, f[<<lo, mid>>])
      BY <1>2, <2>1, <3>1, <3>3
    <3>5. CASE At(off, mid + 1) <= row
      <4>1. IsFirst(off, row, lo, hi, f[<<mid + 1, hi>>])
        BY <3>2, <3>4, <3>5
      <4> QED BY <3>1, <3>4, <3>5, <4>1, FirstIsOne
    <3>6. CASE ~(At(off, mid + 1) <= row)
      <4>1. IsFirst(off, row, lo, hi, f[<<lo, mid>>])
        BY <3>2, <3>4, <3>6
      <4> QED BY <3>1, <3>4, <3>6, <4>1, FirstIsOne
    <3> QED BY <3>5, <3>6
  <2> QED BY <2>2, <2>3 DEF lo, hi
<1>4. f = [b \in D |-> f[b]]
  OBVIOUS
<1> HIDE DEF f
<1>5. Searches(off, row, hi0, f)
  BY <1>3, <1>4 DEF Searches
<1> QED BY <1>5

\* The binary search finds the first entry that reaches past the row.
LEMMA BisectIs ==
  ASSUME NEW off, NEW n, Rising(off, n), NEW row \in Nat, NEW lo0 \in 0..n, NEW hi0 \in 0..n, lo0 <= hi0
  PROVE  IsFirst(off, row, lo0, hi0, Bisect(off, row, lo0, hi0))
<1> DEFINE D == (0..hi0) \X (0..hi0)
           F == CHOOSE f : Searches(off, row, hi0, f)
<1>1. n \in Nat /\ hi0 \in Nat /\ \A j \in 0..hi0 : j \in 0..n /\ j \in Nat
  BY DEF Rising
<1>2. Searches(off, row, hi0, F)
  <2>1. \E f : Searches(off, row, hi0, f)
    BY SearchExists
  <2> QED BY <2>1
<1>3. Bisect(off, row, lo0, hi0) = F[<<lo0, hi0>>]
  BY DEF Bisect, Searches
<1> HIDE DEF F
<1>4. \A lo, hi \in 0..hi0 : F[<<lo, hi>>] =
         IF lo >= hi THEN lo
         ELSE IF At(off, ((lo + hi) \div 2) + 1) <= row THEN F[<<((lo + hi) \div 2) + 1, hi>>] ELSE F[<<lo, (lo + hi) \div 2>>]
  <2> SUFFICES ASSUME NEW lo \in 0..hi0, NEW hi \in 0..hi0
               PROVE  F[<<lo, hi>>] =
                        IF lo >= hi THEN lo
                        ELSE IF At(off, ((lo + hi) \div 2) + 1) <= row THEN F[<<((lo + hi) \div 2) + 1, hi>>] ELSE F[<<lo, (lo + hi) \div 2>>]
    OBVIOUS
  <2>1. <<lo, hi>> \in D /\ <<lo, hi>>[1] = lo /\ <<lo, hi>>[2] = hi
    OBVIOUS
  <2> QED BY <1>2, <2>1 DEF Searches
<1> DEFINE Good(lo, hi) == IsFirst(off, row, lo, hi, F[<<lo, hi>>])
           S == {d \in 0..hi0 : \E lo, hi \in 0..hi0 : lo <= hi /\ hi - lo = d /\ ~Good(lo, hi)}
<1>5. S = {}
  <2> SUFFICES ASSUME S # {} PROVE FALSE
    OBVIOUS
  <2>1. S \in SUBSET Nat
    BY <1>1
  <2>2. PICK d \in S : \A j \in S : d <= j
    <3> HIDE DEF S
    <3> QED BY <2>1, LeastNumber
  <2>3. PICK lo \in 0..hi0, hi \in 0..hi0 : lo <= hi /\ hi - lo = d /\ ~Good(lo, hi)
    <3> HIDE DEF Good
    <3> QED BY <2>2
  <2>4. \A a, b \in 0..hi0 : a <= b /\ b - a < d => Good(a, b)
    <3> SUFFICES ASSUME NEW a \in 0..hi0, NEW b \in 0..hi0, a <= b, b - a < d, ~Good(a, b) PROVE FALSE
      OBVIOUS
    <3> HIDE DEF Good
    <3>1. b - a \in 0..hi0 /\ d \in 0..hi0
      BY <1>1, <2>2
    <3>2. b - a \in S
      BY <3>1
    <3> HIDE DEF S
    <3>3. d <= b - a
      BY <2>2, <3>2
    <3> QED BY <3>1, <3>3
  <2> HIDE DEF S
  <2>5. CASE lo = hi
    <3>1. F[<<lo, hi>>] = lo
      <4>1. lo >= hi
        BY <1>1, <2>5
      <4>2. F[<<lo, hi>>] =
              IF lo >= hi THEN lo
              ELSE IF At(off, ((lo + hi) \div 2) + 1) <= row THEN F[<<((lo + hi) \div 2) + 1, hi>>] ELSE F[<<lo, (lo + hi) \div 2>>]
        BY <1>4, Zenon
      <4> QED BY ONLY <4>1, <4>2, Zenon
    <3> QED BY <1>1, <2>3, <2>5, <3>1 DEF IsFirst
  <2>6. CASE lo # hi
    <3> DEFINE mid == (lo + hi) \div 2
    <3>1. lo < hi /\ lo \in 0..n /\ hi \in 0..n
      BY <1>1, <2>3, <2>6
    <3>2. /\ mid \in lo..(hi - 1)
          /\ \A i : At(off, mid + 1) <= row /\ IsFirst(off, row, mid + 1, hi, i) => IsFirst(off, row, lo, hi, i)
          /\ \A i : ~(At(off, mid + 1) <= row) /\ IsFirst(off, row, lo, mid, i) => IsFirst(off, row, lo, hi, i)
      BY <3>1, FirstSplits
    <3>3. F[<<lo, hi>>] = IF At(off, mid + 1) <= row THEN F[<<mid + 1, hi>>] ELSE F[<<lo, mid>>]
      BY <1>1, <1>4, <3>1
    <3> HIDE DEF mid
    <3>4. mid \in 0..hi0 /\ mid + 1 \in 0..hi0 /\ lo <= mid /\ mid + 1 <= hi /\ hi - (mid + 1) < d /\ mid - lo < d
      BY <1>1, <2>3, <3>1, <3>2
    <3>5. Good(mid + 1, hi) /\ Good(lo, mid)
      <4> HIDE DEF Good
      <4> QED BY <2>4, <3>4
    <3>6. Good(lo, hi)
      BY <3>2, <3>3, <3>5
    <3> QED BY <2>3, <3>6
  <2> QED BY <2>5, <2>6
<1>6. Good(lo0, hi0)
  <2> HIDE DEF Good
  <2>1. lo0 \in 0..hi0 /\ hi0 \in 0..hi0 /\ hi0 - lo0 \in 0..hi0
    BY <1>1
  <2>2. ~Good(lo0, hi0) => hi0 - lo0 \in S
    BY <2>1
  <2> HIDE DEF S
  <2> QED BY <1>5, <2>2
<1> QED BY <1>3, <1>6

\* The range is in bounds, and whatever is in the window is in the range.
LEMMA RangeIs ==
  ASSUME NEW off, NEW n, Rising(off, n), NEW top \in Nat
  PROVE  LET v == _calcVisibleRange(off, n, top)
         IN /\ v = [s |-> v.s, e |-> v.e] /\ v.s \in 0..n /\ v.e \in 0..n /\ v.s <= v.e
            /\ \A i \in 0..(n - 1), r \in Nat :
                 At(off, i) < r /\ r <= At(off, i + 1) /\ r - 1 + TheadH >= top /\ r + TheadH <= top + ViewH => v.s <= i /\ i < v.e
<1> DEFINE row == Max({0, top - TheadH})
           f == Bisect(off, row, 0, n)
           g == Bisect(off, row + ViewH, f, n)
           l == Min({g + 1, n})
           v == _calcVisibleRange(off, n, top)
<1>1. n \in Nat /\ (\A j \in 1..(n + 1) : off[j] \in Nat) /\ off[1] = 0 /\ ViewH \in Nat /\ Buffer \in Nat /\ TheadH = 1
  BY PktRowsAssumption DEF Rising, TheadH
<1>2. row = IF 0 >= top - 1 THEN 0 ELSE top - 1
  <2>1. 0 \in Int /\ top - 1 \in Int
    OBVIOUS
  <2>2. Max({0, top - 1}) = IF 0 >= top - 1 THEN 0 ELSE top - 1
    BY ONLY <2>1, GreaterOf
  <2> QED BY <1>1, <2>2
<1>3. v = [s |-> Max({0, f - Buffer}), e |-> Min({n, l + Buffer})]
  BY DEF _calcVisibleRange
<1> HIDE DEF row, v
<1>4. row \in Nat /\ top - 1 <= row
  BY <1>2
<1>5. IsFirst(off, row, 0, n, f)
  <2>1. 0 \in 0..n /\ n \in 0..n /\ 0 <= n
    BY <1>1
  <2> QED BY <1>4, <2>1, BisectIs
<1> HIDE DEF f
<1>6. f \in 0..n /\ \A j \in 0..(f - 1) : At(off, j + 1) <= row
  BY <1>5 DEF IsFirst
<1>7. IsFirst(off, row + ViewH, f, n, g)
  <2>1. n \in 0..n /\ f <= n /\ row + ViewH \in Nat
    BY <1>1, <1>4, <1>6
  <2> QED BY <1>6, <2>1, BisectIs
<1> HIDE DEF g
<1>8. g \in f..n /\ (g < n => At(off, g + 1) > row + ViewH)
  BY <1>7 DEF IsFirst
<1>9. l = IF g + 1 <= n THEN g + 1 ELSE n
  <2>1. g + 1 \in Int /\ n \in Int
    BY <1>1, <1>6, <1>8
  <2> QED BY ONLY <2>1, LesserOf
<1> HIDE DEF l
<1>10. v.s = IF 0 >= f - Buffer THEN 0 ELSE f - Buffer
  <2>1. 0 \in Int /\ f - Buffer \in Int
    BY <1>1, <1>6
  <2>2. Max({0, f - Buffer}) = IF 0 >= f - Buffer THEN 0 ELSE f - Buffer
    BY ONLY <2>1, GreaterOf
  <2> QED BY <1>3, <2>2
<1>11. v.e = IF n <= l + Buffer THEN n ELSE l + Buffer
  <2>1. n \in Int /\ l + Buffer \in Int
    BY <1>1, <1>6, <1>8, <1>9
  <2>2. Min({n, l + Buffer}) = IF n <= l + Buffer THEN n ELSE l + Buffer
    BY ONLY <2>1, LesserOf
  <2> QED BY <1>3, <2>2
<1>12. v = [s |-> v.s, e |-> v.e]
  BY <1>3
<1>13. v.s \in 0..n /\ v.e \in 0..n /\ v.s <= v.e /\ v.s <= f /\ l <= v.e
  BY <1>1, <1>6, <1>8, <1>9, <1>10, <1>11
<1>14. ASSUME NEW i \in 0..(n - 1), NEW r \in Nat, At(off, i) < r, r <= At(off, i + 1), r - 1 + TheadH >= top, r + TheadH <= top + ViewH
       PROVE  v.s <= i /\ i < v.e
  <2>1. i + 1 \in 1..(n + 1) /\ (i + 1) + 1 \in 1..(n + 1)
    BY <1>1
  <2>2. At(off, i) \in Nat /\ At(off, i + 1) \in Nat
    BY <1>1, <2>1 DEF At
  <2>3. r > row
    BY <1>1, <1>2, <1>14, <2>2
  <2>4. f <= i
    <3> SUFFICES ASSUME ~(f <= i) PROVE FALSE
      OBVIOUS
    <3>1. i \in 0..(f - 1)
      BY <1>1, <1>6
    <3>2. At(off, i + 1) <= row
      BY <1>6, <3>1
    <3> QED BY <1>4, <1>14, <2>2, <2>3, <3>2
  <2>5. i <= g
    <3> SUFFICES ASSUME ~(i <= g) PROVE FALSE
      OBVIOUS
    <3>1. g < n /\ g + 1 <= i /\ (g + 1) + 1 \in 1..(n + 1) /\ (g + 1) + 1 <= i + 1
      BY <1>1, <1>6, <1>8
    <3>2. At(off, g + 1) > row + ViewH
      BY <1>8, <3>1
    <3>3. off[(g + 1) + 1] <= off[i + 1]
      BY <2>1, <3>1, Rises
    <3>4. At(off, g + 1) <= At(off, i) /\ At(off, g + 1) \in Nat
      BY <1>1, <3>1, <3>3 DEF At
    <3> QED BY <1>1, <1>4, <1>14, <2>2, <3>2, <3>4
  <2>6. i < l
    BY <1>1, <1>6, <1>8, <1>9, <2>5
  <2>7. l \in Int /\ f \in Int /\ v.s \in Int /\ v.e \in Int /\ i \in Int
    BY <1>1, <1>6, <1>8, <1>9, <1>13
  <2> QED BY ONLY <1>13, <2>4, <2>6, <2>7
<1> QED BY <1>12, <1>13, <1>14 DEF v

------------------------------------------------------------------------------
(* The rows in the document: s shows the entries from a up to b - 1.       *)
Shows(off, s, a, b) ==
    /\ s \in Seq(Nat) /\ Len(s) = At(off, b) - At(off, a)
    /\ \A r \in 1..Len(s) : /\ s[r] \in a..(b - 1)
                            /\ At(off, s[r]) < At(off, a) + r /\ At(off, a) + r <= At(off, s[r] + 1)

\* A row belongs to one entry.
LEMMA OneEntry ==
  ASSUME NEW off, NEW n, Rising(off, n), NEW i \in 0..(n - 1), NEW k \in 0..(n - 1), NEW r \in Nat,
         At(off, i) < r, r <= At(off, i + 1), At(off, k) < r, r <= At(off, k + 1)
  PROVE  i = k
<1>1. n \in Nat /\ \A j \in 1..(n + 1) : off[j] \in Nat
  BY DEF Rising
<1>2. ASSUME NEW x \in {i, k}, NEW y \in {i, k}, x < y PROVE FALSE
  <2>1. (x + 1) + 1 \in 1..(n + 1) /\ y + 1 \in 1..(n + 1) /\ (x + 1) + 1 <= y + 1
    BY <1>1, <1>2
  <2>2. off[(x + 1) + 1] <= off[y + 1]
    BY <2>1, Rises
  <2>3. At(off, x + 1) <= At(off, y) /\ At(off, x + 1) \in Nat /\ At(off, y) \in Nat
    BY <1>1, <2>1, <2>2 DEF At
  <2>4. At(off, y) < r /\ r <= At(off, x + 1)
    OBVIOUS
  <2> QED BY ONLY <2>3, <2>4, r \in Nat
<1>3. ~(i < k) /\ ~(k < i)
  BY <1>2
<1> QED BY <1>1, <1>3

\* The rows of a range of entries are one sequence.
LEMMA ShowsOne ==
  ASSUME NEW off, NEW n, Rising(off, n), NEW a \in 0..n, NEW b \in 0..n, NEW s, NEW u, Shows(off, s, a, b), Shows(off, u, a, b)
  PROVE  s = u
<1>1. s \in Seq(Nat) /\ u \in Seq(Nat) /\ Len(s) = Len(u) /\ Len(s) \in Nat
  BY DEF Shows
<1>2. n \in Nat /\ \A j \in 1..(n + 1) : off[j] \in Nat
  BY DEF Rising
<1>3. ASSUME NEW r \in 1..Len(s) PROVE s[r] = u[r]
  <2>1. /\ s[r] \in a..(b - 1) /\ At(off, s[r]) < At(off, a) + r /\ At(off, a) + r <= At(off, s[r] + 1)
        /\ u[r] \in a..(b - 1) /\ At(off, u[r]) < At(off, a) + r /\ At(off, a) + r <= At(off, u[r] + 1)
    BY <1>1 DEF Shows
  <2>2. s[r] \in 0..(n - 1) /\ u[r] \in 0..(n - 1) /\ a + 1 \in 1..(n + 1)
    BY <1>2, <2>1
  <2>3. At(off, a) + r \in Nat
    <3>1. At(off, a) \in Nat
      BY <1>2, <2>2 DEF At
    <3>2. r \in Nat
      BY ONLY <1>1, r \in 1..Len(s)
    <3> QED BY ONLY <3>1, <3>2
  <2> DEFINE x == s[r]
             y == u[r]
             q == At(off, a) + r
  <2>4. x \in 0..(n - 1) /\ y \in 0..(n - 1) /\ q \in Nat /\ At(off, x) < q /\ q <= At(off, x + 1) /\ At(off, y) < q /\ q <= At(off, y + 1)
    BY <2>1, <2>2, <2>3
  <2> HIDE DEF x, y, q
  <2>5. x = y
    BY ONLY <2>4, Rising(off, n), OneEntry
  <2> QED BY <2>5 DEF x, y
<1>4. s = [r \in 1..Len(s) |-> s[r]] /\ u = [r \in 1..Len(s) |-> u[r]]
  BY ONLY <1>1
<1>5. [r \in 1..Len(s) |-> s[r]] = [r \in 1..Len(s) |-> u[r]]
  BY ONLY <1>3
<1> QED BY ONLY <1>4, <1>5

\* An empty range has no rows.
LEMMA ShowsNothing == ASSUME NEW off, NEW n, Rising(off, n), NEW a \in 0..n PROVE Shows(off, << >>, a, a)
<1>1. a + 1 \in 1..(n + 1) /\ \A j \in 1..(n + 1) : off[j] \in Nat
  BY DEF Rising
<1>2. At(off, a) \in Nat
  BY <1>1 DEF At
<1> QED BY <1>2 DEF Shows

\* One entry's rows.
LEMMA ShowsEntry ==
  ASSUME NEW off, NEW n, Rising(off, n), NEW i \in 1..n, NEW c \in Nat, off[i + 1] = off[i] + c
  PROVE  Shows(off, [x \in 1..c |-> i - 1], i - 1, i)
<1> DEFINE s == [x \in 1..c |-> i - 1]
<1>1. n \in Nat /\ i \in 1..(n + 1) /\ i + 1 \in 1..(n + 1) /\ i - 1 \in Nat /\ (i - 1) + 1 = i /\ \A j \in 1..(n + 1) : off[j] \in Nat
  BY DEF Rising
<1>2. At(off, i - 1) = off[i] /\ At(off, i) = off[i] + c /\ off[i] \in Nat
  BY <1>1 DEF At
<1>3. s \in Seq(Nat) /\ Len(s) = c
  BY <1>1
<1>4. \A r \in 1..c : s[r] = i - 1
  OBVIOUS
<1> HIDE DEF s
<1>5. Len(s) = At(off, i) - At(off, i - 1)
  BY <1>2, <1>3
<1>6. ASSUME NEW r \in 1..Len(s)
      PROVE  s[r] \in (i - 1)..(i - 1) /\ At(off, s[r]) < At(off, i - 1) + r /\ At(off, i - 1) + r <= At(off, s[r] + 1)
  <2>1. s[r] = i - 1 /\ s[r] + 1 = i
    BY <1>1, <1>3, <1>4
  <2>2. At(off, s[r]) = off[i] /\ At(off, s[r] + 1) = off[i] + c
    BY <1>2, <2>1
  <2>3. r \in Nat /\ 0 < r /\ r <= c
    BY <1>3
  <2>4. s[r] \in (i - 1)..(i - 1)
    BY <1>1, <2>1
  <2> QED BY <1>2, <2>2, <2>3, <2>4
<1> QED BY <1>3, <1>5, <1>6 DEF Shows, s

\* The elements of two sequences in a row.
LEMMA JoinAt ==
  ASSUME NEW M, NEW s \in Seq(M), NEW u \in Seq(M)
  PROVE  \A r \in 1..(Len(s) + Len(u)) : (s \o u)[r] = IF r <= Len(s) THEN s[r] ELSE u[r - Len(s)]
  OBVIOUS

\* The rows of two neighbouring ranges are those of the range they form.
LEMMA ShowsJoin ==
  ASSUME NEW off, NEW n, Rising(off, n), NEW a \in 0..n, NEW b \in 0..n, NEW c \in 0..n, a <= b, b <= c,
         NEW s, NEW u, Shows(off, s, a, b), Shows(off, u, b, c)
  PROVE  Shows(off, s \o u, a, c)
<1> DEFINE t == s \o u
           A == At(off, a)
           B == At(off, b)
           C == At(off, c)
<1>1. n \in Nat /\ A \in Nat /\ B \in Nat /\ C \in Nat
  <2>1. n \in Nat /\ (\A j \in 1..(n + 1) : off[j] \in Nat) /\ a + 1 \in 1..(n + 1) /\ b + 1 \in 1..(n + 1) /\ c + 1 \in 1..(n + 1)
    BY DEF Rising
  <2> QED BY <2>1 DEF At
<1>2. s \in Seq(Nat) /\ u \in Seq(Nat) /\ Len(s) = B - A /\ Len(u) = C - B
  BY DEF Shows
<1>3. /\ \A r \in 1..Len(s) : s[r] \in a..(b - 1) /\ At(off, s[r]) < A + r /\ A + r <= At(off, s[r] + 1)
      /\ \A r \in 1..Len(u) : u[r] \in b..(c - 1) /\ At(off, u[r]) < B + r /\ B + r <= At(off, u[r] + 1)
  BY DEF Shows
<1>4. t \in Seq(Nat) /\ Len(t) = Len(s) + Len(u) /\ \A r \in 1..(Len(s) + Len(u)) : t[r] = IF r <= Len(s) THEN s[r] ELSE u[r - Len(s)]
  <2> HIDE DEF A, B, C
  <2>1. t \in Seq(Nat)
    BY <1>2
  <2>2. Len(t) = Len(s) + Len(u) /\ s \in Seq(Nat) /\ u \in Seq(Nat)
    BY <1>2
  <2>3. \A r \in 1..(Len(s) + Len(u)) : t[r] = IF r <= Len(s) THEN s[r] ELSE u[r - Len(s)]
    BY ONLY <2>2, JoinAt
  <2> QED BY <2>1, <2>2, <2>3
<1> HIDE DEF t, A, B, C
<1>5. Len(t) = C - A
  BY <1>1, <1>2, <1>4
<1>6. ASSUME NEW r \in 1..Len(t) PROVE t[r] \in a..(c - 1) /\ At(off, t[r]) < A + r /\ A + r <= At(off, t[r] + 1)
  <2>1. Len(s) \in Nat /\ Len(u) \in Nat /\ r \in 1..(Len(s) + Len(u))
    BY <1>2, <1>4
  <2>2. CASE r <= Len(s)
    <3>1. r \in 1..Len(s) /\ t[r] = s[r]
      BY <1>4, <2>1, <2>2
    <3>2. s[r] \in a..(b - 1) /\ At(off, s[r]) < A + r /\ A + r <= At(off, s[r] + 1)
      BY <1>3, <3>1
    <3>3. s[r] \in a..(c - 1)
      BY <3>2
    <3> QED BY <3>1, <3>2, <3>3
  <2>3. CASE ~(r <= Len(s))
    <3>1. r - Len(s) \in 1..Len(u) /\ t[r] = u[r - Len(s)] /\ B + (r - Len(s)) = A + r
      <4>1. r - Len(s) \in 1..Len(u)
        BY <2>1, <2>3
      <4>2. t[r] = u[r - Len(s)]
        BY <1>4, <2>1, <2>3
      <4>3. Len(s) = B - A /\ r \in Int
        BY <1>2, <2>1
      <4>4. B + (r - Len(s)) = A + r
        BY ONLY <1>1, <4>3
      <4> QED BY <4>1, <4>2, <4>4
    <3> DEFINE q == r - Len(s)
    <3>2. q \in 1..Len(u) /\ t[r] = u[q] /\ B + q = A + r
      BY <3>1
    <3> HIDE DEF q
    <3>3. u[q] \in b..(c - 1) /\ At(off, u[q]) < A + r /\ A + r <= At(off, u[q] + 1)
      BY <1>3, <3>2
    <3>4. u[q] \in a..(c - 1)
      BY <3>3
    <3> QED BY <3>2, <3>3, <3>4
  <2> QED BY <2>2, <2>3
<1> QED BY <1>4, <1>5, <1>6 DEF Shows, t, A, C

\* The tail, and the head, of the rows from an entry that is among them.
LEMMA TailShows ==
  ASSUME NEW off, NEW n, Rising(off, n), NEW a \in 0..n, NEW k \in 0..n, NEW b \in 0..n, k <= b, a <= b, NEW s, Shows(off, s, a, b)
  PROVE  LET m == IF k <= a THEN a ELSE k IN Shows(off, DropFirst(s, At(off, k) - At(off, a)), m, b)
<1> DEFINE A == At(off, a)
           K == At(off, k)
           B == At(off, b)
<1>1. n \in Nat /\ A \in Nat /\ B \in Nat /\ K \in Nat
  <2>1. n \in Nat /\ (\A j \in 1..(n + 1) : off[j] \in Nat) /\ a + 1 \in 1..(n + 1) /\ b + 1 \in 1..(n + 1) /\ k + 1 \in 1..(n + 1)
    BY DEF Rising
  <2> QED BY <2>1 DEF At
<1>2. (k <= a => K <= A) /\ (~(k <= a) => A < K) /\ K <= B
  <2>1. k + 1 \in 1..(n + 1) /\ a + 1 \in 1..(n + 1) /\ b + 1 \in 1..(n + 1) /\ k + 1 <= b + 1
    BY <1>1
  <2>2. off[k + 1] <= off[b + 1]
    BY <2>1, Rises
  <2>3. k <= a => off[k + 1] <= off[a + 1]
    <3> SUFFICES ASSUME k <= a PROVE off[k + 1] <= off[a + 1]
      OBVIOUS
    <3>1. k + 1 <= a + 1
      BY <1>1
    <3> QED BY <2>1, <3>1, Rises
  <2>4. ~(k <= a) => off[a + 1] < off[k + 1]
    <3> SUFFICES ASSUME ~(k <= a) PROVE off[a + 1] < off[k + 1]
      OBVIOUS
    <3>1. a + 1 < k + 1 /\ a + 1 <= k + 1
      BY <1>1
    <3> QED BY <2>1, <3>1, Rises
  <2> QED BY <2>2, <2>3, <2>4 DEF At
<1>3. s \in Seq(Nat) /\ Len(s) = B - A
      /\ \A r \in 1..Len(s) : s[r] \in a..(b - 1) /\ At(off, s[r]) < A + r /\ A + r <= At(off, s[r] + 1)
  BY DEF Shows
<1> HIDE DEF A, K, B
<1>4. CASE k <= a
  <2>1. DropFirst(s, K - A) = s
    BY <1>1, <1>2, <1>4 DEF DropFirst
  <2> QED BY <1>4, <2>1 DEF K, A
<1>5. CASE ~(k <= a)
  <2> DEFINE d == K - A
             t == SubSeq(s, d + 1, Len(s))
  <2>1. d \in Nat /\ ~(d <= 0) /\ d <= Len(s) /\ Len(s) \in Nat
    BY <1>1, <1>2, <1>3, <1>5
  <2>2. DropFirst(s, d) = t
    BY <2>1 DEF DropFirst
  <2> HIDE DEF d
  <2>3. t \in Seq(Nat) /\ Len(t) = Len(s) - d /\ \A r \in 1..(Len(s) - d) : t[r] = s[d + r]
    <3>1. \A i \in (d + 1)..Len(s) : s[i] \in Nat
      BY <1>3, <2>1
    <3>2. Len(t) = Len(s) - d
      BY <1>3, <2>1
    <3>3. \A r \in 1..(Len(s) - d) : t[r] = s[d + r]
      BY <1>3, <2>1
    <3>4. t \in Seq(Nat)
      BY <1>3, <2>1, <3>1
    <3> QED BY <3>2, <3>3, <3>4
  <2> HIDE DEF t
  <2>4. Len(t) = B - K
    BY <1>1, <1>3, <2>3 DEF d
  <2>5. ASSUME NEW r \in 1..Len(t) PROVE t[r] \in k..(b - 1) /\ At(off, t[r]) < K + r /\ K + r <= At(off, t[r] + 1)
    <3> DEFINE q == d + r
    <3>1. q \in 1..Len(s) /\ A + q = K + r /\ t[r] = s[q] /\ r \in Nat /\ 0 < r
      <4>1. Len(t) = Len(s) - d /\ Len(s) \in Nat /\ d \in Nat
        BY <2>1, <2>3
      <4>2. r \in 1..(Len(s) - d)
        BY <4>1
      <4>3. t[r] = s[q]
        BY <2>3, <4>2
      <4>4. q \in 1..Len(s) /\ r \in Nat /\ 0 < r
        BY ONLY <4>1, <4>2
      <4>5. A + q = K + r
        BY ONLY <1>1, <4>4 DEF d
      <4> QED BY <4>3, <4>4, <4>5
    <3> HIDE DEF q
    <3>2. s[q] \in a..(b - 1) /\ At(off, s[q]) < K + r /\ K + r <= At(off, s[q] + 1)
      BY <1>3, <3>1
    <3>3. k <= s[q]
      <4> SUFFICES ASSUME ~(k <= s[q]) PROVE FALSE
        OBVIOUS
      <4>1. (s[q] + 1) + 1 \in 1..(n + 1) /\ k + 1 \in 1..(n + 1) /\ (s[q] + 1) + 1 <= k + 1
        BY <1>1, <3>2
      <4>2. off[(s[q] + 1) + 1] <= off[k + 1]
        BY <4>1, Rises
      <4>3. At(off, s[q] + 1) <= K
        BY <4>2 DEF At, K
      <4>4. At(off, s[q] + 1) \in Nat
        BY <4>1 DEF Rising, At
      <4> QED BY <1>1, <3>1, <3>2, <4>3, <4>4
    <3>4. s[q] \in k..(b - 1)
      BY <3>2, <3>3
    <3> QED BY <3>1, <3>2, <3>4
  <2>6. Shows(off, t, k, b)
    BY <2>3, <2>4, <2>5 DEF Shows, K, B
  <2> QED BY <1>5, <2>2, <2>6 DEF d, K, A
<1> QED BY <1>4, <1>5

\* The rows up to an entry that is among them.
LEMMA HeadShows ==
  ASSUME NEW off, NEW n, Rising(off, n), NEW a \in 0..n, NEW k \in 0..n, NEW b \in 0..n, a <= k, a <= b, NEW s, Shows(off, s, a, b)
  PROVE  LET m == IF k <= b THEN k ELSE b IN Shows(off, DropLast(s, At(off, b) - At(off, k)), a, m)
<1> DEFINE A == At(off, a)
           K == At(off, k)
           B == At(off, b)
<1>1. n \in Nat /\ A \in Nat /\ B \in Nat /\ K \in Nat
  <2>1. n \in Nat /\ (\A j \in 1..(n + 1) : off[j] \in Nat) /\ a + 1 \in 1..(n + 1) /\ b + 1 \in 1..(n + 1) /\ k + 1 \in 1..(n + 1)
    BY DEF Rising
  <2> QED BY <2>1 DEF At
<1>2. (k <= b => K <= B) /\ (~(k <= b) => B < K) /\ A <= K
  <2>1. k + 1 \in 1..(n + 1) /\ a + 1 \in 1..(n + 1) /\ b + 1 \in 1..(n + 1) /\ a + 1 <= k + 1
    BY <1>1
  <2>2. off[a + 1] <= off[k + 1]
    BY <2>1, Rises
  <2>3. k <= b => off[k + 1] <= off[b + 1]
    <3> SUFFICES ASSUME k <= b PROVE off[k + 1] <= off[b + 1]
      OBVIOUS
    <3>1. k + 1 <= b + 1
      BY <1>1
    <3> QED BY <2>1, <3>1, Rises
  <2>4. ~(k <= b) => off[b + 1] < off[k + 1]
    <3> SUFFICES ASSUME ~(k <= b) PROVE off[b + 1] < off[k + 1]
      OBVIOUS
    <3>1. b + 1 < k + 1 /\ b + 1 <= k + 1
      BY <1>1
    <3> QED BY <2>1, <3>1, Rises
  <2> QED BY <2>2, <2>3, <2>4 DEF At
<1>3. s \in Seq(Nat) /\ Len(s) = B - A
      /\ \A r \in 1..Len(s) : s[r] \in a..(b - 1) /\ At(off, s[r]) < A + r /\ A + r <= At(off, s[r] + 1)
  BY DEF Shows
<1> HIDE DEF A, K, B
<1>4. CASE ~(k < b)
  <2>1. K >= B
    <3>1. CASE k = b
      <4>1. K = B
        BY <3>1 DEF K, B
      <4> QED BY <1>1, <4>1
    <3>2. CASE k # b
      <4>1. ~(k <= b)
        BY <1>4, <3>2
      <4> QED BY <1>1, <1>2, <4>1
    <3> QED BY <3>1, <3>2
  <2>2. DropLast(s, B - K) = s
    BY <1>1, <2>1 DEF DropLast
  <2>3. (IF k <= b THEN k ELSE b) = b
    BY <1>4
  <2> QED BY <2>2, <2>3 DEF K, B
<1>5. CASE k < b
  <2> DEFINE d == B - K
             t == SubSeq(s, 1, Len(s) - d)
  <2>1. d \in Nat /\ d <= Len(s) /\ Len(s) \in Nat
    BY <1>1, <1>2, <1>3, <1>5
  <2> HIDE DEF d
  <2>2. DropLast(s, d) = t
    <3>1. CASE d <= 0
      <4>1. Len(s) - d = Len(s)
        BY <2>1, <3>1
      <4>2. SubSeq(s, 1, Len(s)) = s
        BY <1>3
      <4> QED BY <3>1, <4>1, <4>2 DEF DropLast
    <3>2. CASE ~(d <= 0)
      BY <3>2 DEF DropLast
    <3> QED BY <3>1, <3>2
  <2>3. t \in Seq(Nat) /\ Len(t) = Len(s) - d /\ \A r \in 1..(Len(s) - d) : t[r] = s[r]
    <3>1. \A i \in 1..(Len(s) - d) : s[i] \in Nat
      BY <1>3, <2>1
    <3>2. Len(t) = Len(s) - d
      BY <1>3, <2>1
    <3>3. \A r \in 1..(Len(s) - d) : t[r] = s[r]
      BY <1>3, <2>1
    <3>4. t \in Seq(Nat)
      BY <1>3, <2>1, <3>1
    <3> QED BY <3>2, <3>3, <3>4
  <2> HIDE DEF t
  <2>4. Len(t) = K - A
    BY <1>1, <1>3, <2>3 DEF d
  <2>5. ASSUME NEW r \in 1..Len(t) PROVE t[r] \in a..(k - 1) /\ At(off, t[r]) < A + r /\ A + r <= At(off, t[r] + 1)
    <3>1. r \in 1..Len(s) /\ A + r <= K /\ t[r] = s[r] /\ r \in Nat
      BY <1>1, <1>3, <2>1, <2>3, <2>4
    <3>2. s[r] \in a..(b - 1) /\ At(off, s[r]) < A + r /\ A + r <= At(off, s[r] + 1)
      BY <1>3, <3>1
    <3>3. s[r] < k
      <4> SUFFICES ASSUME ~(s[r] < k) PROVE FALSE
        OBVIOUS
      <4>1. s[r] + 1 \in 1..(n + 1) /\ k + 1 \in 1..(n + 1) /\ k + 1 <= s[r] + 1
        BY <1>1, <3>2
      <4>2. off[k + 1] <= off[s[r] + 1]
        BY <4>1, Rises
      <4>3. K <= At(off, s[r])
        BY <4>2 DEF At, K
      <4>4. At(off, s[r]) \in Nat
        BY <4>1 DEF Rising, At
      <4> QED BY <1>1, <3>1, <3>2, <4>3, <4>4
    <3>4. s[r] \in a..(k - 1)
      BY <3>2, <3>3
    <3> QED BY <3>1, <3>2, <3>4
  <2>6. Shows(off, t, a, k)
    BY <2>3, <2>4, <2>5 DEF Shows, A, K
  <2> QED BY <1>5, <2>2, <2>6 DEF d, K, B
<1> QED BY <1>4, <1>5

\* The rows of one entry, and the unfinished texts up to entry k.
Piece(ks, i) == [x \in 1.._getRowCount(ks[i]) |-> i - 1]
Drafts(ks, a, k) == {g \in [a..k -> Seq(Nat)] : g[a] = << >> /\ \A i \in (a + 1)..k : g[i] = g[i - 1] \o Piece(ks, i)}

\* The rows the builder makes for one entry.
LEMMA PieceIs == ASSUME NEW ks \in Seq(Nat), NEW i \in 1..Len(ks) PROVE Piece(ks, i) \in Seq(Nat) /\ _getRowCount(ks[i]) \in Nat
<1>1. i - 1 \in Nat /\ ks[i] \in Nat
  OBVIOUS
<1>2. _getRowCount(ks[i]) \in Nat
  BY <1>1 DEF _getRowCount
<1> DEFINE c == _getRowCount(ks[i])
<1> HIDE DEF c
<1>3. c \in Nat
  BY <1>2 DEF c
<1>4. [x \in 1..c |-> i - 1] \in Seq(Nat)
  BY ONLY <1>1, <1>3
<1> QED BY <1>2, <1>4 DEF Piece, c

\* The builder's loop comes to an end at every entry.
LEMMA DraftsExist ==
  ASSUME NEW ks \in Seq(Nat), NEW a \in 0..Len(ks), NEW k \in a..Len(ks)
  PROVE  Drafts(ks, a, k) # {}
<1> DEFINE n == Len(ks)
           S == {j \in a..n : Drafts(ks, a, j) = {}}
<1>1. n \in Nat /\ a \in Nat
  OBVIOUS
<1> SUFFICES ASSUME S # {} PROVE FALSE
  OBVIOUS
<1> HIDE DEF n
<1>2. S \in SUBSET Nat
  BY <1>1
<1>3. PICK m \in S : \A j \in S : m <= j
  <2> HIDE DEF S
  <2> QED BY <1>2, LeastNumber
<1>4. m \in a..n /\ Drafts(ks, a, m) = {} /\ m \in Nat
  BY <1>1, <1>3
<1>5. CASE m = a
  <2> DEFINE g == [i \in a..a |-> << >>]
  <2>1. g \in [a..a -> Seq(Nat)] /\ g[a] = << >> /\ \A i \in (a + 1)..a : FALSE
    BY <1>1
  <2> HIDE DEF g
  <2>2. g \in Drafts(ks, a, a)
    BY <2>1 DEF Drafts
  <2> QED BY <1>4, <1>5, <2>2
<1>6. CASE m # a
  <2>1. m - 1 \in a..n /\ ~(m <= m - 1) /\ m \in 1..n /\ m - 1 \in a..(m - 1) /\ a \in a..(m - 1)
    BY <1>1, <1>4, <1>6
  <2>2. Drafts(ks, a, m - 1) # {}
    <3>1. m - 1 \notin S
      <4> HIDE DEF S
      <4> QED BY <1>3, <2>1
    <3> QED BY <2>1, <3>1
  <2>3. PICK g : g \in Drafts(ks, a, m - 1)
    BY <2>2
  <2>4. g \in [a..(m - 1) -> Seq(Nat)] /\ g[a] = << >> /\ \A i \in (a + 1)..(m - 1) : g[i] = g[i - 1] \o Piece(ks, i)
    BY <2>3 DEF Drafts
  <2>5. g[m - 1] \in Seq(Nat) /\ Piece(ks, m) \in Seq(Nat)
    <3>1. Piece(ks, m) \in Seq(Nat)
      BY <2>1, PieceIs DEF n
    <3> QED BY <2>1, <2>4, <3>1
  <2> DEFINE w == g[m - 1] \o Piece(ks, m)
             h == [i \in a..m |-> IF i = m THEN w ELSE g[i]]
  <2>6. w \in Seq(Nat)
    BY ONLY <2>5
  <2>7. \A i \in a..m : i # m => i \in a..(m - 1)
    BY <1>1, <1>4
  <2> HIDE DEF w
  <2>8. h \in [a..m -> Seq(Nat)]
    BY <2>4, <2>6, <2>7
  <2>9. h[a] = << >>
    <3>1. a \in a..m
      BY <1>1, <1>4
    <3> QED BY <1>6, <2>4, <3>1
  <2>10. \A i \in (a + 1)..m : h[i] = h[i - 1] \o Piece(ks, i)
    <3> SUFFICES ASSUME NEW i \in (a + 1)..m PROVE h[i] = h[i - 1] \o Piece(ks, i)
      OBVIOUS
    <3>1. i \in a..m /\ i - 1 \in a..m /\ i - 1 # m
      BY <1>1, <1>4
    <3>2. h[i - 1] = g[i - 1]
      BY ONLY <3>1
    <3>3. CASE i = m
      <4>1. h[i] = w
        BY ONLY <3>1, <3>3
      <4> QED BY <3>2, <3>3, <4>1 DEF w
    <3>4. CASE i # m
      <4>1. i \in (a + 1)..(m - 1)
        BY <1>1, <1>4, <3>4
      <4>2. h[i] = g[i]
        BY ONLY <3>1, <3>4
      <4> HIDE DEF h
      <4> QED BY <2>4, <3>2, <4>1, <4>2
    <3> QED BY <3>3, <3>4
  <2> HIDE DEF h
  <2>11. h \in Drafts(ks, a, m)
    BY <2>8, <2>9, <2>10 DEF Drafts
  <2> QED BY <1>4, <2>11
<1> QED BY <1>5, <1>6

\* What is built for a range shows it.
LEMMA BuilderShows ==
  ASSUME NEW ks \in Seq(Nat), NEW a \in 0..Len(ks), NEW b \in 0..Len(ks), a <= b
  PROVE  Shows(_cumulativeRowOffsets(Counts(ks)), builder(ks, a, b), a, b)
<1> DEFINE n == Len(ks)
           off == _cumulativeRowOffsets(Counts(ks))
           R(f) == f = [i \in a..b |-> IF i = a THEN << >> ELSE f[i - 1] \o Piece(ks, i)]
           F == CHOOSE f : R(f)
<1>1. n \in Nat /\ a \in Nat /\ b \in Nat /\ b \in a..n /\ b \in a..b
  OBVIOUS
<1>2. Rising(off, n) /\ \A i \in 1..n : off[i + 1] = off[i] + _getRowCount(ks[i])
  BY CountsRise
<1> HIDE DEF off
<1>3. builder(ks, a, b) = F[b]
  BY DEF builder, Piece
<1>4. \E f : R(f)
  <2>1. PICK g : g \in Drafts(ks, a, b)
    BY <1>1, DraftsExist
  <2>2. g \in [a..b -> Seq(Nat)] /\ g[a] = << >> /\ \A i \in (a + 1)..b : g[i] = g[i - 1] \o Piece(ks, i)
    BY <2>1 DEF Drafts
  <2>3. \A i \in a..b : g[i] = IF i = a THEN << >> ELSE g[i - 1] \o Piece(ks, i)
    <3> SUFFICES ASSUME NEW i \in a..b PROVE g[i] = IF i = a THEN << >> ELSE g[i - 1] \o Piece(ks, i)
      OBVIOUS
    <3>1. i # a => i \in (a + 1)..b
      BY <1>1
    <3> QED BY <2>2, <3>1
  <2>4. g = [i \in a..b |-> g[i]]
    BY <2>2
  <2> QED BY <2>3, <2>4
<1>5. R(F)
  <2> HIDE DEF R
  <2> QED BY <1>4
<1> HIDE DEF F
<1>6. F[a] = << >> /\ \A i \in (a + 1)..b : F[i] = F[i - 1] \o Piece(ks, i)
  <2>1. a \in a..b
    BY <1>1
  <2>2. F[a] = << >>
    BY <1>5, <2>1
  <2>3. ASSUME NEW i \in (a + 1)..b PROVE F[i] = F[i - 1] \o Piece(ks, i)
    <3>1. i \in a..b /\ i # a
      BY <1>1
    <3> QED BY <1>5, <3>1
  <2> QED BY <2>2, <2>3
<1> HIDE DEF R, n
<1> DEFINE S == {j \in a..b : ~Shows(off, F[j], a, j)}
<1>7. S = {}
  <2> SUFFICES ASSUME S # {} PROVE FALSE
    OBVIOUS
  <2>1. S \in SUBSET Nat
    BY <1>1
  <2>2. PICK m \in S : \A j \in S : m <= j
    <3> HIDE DEF S
    <3> QED BY <2>1, LeastNumber
  <2>3. m \in a..b /\ ~Shows(off, F[m], a, m) /\ m \in Nat
    BY <1>1, <2>2
  <2>4. a \in 0..n
    BY <1>1
  <2>5. CASE m = a
    <3>1. Shows(off, << >>, a, a)
      BY <1>2, <2>4, ShowsNothing
    <3> QED BY <1>6, <2>3, <2>5, <3>1
  <2>6. CASE m # a
    <3>1. m - 1 \in a..b /\ ~(m <= m - 1) /\ m \in (a + 1)..b /\ m \in 1..n /\ m - 1 \in 0..n /\ a <= m - 1 /\ m - 1 <= m /\ m \in 0..n
      BY <1>1, <2>3, <2>6
    <3>2. Shows(off, F[m - 1], a, m - 1)
      <4>1. m - 1 \notin S
        <5> HIDE DEF S
        <5> QED BY <2>2, <3>1
      <4> QED BY <3>1, <4>1
    <3>3. Shows(off, Piece(ks, m), m - 1, m)
      <4>1. _getRowCount(ks[m]) \in Nat
        BY <3>1, PieceIs DEF n
      <4>2. off[m + 1] = off[m] + _getRowCount(ks[m])
        BY <1>2, <3>1
      <4> QED BY <1>2, <3>1, <4>1, <4>2, ShowsEntry DEF Piece
    <3>4. Shows(off, F[m - 1] \o Piece(ks, m), a, m)
      BY <1>2, <2>4, <3>1, <3>2, <3>3, ShowsJoin
    <3> QED BY <1>6, <2>3, <3>1, <3>4
  <2> QED BY <2>5, <2>6
<1>8. Shows(off, F[b], a, b)
  <2>1. ~Shows(off, F[b], a, b) => b \in S
    BY <1>1
  <2> HIDE DEF S
  <2> QED BY <1>7, <2>1
<1> QED BY <1>3, <1>8 DEF off

Off(ks) == _cumulativeRowOffsets(Counts(ks))
InRange(v, n) == v = [s |-> v.s, e |-> v.e] /\ v.s \in 0..n /\ v.e \in 0..n /\ v.s <= v.e

\* Taking rows away and adding rows at both ends is building them all.
LEMMA IncrementalIs ==
  ASSUME NEW ks \in Seq(Nat), NEW prev, NEW new, InRange(prev, Len(ks)), InRange(new, Len(ks)),
         dom = builder(ks, prev.s, prev.e), new.s < prev.e, new.e > prev.s
  PROVE  incremental(Off(ks), ks, prev, new) = builder(ks, new.s, new.e)
<1> DEFINE n == Len(ks)
           off == Off(ks)
           p == prev.s
           q == prev.e
           a == new.s
           b == new.e
           m1 == IF a <= p THEN p ELSE a
           m2 == IF b <= q THEN b ELSE q
           headGone == DropFirst(dom, At(off, Min({a, q})) - At(off, p))
           kept == DropLast(headGone, At(off, q) - At(off, Max({b, p})))
           front == IF a < p THEN builder(ks, a, Min({p, b})) ELSE << >>
           back == IF b > q THEN builder(ks, Max({q, a}), b) ELSE << >>
<1>1. n \in Nat /\ p \in 0..n /\ q \in 0..n /\ a \in 0..n /\ b \in 0..n /\ p <= q /\ a <= b /\ a < q /\ b > p
  BY DEF InRange
<1>2. Rising(off, n)
  BY CountsRise DEF Off
<1>3. \A x, y \in 0..n : x <= y => Shows(off, builder(ks, x, y), x, y)
  BY BuilderShows DEF Off
<1>4. incremental(off, ks, prev, new) = front \o kept \o back
  BY DEF incremental
<1>5. Shows(off, dom, p, q)
  BY <1>1, <1>3
<1> HIDE DEF p, q, a, b, off, n
<1>6. Min({a, q}) = a /\ Max({b, p}) = b /\ Min({p, b}) = p /\ Max({q, a}) = q
  <2>1. a \in Int /\ b \in Int /\ p \in Int /\ q \in Int
    BY <1>1
  <2>2. Min({a, q}) = (IF a <= q THEN a ELSE q) /\ Min({p, b}) = (IF p <= b THEN p ELSE b)
    BY ONLY <2>1, LesserOf
  <2>3. Max({b, p}) = (IF b >= p THEN b ELSE p) /\ Max({q, a}) = (IF q >= a THEN q ELSE a)
    BY ONLY <2>1, GreaterOf
  <2>4. a <= q /\ p <= b /\ b >= p /\ q >= a
    BY <1>1
  <2> QED BY ONLY <2>2, <2>3, <2>4
<1>7. m1 \in 0..n /\ m2 \in 0..n /\ a <= m1 /\ m1 <= m2 /\ m2 <= b /\ m1 <= q /\ m1 <= b
  BY <1>1
<1>8. Shows(off, headGone, m1, q)
  <2>1. headGone = DropFirst(dom, At(off, a) - At(off, p))
    BY <1>6
  <2>2. a <= q
    BY <1>1
  <2> HIDE DEF headGone
  <2>3. Shows(off, DropFirst(dom, At(off, a) - At(off, p)), m1, q)
    BY ONLY <1>1, <1>2, <1>5, <2>2, TailShows
  <2> QED BY <2>1, <2>3
<1>9. Shows(off, kept, m1, m2)
  <2>1. kept = DropLast(headGone, At(off, q) - At(off, b))
    BY <1>6
  <2> HIDE DEF headGone, m1, kept
  <2>2. Shows(off, DropLast(headGone, At(off, q) - At(off, b)), m1, m2)
    BY ONLY <1>1, <1>2, <1>7, <1>8, HeadShows
  <2> QED BY <2>1, <2>2
<1> HIDE DEF headGone, kept
<1>10. Shows(off, front, a, m1)
  <2>1. CASE a < p
    <3>1. m1 = p /\ a <= p /\ front = builder(ks, a, p)
      BY <1>1, <1>6, <2>1
    <3> HIDE DEF front, m1
    <3> QED BY <1>1, <1>3, <3>1
  <2>2. CASE ~(a < p)
    <3>1. m1 = a /\ front = << >>
      BY <1>1, <2>2
    <3> HIDE DEF front, m1
    <3> QED BY <1>1, <1>2, <3>1, ShowsNothing
  <2> QED BY <2>1, <2>2
<1>11. Shows(off, back, m2, b)
  <2>1. CASE b > q
    <3>1. m2 = q /\ q <= b /\ back = builder(ks, q, b)
      BY <1>1, <1>6, <2>1
    <3> HIDE DEF back, m2
    <3> QED BY <1>1, <1>3, <3>1
  <2>2. CASE ~(b > q)
    <3>1. m2 = b /\ back = << >>
      BY <1>1, <2>2
    <3> HIDE DEF back, m2
    <3> QED BY <1>1, <1>2, <3>1, ShowsNothing
  <2> QED BY <2>1, <2>2
<1> HIDE DEF front, back, m1, m2
<1>12. Shows(off, front \o kept, a, m2)
  BY ONLY <1>1, <1>2, <1>7, <1>9, <1>10, ShowsJoin
<1>13. Shows(off, front \o kept \o back, a, b)
  <2>1. a <= m2
    BY <1>1, <1>7
  <2> QED BY ONLY <1>1, <1>2, <1>7, <1>11, <1>12, <2>1, ShowsJoin
<1>14. Shows(off, builder(ks, a, b), a, b)
  BY <1>1, <1>3
<1>15. front \o kept \o back = builder(ks, a, b)
  BY ONLY <1>1, <1>2, <1>13, <1>14, ShowsOne
<1> QED BY <1>4, <1>15 DEF a, b, off

\* The rows in the document and the spacers are those of a range.
Drawn(v) == /\ dom = builder(kids, v.s, v.e)
            /\ pads = [top |-> At(Off(kids), v.s), bottom |-> At(Off(kids), Len(kids)) - At(Off(kids), v.e)]
RowInv ==
    /\ kids \in Seq(Nat) /\ scrollTop \in Nat /\ (dirty => wsRaf)
    /\ kids # << >> => /\ attached = TRUE /\ InRange(last, Len(kids))
                       /\ dirty \/ rowCounts = Counts(kids)
                       /\ wsRaf \/ Drawn(last)
                       /\ wsRaf \/ scrollRaf \/ last = _calcVisibleRange(Off(kids), Len(kids), scrollTop)

\* The visible range lies within the list.
LEMMA RangeIn == ASSUME NEW ks \in Seq(Nat), NEW top \in Nat PROVE InRange(_calcVisibleRange(Off(ks), Len(ks), top), Len(ks))
<1>1. Rising(Off(ks), Len(ks))
  BY CountsRise DEF Off
<1> QED BY <1>1, RangeIs DEF InRange

\* A whole drawing shows the range of the scroll position it found.
LEMMA DrawnWhole ==
  ASSUME NEW ks \in Seq(Nat), scrollTop \in Nat, renderTableRows(ks)
  PROVE  /\ kids' = ks /\ dirty' = FALSE /\ scrollTop' \in Nat
         /\ ks # << >> => /\ attached' = TRUE /\ rowCounts' = Counts(ks)
                          /\ last' = _calcVisibleRange(Off(ks), Len(ks), scrollTop) /\ Drawn(last)'
                          /\ scrollRaf' \/ scrollTop' = scrollTop
<1>1. kids' = ks /\ dirty' = FALSE
  BY DEF renderTableRows
<1>2. CASE ks = << >>
  <2>1. scrollTop' = 0
    BY <1>2 DEF renderTableRows
  <2> QED BY <1>1, <1>2, <2>1
<1>3. CASE ks # << >>
  <2> DEFINE off == Off(ks)
             v == _calcVisibleRange(off, Len(ks), scrollTop)
             top == Min({scrollTop, Max({0, Height(pads', dom') - ViewH})})
  <2>1. rowCounts' = Counts(ks) /\ attached' = TRUE /\ renderVisibleRows(ks, Counts(ks), NoRange) /\ scrollTop' = top
        /\ scrollRaf' = (scrollRaf \/ top # scrollTop)
    BY <1>3 DEF renderTableRows
  <2> HIDE DEF top
  <2>2. InRange(v, Len(ks))
    BY RangeIn
  <2>3. last' = v /\ pads' = [top |-> At(off, v.s), bottom |-> At(off, Len(ks)) - At(off, v.e)] /\ dom' = builder(ks, v.s, v.e)
    <3>1. v # NoRange
      BY <2>2 DEF InRange, NoRange
    <3>2. LET overlap == NoRange # NoRange /\ v.s < NoRange.e /\ v.e > NoRange.s
          IN IF v = NoRange THEN UNCHANGED <<dom, pads, last>>
             ELSE /\ last' = v
                  /\ pads' = [top |-> At(off, v.s), bottom |-> At(off, Len(ks)) - At(off, v.e)]
                  /\ dom' = IF overlap THEN incremental(off, ks, NoRange, v) ELSE builder(ks, v.s, v.e)
      BY <2>1 DEF renderVisibleRows, Off
    <3> HIDE DEF v, off
    <3> QED BY <3>1, <3>2
  <2>4. Drawn(last)'
    BY <1>1, <2>3 DEF Drawn
  <2>5. scrollTop' \in Nat
    <3>1. Height(pads', dom') \in Int
      <4>1. Rising(off, Len(ks)) /\ v.s \in 0..Len(ks) /\ v.e \in 0..Len(ks) /\ v.s <= v.e
        BY <2>2, CountsRise DEF InRange, Off
      <4>2. Shows(off, dom', v.s, v.e)
        BY <2>3, <4>1, BuilderShows DEF Off
      <4> HIDE DEF v, off
      <4>3. Len(dom') \in Nat
        BY <4>2 DEF Shows
      <4>4. Len(ks) \in 0..Len(ks) /\ \A j \in 0..Len(ks) : At(off, j) \in Nat
        <5>1. Len(ks) \in Nat /\ \A j \in 0..Len(ks) : j + 1 \in 1..(Len(ks) + 1)
          OBVIOUS
        <5>2. off \in [1..(Len(ks) + 1) -> Nat]
          BY ONLY <4>1 DEF Rising
        <5>3. \A j \in 0..Len(ks) : off[j + 1] \in Nat
          BY ONLY <5>1, <5>2
        <5>4. Len(ks) \in 0..Len(ks)
          BY ONLY <5>1
        <5> QED BY ONLY <5>3, <5>4 DEF At
      <4>5. pads'.top \in Int /\ pads'.bottom \in Int
        BY ONLY <2>3, <4>1, <4>4
      <4> QED BY <4>3, <4>5 DEF Height, TheadH
    <3>2. ViewH \in Int
      BY PktRowsAssumption
    <3> DEFINE h == Height(pads', dom') - ViewH
               mx == Max({0, h})
    <3>3. h \in Int
      BY <3>1, <3>2
    <3> HIDE DEF h
    <3>4. mx = IF 0 >= h THEN 0 ELSE h
      BY ONLY <3>3, 0 \in Int, GreaterOf
    <3>5. mx \in Nat
      BY <3>3, <3>4
    <3>6. top = Min({scrollTop, mx})
      BY DEF top, h
    <3> HIDE DEF mx
    <3>7. scrollTop \in Int /\ mx \in Int
      BY <3>5
    <3>8. Min({scrollTop, mx}) = IF scrollTop <= mx THEN scrollTop ELSE mx
      BY ONLY <3>7, LesserOf
    <3> QED BY <2>1, <3>5, <3>6, <3>8
  <2>6. scrollRaf' \/ scrollTop' = scrollTop
    BY <2>1
  <2> QED BY <1>1, <2>1, <2>3, <2>4, <2>5, <2>6
<1> QED BY <1>2, <1>3

\* Nothing is drawn of an empty list.
LEMMA RowStarts == RowInit => RowInv
<1> SUFFICES ASSUME RowInit PROVE RowInv
  OBVIOUS
<1>1. kids = << >> /\ scrollTop = 0 /\ dirty = FALSE
  BY DEF RowInit
<1> QED BY <1>1 DEF RowInv

\* A full render draws the range for the list of now.
LEMMA WholeHolds == ASSUME RowInv, NEW ks \in Seq(Nat), renderTableRows(ks) PROVE RowInv'
<1>1. /\ kids' = ks /\ dirty' = FALSE /\ scrollTop' \in Nat
      /\ ks # << >> => /\ attached' = TRUE /\ rowCounts' = Counts(ks)
                       /\ last' = _calcVisibleRange(Off(ks), Len(ks), scrollTop) /\ Drawn(last)'
                       /\ scrollRaf' \/ scrollTop' = scrollTop
  BY DrawnWhole DEF RowInv
<1>2. CASE ks = << >>
  BY <1>1, <1>2 DEF RowInv
<1>3. CASE ks # << >>
  <2>1. InRange(last', Len(ks))
    BY <1>1, <1>3, RangeIn DEF RowInv
  <2>2. scrollRaf' \/ last' = _calcVisibleRange(Off(ks), Len(ks), scrollTop')
    BY <1>1, <1>3
  <2>3. InRange(last, Len(kids))'
    BY <1>1, <2>1 DEF InRange
  <2>4. scrollRaf' \/ last' = _calcVisibleRange(Off(kids'), Len(kids'), scrollTop')
    BY <1>1, <2>2
  <2>5. Drawn(last)' /\ rowCounts' = Counts(kids') /\ attached' = TRUE /\ kids' \in Seq(Nat)
    BY <1>1, <1>3
  <2> QED BY <1>1, <2>3, <2>4, <2>5 DEF RowInv, Off, Drawn
<1> QED BY <1>2, <1>3

\* The lists the page may be given.
LEMMA ListsAre == ASSUME NEW ks \in Lists PROVE ks \in Seq(Nat)
<1>1. MaxEntries \in Nat
  BY PktRowsAssumption
<1>2. \A e : [j \in 1..MaxEntries |-> IF j \in e THEN 1 ELSE 0] \in Seq(Nat)
  BY <1>1
<1>3. << >> \in Seq(Nat) /\ <<0, 1>> \in Seq(Nat)
  OBVIOUS
<1>4. ks \in {<< >>, <<0, 1>>} \/ \E e : ks = [j \in 1..MaxEntries |-> IF j \in e THEN 1 ELSE 0]
  BY DEF Lists
<1> QED BY <1>2, <1>3, <1>4

\* A group that grew: the counts are stale until the render that is due.
LEMMA LateHolds == ASSUME RowInv, NEW i \in 1..Len(kids), _invalidateRowCounts(i) PROVE RowInv'
<1>1. /\ kids' = [kids EXCEPT ![i] = @ + 1] /\ dirty' = TRUE /\ wsRaf' = TRUE
      /\ UNCHANGED <<last, scrollTop, attached>>
  BY DEF _invalidateRowCounts
<1>2. kids \in Seq(Nat) /\ kids # << >>
  BY DEF RowInv
<1>3. kids' \in Seq(Nat) /\ Len(kids') = Len(kids)
  BY <1>1, <1>2
<1>4. attached = TRUE /\ InRange(last, Len(kids))
  BY <1>2 DEF RowInv
<1>5. InRange(last, Len(kids))'
  BY <1>1, <1>3, <1>4
<1>6. attached' = TRUE /\ scrollTop' \in Nat
  BY <1>1, <1>4 DEF RowInv
<1> QED BY <1>1, <1>3, <1>5, <1>6 DEF RowInv

\* A scroll asks for a frame and draws nothing.
LEMMA ScrollHolds == ASSUME RowInv, NEW top \in Nat, UserScrolls(top) PROVE RowInv'
<1>1. scrollTop' = top /\ scrollRaf' = (scrollRaf \/ attached)
      /\ UNCHANGED <<kids, rowCounts, dirty, last, dom, pads, attached, wsRaf>>
  BY DEF UserScrolls
<1>2. attached = TRUE => scrollRaf'
  BY <1>1
<1>3. Drawn(last)' <=> Drawn(last)
  BY <1>1 DEF Drawn, Off
<1> QED BY <1>1, <1>2, <1>3 DEF RowInv

\* The frame of a scroll draws by one of three ways, and each shows the range.
LEMMA FrameHolds == ASSUME RowInv, scrollFrame PROVE RowInv'
<1>1. scrollRaf' = FALSE /\ UNCHANGED <<kids, scrollTop, attached, wsRaf>>
  BY DEF scrollFrame
<1>2. kids \in Seq(Nat) /\ scrollTop \in Nat /\ (dirty => wsRaf)
  BY DEF RowInv
<1>3. CASE kids = << >>
  <2>1. dirty' = dirty
    BY <1>3 DEF scrollFrame
  <2> QED BY <1>1, <1>2, <1>3, <2>1 DEF RowInv
<1>4. CASE kids # << >>
  <2> DEFINE off == Off(kids)
             n == Len(kids)
             v == _calcVisibleRange(off, n, scrollTop)
             overlap == last # NoRange /\ v.s < last.e /\ v.e > last.s
  <2>1. attached = TRUE /\ InRange(last, n) /\ (dirty \/ rowCounts = Counts(kids)) /\ (wsRaf \/ Drawn(last))
    BY <1>4 DEF RowInv
  <2>2. rowCounts' = (IF dirty THEN Counts(kids) ELSE rowCounts) /\ dirty' = FALSE /\ renderVisibleRows(kids, rowCounts', last)
    BY <1>4 DEF scrollFrame
  <2>3. rowCounts' = Counts(kids)
    BY <2>1, <2>2
  <2>4. IF v = last THEN UNCHANGED <<dom, pads, last>>
        ELSE /\ last' = v
             /\ pads' = [top |-> At(off, v.s), bottom |-> At(off, n) - At(off, v.e)]
             /\ dom' = IF overlap THEN incremental(off, kids, last, v) ELSE builder(kids, v.s, v.e)
    BY <2>2, <2>3 DEF renderVisibleRows, Off
  <2>5. InRange(v, n)
    BY <1>2, RangeIn
  <2> HIDE DEF v
  <2>6. last' = v
    BY <2>4
  <2>7. ASSUME ~wsRaf PROVE Drawn(last)'
    <3>1. Drawn(last)
      BY <2>1, <2>7
    <3>2. CASE v = last
      <4>1. UNCHANGED <<dom, pads, last>>
        BY <2>4, <3>2
      <4> QED BY <1>1, <3>1, <4>1 DEF Drawn, Off
    <3>3. CASE v # last
      <4>1. pads' = [top |-> At(off, v.s), bottom |-> At(off, n) - At(off, v.e)]
            /\ dom' = IF overlap THEN incremental(off, kids, last, v) ELSE builder(kids, v.s, v.e)
        BY <2>4, <3>3
      <4>2. dom' = builder(kids, v.s, v.e)
        <5>1. CASE overlap
          <6>1. dom = builder(kids, last.s, last.e) /\ v.s < last.e /\ v.e > last.s
            BY <3>1, <5>1 DEF Drawn
          <6>2. incremental(off, kids, last, v) = builder(kids, v.s, v.e)
            BY ONLY <1>2, <2>1, <2>5, <6>1, IncrementalIs
          <6> HIDE DEF overlap, off
          <6> QED BY <4>1, <5>1, <6>2
        <5>2. CASE ~overlap
          <6> HIDE DEF overlap
          <6> QED BY <4>1, <5>2
        <5> QED BY <5>1, <5>2
      <4> QED BY <1>1, <2>6, <4>1, <4>2 DEF Drawn
    <3> QED BY <3>2, <3>3
  <2>8. InRange(last, Len(kids))'
    BY <1>1, <2>5, <2>6
  <2>9. last' = _calcVisibleRange(Off(kids'), Len(kids'), scrollTop')
    BY <1>1, <2>6 DEF v
  <2>10. rowCounts' = Counts(kids') /\ attached' = TRUE /\ kids' \in Seq(Nat) /\ scrollTop' \in Nat /\ dirty' = FALSE
    BY <1>1, <1>2, <2>1, <2>2, <2>3
  <2>11. wsRaf' \/ Drawn(last)'
    BY <1>1, <2>7
  <2> HIDE DEF off, n, overlap
  <2> QED BY <2>8, <2>9, <2>10, <2>11 DEF RowInv, Off, Drawn
<1> QED BY <1>3, <1>4

\* Every step keeps the document equal to the rows of its range.
LEMMA RowStepHolds == RowInv /\ [RowNext]_rowVars => RowInv'
<1> SUFFICES ASSUME RowInv, [RowNext]_rowVars PROVE RowInv'
  OBVIOUS
<1>1. ASSUME NEW ks \in Lists, Redraw(ks) PROVE RowInv'
  <2>1. ks \in Seq(Nat) /\ renderTableRows(ks)
    BY <1>1, ListsAre DEF Redraw
  <2> QED BY <2>1, WholeHolds
<1>2. ASSUME NEW i \in 1..Len(kids), _invalidateRowCounts(i) PROVE RowInv'
  BY <1>2, LateHolds
<1>3. ASSUME NEW top \in 0..((MaxKids + 1) * MaxEntries), UserScrolls(top) PROVE RowInv'
  <2>1. top \in Nat
    OBVIOUS
  <2> QED BY <1>3, <2>1, ScrollHolds
<1>4. CASE scheduleWSRender
  <2>1. kids \in Seq(Nat) /\ renderTableRows(kids)
    BY <1>4 DEF scheduleWSRender, RowInv
  <2> QED BY <2>1, WholeHolds
<1>5. CASE scrollFrame
  BY <1>5, FrameHolds
<1>6. CASE UNCHANGED rowVars
  <2>1. UNCHANGED <<kids, rowCounts, dirty, last, dom, pads, scrollTop, scrollRaf, attached, wsRaf>>
    BY <1>6 DEF rowVars
  <2>2. Drawn(last)' <=> Drawn(last)
    BY <2>1 DEF Drawn, Off
  <2> QED BY <2>1, <2>2 DEF RowInv
<1> QED BY <1>1, <1>2, <1>3, <1>4, <1>5, <1>6 DEF RowNext

\* RowInv says that the document shows its range.
LEMMA RangeShown == RowInv => RowsMatchRange
  BY DEF RowInv, RowsMatchRange, Drawn

\* What the window looks at is drawn, and the table is as high as its rows.
LEMMA WindowShown == RowInv => WindowCovered
<1> SUFFICES ASSUME RowInv, ~wsRaf, ~scrollRaf, kids # << >>
             PROVE  LET all == builder(kids, 0, Len(kids))
                        seen == {all[r] : r \in {x \in 1..Len(all) : x - 1 + TheadH >= scrollTop /\ x + TheadH <= scrollTop + ViewH}}
                    IN seen \subseteq ToSet(dom) /\ Height(pads, dom) = TheadH + Len(all)
  BY DEF WindowCovered
<1> DEFINE n == Len(kids)
           off == Off(kids)
           all == builder(kids, 0, n)
           v == last
<1>1. kids \in Seq(Nat) /\ scrollTop \in Nat /\ n \in Nat /\ InRange(v, n) /\ v = _calcVisibleRange(off, n, scrollTop)
      /\ dom = builder(kids, v.s, v.e) /\ pads = [top |-> At(off, v.s), bottom |-> At(off, n) - At(off, v.e)]
  BY DEF RowInv, Drawn
<1>2. Rising(off, n)
  BY <1>1, CountsRise DEF Off
<1>3. Shows(off, all, 0, n) /\ Shows(off, dom, v.s, v.e)
  <2>1. v.s \in 0..n /\ v.e \in 0..n /\ v.s <= v.e /\ 0 \in 0..n /\ n \in 0..n /\ 0 <= n
    BY <1>1 DEF InRange
  <2> QED BY <1>1, <2>1, BuilderShows DEF Off
<1>4. \A i \in 0..(n - 1), r \in Nat :
        At(off, i) < r /\ r <= At(off, i + 1) /\ r - 1 + TheadH >= scrollTop /\ r + TheadH <= scrollTop + ViewH => v.s <= i /\ i < v.e
  BY <1>1, <1>2, RangeIs
<1>5. v.s \in 0..n /\ v.e \in 0..n /\ v.s <= v.e
  BY <1>1 DEF InRange
<1> HIDE DEF n, off, all, v
<1>6. \A j \in 0..n : At(off, j) \in Nat
  <2>1. off \in [1..(n + 1) -> Nat]
    BY <1>2 DEF Rising
  <2>2. \A j \in 0..n : j + 1 \in 1..(n + 1)
    BY <1>1
  <2> QED BY <2>1, <2>2 DEF At
<1>7. At(off, 0) = 0 /\ 0 \in 0..n /\ n \in 0..n
  BY <1>1, <1>2 DEF Rising, At
<1>8. Len(all) = At(off, n) /\ Len(dom) = At(off, v.e) - At(off, v.s) /\ dom \in Seq(Nat)
  <2>1. Len(all) = At(off, n) - At(off, 0) /\ Len(dom) = At(off, v.e) - At(off, v.s) /\ dom \in Seq(Nat)
    BY <1>3 DEF Shows
  <2> QED BY <1>6, <1>7, <2>1
<1>9. Height(pads, dom) = TheadH + Len(all)
  <2>1. At(off, v.s) \in Nat /\ At(off, v.e) \in Nat /\ At(off, n) \in Nat
    BY <1>5, <1>6, <1>7
  <2>2. pads.top = At(off, v.s) /\ pads.bottom = At(off, n) - At(off, v.e)
    BY <1>1
  <2> QED BY <1>8, <2>1, <2>2 DEF Height, TheadH
<1>10. ASSUME NEW r \in 1..Len(all), r - 1 + TheadH >= scrollTop, r + TheadH <= scrollTop + ViewH
       PROVE  all[r] \in ToSet(dom)
  <2> DEFINE i == all[r]
  <2>1. r \in Nat /\ Len(all) \in Nat /\ At(off, 0) + r = r
    BY <1>6, <1>7, <1>8
  <2>2. i \in 0..(n - 1) /\ At(off, i) < r /\ r <= At(off, i + 1)
    <3>1. i \in 0..(n - 1) /\ At(off, i) < At(off, 0) + r /\ At(off, 0) + r <= At(off, i + 1)
      BY <1>3 DEF Shows
    <3> QED BY ONLY <2>1, <3>1
  <2> HIDE DEF i
  <2>3. v.s <= i /\ i < v.e
    BY <1>4, <1>10, <2>1, <2>2
  <2>4. i + 1 \in 0..n /\ i \in 0..n
    BY <1>1, <2>2
  <2>5. At(off, v.s) <= At(off, i) /\ At(off, i + 1) <= At(off, v.e)
    <3>1. v.s + 1 \in 1..(n + 1) /\ i + 1 \in 1..(n + 1) /\ (i + 1) + 1 \in 1..(n + 1) /\ v.e + 1 \in 1..(n + 1)
          /\ v.s + 1 <= i + 1 /\ (i + 1) + 1 <= v.e + 1
      <4>1. n \in Nat /\ v.s \in 0..n /\ v.e \in 0..n /\ i \in 0..(n - 1) /\ v.s <= i /\ i < v.e
        BY <1>1, <1>5, <2>2, <2>3
      <4> DEFINE x == v.s
                 y == v.e
      <4>2. n \in Nat /\ x \in 0..n /\ y \in 0..n /\ i \in 0..(n - 1) /\ x <= i /\ i < y
        BY <4>1
      <4> HIDE DEF x, y
      <4>3. /\ x + 1 \in 1..(n + 1) /\ i + 1 \in 1..(n + 1) /\ (i + 1) + 1 \in 1..(n + 1) /\ y + 1 \in 1..(n + 1)
            /\ x + 1 <= i + 1 /\ (i + 1) + 1 <= y + 1
        BY ONLY <4>2
      <4> QED BY <4>3 DEF x, y
    <3>2. off[v.s + 1] <= off[i + 1]
      BY <1>2, <3>1, Rises
    <3>3. off[(i + 1) + 1] <= off[v.e + 1]
      BY <1>2, <3>1, Rises
    <3> QED BY <3>2, <3>3 DEF At
  <2> DEFINE a == At(off, v.s)
             q == r - a
  <2>6. a \in Nat /\ At(off, v.e) \in Nat /\ At(off, i) \in Nat /\ At(off, i + 1) \in Nat
    BY <1>5, <1>6, <2>4
  <2>7. q \in 1..Len(dom) /\ a + q = r
    BY <1>8, <2>1, <2>2, <2>5, <2>6
  <2> HIDE DEF q
  <2>8. dom[q] \in (v.s)..(v.e - 1) /\ At(off, dom[q]) < a + q /\ a + q <= At(off, dom[q] + 1)
    BY <1>3, <2>7 DEF Shows
  <2> DEFINE k == dom[q]
  <2>9. k \in 0..(n - 1) /\ At(off, k) < r /\ r <= At(off, k + 1)
    <3>1. k \in 0..(n - 1)
      <4> DEFINE x == v.s
                 y == v.e
      <4>1. n \in Nat /\ x \in 0..n /\ y \in 0..n /\ k \in x..(y - 1)
        BY <1>1, <1>5, <2>8
      <4> HIDE DEF x, y, k
      <4> QED BY ONLY <4>1
    <3> QED BY <2>7, <2>8, <3>1
  <2> HIDE DEF k
  <2>10. i = k
    BY ONLY <1>2, <2>1, <2>2, <2>9, OneEntry
  <2>11. q \in DOMAIN dom
    BY <1>8, <2>7
  <2>12. k \in ToSet(dom)
    BY <1>8, <2>11, MembersTaken DEF k
  <2> QED BY <2>10, <2>12 DEF i
<1>11. {all[r] : r \in {x \in 1..Len(all) : x - 1 + TheadH >= scrollTop /\ x + TheadH <= scrollTop + ViewH}} \subseteq ToSet(dom)
  BY <1>10
<1> QED BY <1>9, <1>11 DEF all, n

\* The packets page.
PacketListSpec == ListInit /\ [][ListNext]_listVars /\ RowInit /\ [][RowNext]_rowVars
ListInv == LifeInv /\ DrawInv /\ FlowTypes /\ IndexInv /\ OnceInv

\* The list starts well.
LEMMA ListStarts == ListInit => ListInv
  BY LifeStarts, FlowStarts, IndexStarts, OnceStarts DEF ListInv

\* Every step of the list keeps its invariant.
LEMMA ListStepHolds == ListInv /\ [ListNext]_listVars => ListInv'
  BY LifeStepHolds, DrawStepHolds, FlowStepHolds, IndexStepHolds, OnceStepHolds DEF ListInv

\* Both invariants give what the page promises.
LEMMA ListIsExact == ListInv /\ RowInv => PacketListExact
  BY IndexLeads, LifeCounts, OnceKeepsAll, RangeShown, WindowShown DEF ListInv, DrawInv, PacketListExact

(* The packets page keeps every message that its one handler got in one    *)
(* place, finds every group by its hash, has one handler per visit that is *)
(* on, draws what changed, and has in the document what is in the window.  *)
THEOREM PacketListExactThm == PacketListSpec => []PacketListExact
<1>1. ListInit /\ [][ListNext]_listVars => []ListInv
  BY ListStarts, ListStepHolds, PTL
<1>2. RowInit /\ [][RowNext]_rowVars => []RowInv
  BY RowStarts, RowStepHolds, PTL
<1>3. []ListInv /\ []RowInv => []PacketListExact
  BY ListIsExact, PTL
<1> QED BY <1>1, <1>2, <1>3, PTL DEF PacketListSpec

------------------------------------------------------------------------------
(* The filters: the newest request was made with what the controls show, or *)
(* what is shown was, and no other request is taken for it.                 *)
Matches(p, f, g) == p.hash = f.hash /\ p.grouped = g /\ p.channel = buildPacketsParams(f, g).channel
FilterInv ==
    /\ nask \in Nat /\ nshown \in 0..nask
    /\ \A a \in asks : a.n \in 1..nask /\ a.n # nshown
    /\ \A a, b \in asks : a.n = b.n => a = b
    /\ ~outOfOrder => \/ nshown = nask /\ Matches(shown, filters, grouping)
                      \/ \E a \in asks : a.n = nask /\ Matches(a.p, filters, grouping)

\* What is asked for is what the controls show.
LEMMA AskMatches == ASSUME NEW f, NEW g PROVE Matches(buildPacketsParams(f, g), f, g)
  BY DEF Matches, buildPacketsParams

\* At the start the list was asked for with the filters of the link.
LEMMA FilterStarts == FilterInit => FilterInv
<1> SUFFICES ASSUME FilterInit PROVE FilterInv
  OBVIOUS
<1>1. nask = 0 /\ nshown = 0 /\ asks = {} /\ grouping = TRUE /\ shown = buildPacketsParams(filters, TRUE)
  BY DEF FilterInit
<1>2. Matches(shown, filters, grouping)
  BY <1>1 DEF Matches, buildPacketsParams
<1>3. nask \in Nat /\ nshown \in 0..nask
  BY <1>1
<1> QED BY <1>1, <1>2, <1>3 DEF FilterInv

\* A new request is the newest.
LEMMA AskKeeps ==
  ASSUME FilterInv, NEW f, NEW g, filters' = f, grouping' = g, Ask(f, g), UNCHANGED <<shown, outOfOrder, nshown>>
  PROVE  FilterInv'
<1> DEFINE new == [n |-> nask + 1, p |-> buildPacketsParams(f, g)]
<1>1. nask' = nask + 1 /\ asks' = asks \union {new} /\ nask \in Nat /\ nshown' = nshown /\ nshown \in 0..nask
  BY DEF Ask, FilterInv
<1>2. new.n = nask + 1 /\ new.p = buildPacketsParams(f, g)
  OBVIOUS
<1> HIDE DEF new
<1>3. Matches(new.p, filters', grouping')
  BY <1>2, AskMatches
<1>4. nask' \in Nat /\ nshown' \in 0..nask'
  BY <1>1
<1>5. \A a \in asks : a.n \in 1..nask /\ a.n # nshown
  BY DEF FilterInv
<1>6. \A a \in asks' : a.n \in 1..nask' /\ a.n # nshown'
  BY <1>1, <1>2, <1>5
<1>7. \A a, b \in asks' : a.n = b.n => a = b
  <2> SUFFICES ASSUME NEW a \in asks', NEW b \in asks', a.n = b.n PROVE a = b
    OBVIOUS
  <2>1. CASE a \in asks /\ b \in asks
    BY <2>1 DEF FilterInv
  <2>2. CASE a = new /\ b \in asks
    BY <1>1, <1>2, <1>5, <2>2
  <2>3. CASE b = new /\ a \in asks
    BY <1>1, <1>2, <1>5, <2>3
  <2> QED BY <1>1, <2>1, <2>2, <2>3
<1>8. \E a \in asks' : a.n = nask' /\ Matches(a.p, filters', grouping')
  BY <1>1, <1>2, <1>3
<1> QED BY <1>4, <1>6, <1>7, <1>8 DEF FilterInv

\* Nothing is asked when hash, channel and grouping stay what they are.
LEMMA QuietKeeps ==
  ASSUME FilterInv, Quiet, UNCHANGED <<shown, outOfOrder, nshown, grouping>>, filters'.hash = filters.hash, filters'.channel = filters.channel
  PROVE  FilterInv'
<1>1. \A p : Matches(p, filters, grouping) => Matches(p, filters', grouping')
  BY DEF Matches, buildPacketsParams
<1> QED BY <1>1 DEF FilterInv, Quiet

\* An answer: the newest request's, or one that comes out of order.
LEMMA AnswerKeeps == ASSUME FilterInv, NEW a \in asks, PktAnswer(a) PROVE FilterInv'
<1>1. asks' = asks \ {a} /\ shown' = a.p /\ nshown' = a.n /\ outOfOrder' = (outOfOrder \/ a.n < nshown) /\ nask' = nask
      /\ filters' = filters /\ grouping' = grouping
  BY DEF PktAnswer
<1>2. nask \in Nat /\ nshown \in 0..nask /\ a.n \in 1..nask /\ a.n # nshown
  BY DEF FilterInv
<1>3. \A p : Matches(p, filters, grouping) => Matches(p, filters', grouping')
  BY <1>1 DEF Matches, buildPacketsParams
<1>4. \A b \in asks' : b.n \in 1..nask' /\ b.n # nshown'
  BY <1>1 DEF FilterInv
<1>5. \A b, c \in asks' : b.n = c.n => b = c
  BY <1>1 DEF FilterInv
<1>6. ASSUME ~outOfOrder' PROVE (nshown' = nask' /\ Matches(shown', filters', grouping')) \/ \E b \in asks' : b.n = nask' /\ Matches(b.p, filters', grouping')
  <2>1. ~outOfOrder /\ ~(a.n < nshown)
    BY <1>1, <1>6
  <2>2. nshown # nask
    BY ONLY <1>2, <2>1
  <2>3. PICK b \in asks : b.n = nask /\ Matches(b.p, filters, grouping)
    BY <2>1, <2>2 DEF FilterInv
  <2>4. CASE b = a
    BY <1>1, <1>3, <2>3, <2>4
  <2>5. CASE b # a
    BY <1>1, <1>3, <2>3, <2>5
  <2> QED BY <2>4, <2>5
<1>7. nask' \in Nat /\ nshown' \in 0..nask'
  BY ONLY <1>1, <1>2
<1> QED BY <1>4, <1>5, <1>6, <1>7 DEF FilterInv

\* Every step keeps the newest request and the controls in agreement.
LEMMA FilterStepHolds == FilterInv /\ [FilterNext]_filterVars => FilterInv'
<1> SUFFICES ASSUME FilterInv, [FilterNext]_filterVars PROVE FilterInv'
  OBVIOUS
<1>1. ASSUME NEW o \in Obs, NEW c \in BOOLEAN, obsMenuChange(o, c) PROVE FilterInv'
  <2>1. /\ Quiet /\ UNCHANGED <<shown, outOfOrder, nshown, grouping>>
        /\ filters' = [filters EXCEPT !.observer = chosen']
    BY <1>1 DEF obsMenuChange
  <2>2. filters'.hash = filters.hash /\ filters'.channel = filters.channel
    BY <2>1
  <2> QED BY <2>1, <2>2, QuietKeeps
<1>2. ASSUME NEW c \in Channels, channelChange(c) PROVE FilterInv'
  <2>1. Ask(filters', grouping') /\ UNCHANGED <<shown, outOfOrder, nshown>>
    BY <1>2 DEF channelChange
  <2> QED BY <2>1, AskKeeps
<1>3. ASSUME NEW f \in {"hash", "expr"}, NEW x \in Texts, TypeInto(f, x) PROVE FilterInv'
  <2>1. Quiet /\ UNCHANGED <<shown, outOfOrder, nshown, grouping, filters>>
    BY <1>3 DEF TypeInto
  <2> QED BY <2>1, QuietKeeps
<1>4. CASE groupClick
  <2>1. Ask(filters', grouping') /\ UNCHANGED <<shown, outOfOrder, nshown>>
    BY <1>4 DEF groupClick
  <2> QED BY <2>1, AskKeeps
<1>5. CASE fHashTimer
  <2>1. Ask(filters', grouping') /\ UNCHANGED <<shown, outOfOrder, nshown>>
    BY <1>5 DEF fHashTimer
  <2> QED BY <2>1, AskKeeps
<1>6. CASE pfTimerFires
  <2>1. Quiet /\ UNCHANGED <<shown, outOfOrder, nshown, grouping>> /\ filters' = [filters EXCEPT !.expr = field.expr]
    BY <1>6 DEF pfTimerFires
  <2>2. filters'.hash = filters.hash /\ filters'.channel = filters.channel
    BY <2>1
  <2> QED BY <2>1, <2>2, QuietKeeps
<1>7. CASE clearFilters
  <2>1. Ask(filters', grouping') /\ UNCHANGED <<shown, outOfOrder, nshown>>
    BY <1>7 DEF clearFilters
  <2> QED BY <2>1, AskKeeps
<1>8. ASSUME NEW a \in asks, PktAnswer(a) PROVE FilterInv'
  BY <1>8, AnswerKeeps
<1>9. CASE UNCHANGED filterVars
  BY <1>9 DEF filterVars, FilterInv, Matches
<1> QED BY <1>1, <1>2, <1>3, <1>4, <1>5, <1>6, <1>7, <1>8, <1>9 DEF FilterNext

\* With no request under way the newest was answered.
LEMMA FilterAgrees == FilterInv => ServerFiltersApplied
BY DEF FilterInv, ServerFiltersApplied, Settled_, Matches

(* A field whose debounce is not due shows what filters. *)
FieldInv ==
    /\ filters = [hash |-> filters.hash, channel |-> filters.channel, observer |-> filters.observer, expr |-> filters.expr]
    /\ field = [hash |-> field.hash, expr |-> field.expr]
    /\ "hash" \notin timers => filters.hash = field.hash
    /\ "expr" \notin timers => filters.expr = field.expr

\* Empty fields, no filter typed.
LEMMA FieldStarts == FilterInit => FieldInv
<1> SUFFICES ASSUME FilterInit PROVE FieldInv
  OBVIOUS
<1>1. filters = NoFilters \/ \E o : filters = [NoFilters EXCEPT !.observer = o]
  BY DEF FilterInit
<1>2. /\ filters = [hash |-> filters.hash, channel |-> filters.channel, observer |-> filters.observer, expr |-> filters.expr]
      /\ filters.hash = "" /\ filters.expr = ""
  <2>1. \E o : filters = [hash |-> "", channel |-> "", observer |-> o, expr |-> ""]
    <3>1. CASE filters = NoFilters
      BY <3>1 DEF NoFilters
    <3>2. ASSUME NEW o, filters = [NoFilters EXCEPT !.observer = o] PROVE filters = [hash |-> "", channel |-> "", observer |-> o, expr |-> ""]
      BY <3>2 DEF NoFilters
    <3> QED BY <1>1, <3>1, <3>2
  <2>2. PICK o : filters = [hash |-> "", channel |-> "", observer |-> o, expr |-> ""]
    BY <2>1
  <2> QED BY <2>2
<1>3. field = [hash |-> "", expr |-> ""]
  BY DEF FilterInit
<1> QED BY <1>2, <1>3 DEF FieldInv

\* Every step keeps a field that is not due equal to its filter.
LEMMA FieldStepHolds == FieldInv /\ [FilterNext]_filterVars => FieldInv'
<1> SUFFICES ASSUME FieldInv, [FilterNext]_filterVars PROVE FieldInv'
  OBVIOUS
<1> DEFINE h == filters.hash
           e == filters.expr
           c0 == filters.channel
           o0 == filters.observer
<1>0. filters = [hash |-> h, channel |-> c0, observer |-> o0, expr |-> e]
  BY DEF FieldInv
<1> HIDE DEF h, e, c0, o0
<1>1. ASSUME NEW o \in Obs, NEW c \in BOOLEAN, obsMenuChange(o, c) PROVE FieldInv'
  <2>1. UNCHANGED <<field, timers>> /\ filters' = [hash |-> h, channel |-> c0, observer |-> chosen', expr |-> e]
    BY <1>0, <1>1 DEF obsMenuChange
  <2> QED BY <1>0, <2>1 DEF FieldInv
<1>2. ASSUME NEW c \in Channels, channelChange(c) PROVE FieldInv'
  <2>1. UNCHANGED <<field, timers>> /\ filters' = [hash |-> h, channel |-> c, observer |-> o0, expr |-> e]
    BY <1>0, <1>2 DEF channelChange
  <2> QED BY <1>0, <2>1 DEF FieldInv
<1>3. ASSUME NEW f \in {"hash", "expr"}, NEW x \in Texts, TypeInto(f, x) PROVE FieldInv'
  <2>1. UNCHANGED filters /\ timers' = timers \union {f} /\ field' = [field EXCEPT ![f] = x]
    BY <1>3 DEF TypeInto
  <2>2. field = [hash |-> field.hash, expr |-> field.expr]
    BY DEF FieldInv
  <2>3. CASE f = "hash"
    <3>1. field' = [hash |-> x, expr |-> field.expr]
      BY <2>1, <2>2, <2>3
    <3> QED BY <2>1, <2>3, <3>1 DEF FieldInv
  <2>4. CASE f = "expr"
    <3>1. field' = [hash |-> field.hash, expr |-> x]
      BY <2>1, <2>2, <2>4
    <3> QED BY <2>1, <2>4, <3>1 DEF FieldInv
  <2> QED BY <2>3, <2>4
<1>4. CASE groupClick
  BY <1>4 DEF groupClick, FieldInv
<1>5. CASE fHashTimer
  <2>1. UNCHANGED field /\ timers' = timers \ {"hash"} /\ filters' = [hash |-> field.hash, channel |-> c0, observer |-> o0, expr |-> e]
    BY <1>0, <1>5 DEF fHashTimer
  <2> QED BY <1>0, <2>1 DEF FieldInv
<1>6. CASE pfTimerFires
  <2>1. UNCHANGED field /\ timers' = timers \ {"expr"} /\ filters' = [hash |-> h, channel |-> c0, observer |-> o0, expr |-> field.expr]
    BY <1>0, <1>6 DEF pfTimerFires
  <2> QED BY <1>0, <2>1 DEF FieldInv
<1>7. CASE clearFilters
  <2>1. filters' = [hash |-> "", channel |-> "", observer |-> {}, expr |-> ""] /\ field' = [hash |-> "", expr |-> ""]
    BY <1>7 DEF clearFilters, NoFilters
  <2> QED BY <2>1 DEF FieldInv
<1>8. ASSUME NEW a \in asks, PktAnswer(a) PROVE FieldInv'
  BY <1>8 DEF PktAnswer, FieldInv
<1>9. CASE UNCHANGED filterVars
  BY <1>9 DEF filterVars, FieldInv
<1> QED BY <1>1, <1>2, <1>3, <1>4, <1>5, <1>6, <1>7, <1>8, <1>9 DEF FilterNext

\* With no debounce due the fields are the filters.
LEMMA FieldAgrees == FieldInv => FieldsAreFilters
BY DEF FieldInv, FieldsAreFilters

------------------------------------------------------------------------------
(* The columns: a chosen column was known when it was chosen, so a later    *)
(* release does not take it for a new one.                                  *)
Chosen == {c \in ColDefs(2) : choice[c] # "none"}
KnownNow == IF knownCols = NoCols THEN LegacyCols ELSE knownCols
ColInv ==
    /\ colVersion \in {1, 2} /\ choice \in [ColDefs(2) -> {"none", "on", "off"}]
    /\ visibleCols = NoCols \/ visibleCols \in SUBSET ColDefs(2)
    /\ loaded => visibleCols # NoCols
    /\ \A c \in Chosen : /\ visibleCols # NoCols /\ c \in ColDefs(colVersion) /\ c \in KnownNow
                         /\ choice[c] = "off" => c \notin visibleCols
                         /\ choice[c] = "on" => c \in visibleCols

\* Nothing was chosen yet.
LEMMA ColStarts == ColInit => ColInv
BY DEF ColInit, ColInv, Chosen

\* The columns of a later release include those of an earlier one, and none
\* has the name that stands for "never stored".
LEMMA ColNames ==
  /\ LegacyCols \in SUBSET ColDefs(2) /\ \A v \in {1, 2} : LegacyCols \in SUBSET ColDefs(v) /\ ColDefs(v) \in SUBSET ColDefs(2)
  /\ ColDefs(1) = LegacyCols /\ NoCols \notin SUBSET ColDefs(2)
BY DEF ColDefs, LegacyCols, NoCols

\* What a release stores as known are its columns.
LEMMA KnownAre == ASSUME ColInv, knownCols' = KnownCols PROVE KnownNow' = ColDefs(colVersion)
<1>1. CASE colVersion = 1
  BY <1>1, ColNames DEF KnownCols, KnownNow
<1>2. CASE colVersion = 2
  <2>1. knownCols' = ColDefs(2) /\ ColDefs(2) # NoCols
    BY <1>2, ColNames DEF KnownCols
  <2> QED BY <1>2, <2>1 DEF KnownNow
<1> QED BY <1>1, <1>2 DEF ColInv

\* A visit shows what was stored and what is new.
LEMMA RestoredIs ==
  ASSUME ColInv
  PROVE  /\ restored \in SUBSET ColDefs(2) /\ restored # NoCols
         /\ \A c \in Chosen : (choice[c] = "off" => c \notin restored) /\ (choice[c] = "on" => c \in restored)
<1>1. ColDefs(colVersion) \in SUBSET ColDefs(2)
  BY ColNames DEF ColInv
<1>2. CASE visibleCols = NoCols
  <2>1. restored = ColDefs(colVersion) \ defaultHidden
    BY <1>2 DEF restored
  <2>2. Chosen = {}
    BY <1>2 DEF ColInv
  <2>3. restored \in SUBSET ColDefs(2)
    BY <1>1, <2>1
  <2> QED BY <2>2, <2>3, ColNames
<1>3. CASE visibleCols # NoCols
  <2>1. restored = visibleCols \union (ColDefs(colVersion) \ (KnownNow \union defaultHidden))
    BY <1>3 DEF restored, KnownNow
  <2>2. visibleCols \in SUBSET ColDefs(2)
    BY <1>3 DEF ColInv
  <2>3. restored \in SUBSET ColDefs(2)
    BY <1>1, <2>1, <2>2
  <2>4. \A c \in Chosen : c \in KnownNow /\ (choice[c] = "off" => c \notin visibleCols) /\ (choice[c] = "on" => c \in visibleCols)
    BY DEF ColInv
  <2> QED BY <2>1, <2>3, <2>4, ColNames
<1> QED BY <1>2, <1>3

\* Every step keeps the choices and that they are known.
LEMMA ColStepHolds == ColInv /\ [ColNext]_colVars => ColInv'
<1> SUFFICES ASSUME ColInv, [ColNext]_colVars PROVE ColInv'
  OBVIOUS
<1>0. colVersion \in {1, 2} /\ choice \in [ColDefs(2) -> {"none", "on", "off"}] /\ (loaded => visibleCols # NoCols)
      /\ (visibleCols = NoCols \/ visibleCols \in SUBSET ColDefs(2))
  BY DEF ColInv
<1>1. ASSUME NEW n \in BOOLEAN, loadColumns(n) PROVE ColInv'
  <2>1. visibleCols' = restored /\ knownCols' = KnownCols /\ UNCHANGED <<colVersion, choice>>
    BY <1>1 DEF loadColumns
  <2>2. Chosen' = Chosen /\ KnownNow' = ColDefs(colVersion)
    BY <2>1, KnownAre DEF Chosen
  <2>3. \A c \in Chosen : c \in ColDefs(colVersion)
    BY DEF ColInv
  <2> QED BY <1>0, <2>1, <2>2, <2>3, RestoredIs DEF ColInv
<1>2. ASSUME NEW k \in ColDefs(2), colMenuChange(k) PROVE ColInv'
  <2>1. /\ k \in ColDefs(colVersion) /\ knownCols' = KnownCols /\ UNCHANGED colVersion /\ visibleCols # NoCols
        /\ visibleCols' = (IF k \in visibleCols THEN visibleCols \ {k} ELSE visibleCols \union {k})
        /\ choice' = [choice EXCEPT ![k] = IF k \in visibleCols THEN "off" ELSE "on"]
    BY <1>0, <1>2 DEF colMenuChange
  <2>2. KnownNow' = ColDefs(colVersion)
    BY <2>1, KnownAre
  <2>3. choice' \in [ColDefs(2) -> {"none", "on", "off"}]
    BY <1>0, <2>1
  <2>4. visibleCols' \in SUBSET ColDefs(2) /\ visibleCols' # NoCols
    BY <1>0, <2>1, ColNames
  <2>5. ASSUME NEW c \in Chosen' PROVE /\ c \in ColDefs(colVersion)
                                       /\ choice'[c] = "off" => c \notin visibleCols'
                                       /\ choice'[c] = "on" => c \in visibleCols'
    <3>1. c \in ColDefs(2) /\ choice'[c] # "none"
      BY DEF Chosen
    <3>2. CASE c = k
      BY <1>0, <2>1, <3>2
    <3>3. CASE c # k
      <4>1. choice'[c] = choice[c] /\ c \in Chosen
        BY <1>0, <2>1, <3>1, <3>3 DEF Chosen
      <4>2. c \in ColDefs(colVersion) /\ (choice[c] = "off" => c \notin visibleCols) /\ (choice[c] = "on" => c \in visibleCols)
        BY <4>1 DEF ColInv
      <4> QED BY <2>1, <3>3, <4>1, <4>2
    <3> QED BY <3>2, <3>3
  <2> QED BY <1>0, <2>1, <2>2, <2>3, <2>4, <2>5 DEF ColInv
<1>3. ASSUME NEW v \in {1, 2}, LeaveOrUpgrade(v) PROVE ColInv'
  <2>1. v \in colVersion..2 /\ colVersion' = v /\ loaded' = FALSE /\ UNCHANGED <<visibleCols, knownCols, choice>>
    BY <1>3 DEF LeaveOrUpgrade
  <2>2. Chosen' = Chosen /\ KnownNow' = KnownNow
    BY <2>1 DEF Chosen, KnownNow
  <2>3. ColDefs(colVersion) \in SUBSET ColDefs(v)
    <3>1. v = 1 => colVersion = 1
      BY <1>0, <2>1
    <3> QED BY <1>0, <3>1, ColNames
  <2>4. \A c \in Chosen : /\ visibleCols # NoCols /\ c \in ColDefs(v) /\ c \in KnownNow
                          /\ choice[c] = "off" => c \notin visibleCols
                          /\ choice[c] = "on" => c \in visibleCols
    BY <2>3 DEF ColInv
  <2> QED BY <1>0, <2>1, <2>2, <2>4 DEF ColInv
<1>4. CASE UNCHANGED colVars
  BY <1>4 DEF colVars, ColInv, Chosen, KnownNow
<1> QED BY <1>1, <1>2, <1>3, <1>4 DEF ColNext

\* The choices are what is shown.
LEMMA ColAgrees == ColInv => ChoicesSurvive
<1> SUFFICES ASSUME ColInv, NEW c \in ColDefs(colVersion)
             PROVE  (choice[c] = "off" => c \notin visibleCols) /\ (choice[c] = "on" => c \in visibleCols)
  BY DEF ChoicesSurvive
<1>1. c \in ColDefs(2)
  BY ColNames DEF ColInv
<1> QED BY <1>1 DEF ColInv, Chosen

------------------------------------------------------------------------------
(* The detail view: what is under way for an element is of its packet.      *)
ElsMade == 1..nsel
DetailInv ==
    /\ nsel \in Nat /\ nsel <= MaxSel /\ surface \in Surfaces
    /\ box = [s \in Surfaces |-> box[s]] /\ drawn = [e \in 1..MaxSel |-> drawn[e]] /\ elPkt = [e \in 1..MaxSel |-> elPkt[e]]
    /\ \A a \in dAsks : a.el \in ElsMade /\ a.s \in Surfaces /\ a.p = elPkt[a.el]
    /\ \A d \in draws : d.el \in ElsMade /\ d.p = elPkt[d.el]
    /\ \A e \in 1..MaxSel : drawn[e] # NoObs => e \in ElsMade /\ drawn[e] \in ObsOf(elPkt[e])
    /\ NoOrphanLoading
    /\ ~turned => covering \in SUBSET ({surface} \ {"side"})
    /\ NothingOverRoute

\* Nothing is selected, drawn or under way at first.
LEMMA DetailStarts == DetailInit => DetailInv
<1> SUFFICES ASSUME DetailInit PROVE DetailInv
  OBVIOUS
<1>1. /\ nsel = 0 /\ surface \in Surfaces /\ dAsks = {} /\ draws = {} /\ covering = {} /\ onMap = FALSE
      /\ box = [s \in Surfaces |-> Notice("empty")] /\ drawn = [e \in 1..MaxSel |-> NoObs] /\ elPkt = [e \in 1..MaxSel |-> NoPkt]
  BY DEF DetailInit
<1>2. Notice("empty") # Notice("loading")
  BY DEF Notice
<1>3. NoOrphanLoading
  BY <1>1, <1>2 DEF NoOrphanLoading
<1> QED BY <1>1, <1>3, PktDetailAssumption DEF DetailInv, NothingOverRoute

\* A selection makes an element nothing was under way for.
LEMMA SelectHolds == ASSUME DetailInv, NEW p, NEW o, selectPacket(p, o) PROVE DetailInv'
<1> DEFINE m == nsel + 1
           ask == [el |-> m, p |-> p, s |-> surface]
<1>1. /\ nsel < MaxSel /\ nsel' = m /\ ~onMap /\ box' = [box EXCEPT ![surface] = Notice("loading")]
      /\ dAsks' = dAsks \union {ask} /\ elPkt' = [elPkt EXCEPT ![m] = p]
      /\ covering' = (IF surface = "side" THEN covering ELSE covering \union {surface})
      /\ UNCHANGED <<surface, drawn, draws, onMap, turned>>
  BY DEF selectPacket, DAct
<1>2. /\ nsel \in Nat /\ surface \in Surfaces /\ MaxSel \in Nat
      /\ box = [s \in Surfaces |-> box[s]] /\ drawn = [e \in 1..MaxSel |-> drawn[e]] /\ elPkt = [e \in 1..MaxSel |-> elPkt[e]]
  BY PktDetailAssumption DEF DetailInv
<1>3. m \in 1..MaxSel /\ m \notin ElsMade /\ ElsMade' = ElsMade \union {m} /\ nsel' \in Nat /\ nsel' <= MaxSel
  BY <1>1, <1>2 DEF ElsMade
<1>4. ask.el = m /\ ask.p = p /\ ask.s = surface
  OBVIOUS
<1> HIDE DEF m, ask
<1>5. elPkt'[m] = p /\ \A e \in ElsMade : elPkt'[e] = elPkt[e]
  BY <1>1, <1>2, <1>3
<1>6. /\ box' = [s \in Surfaces |-> box'[s]] /\ elPkt' = [e \in 1..MaxSel |-> elPkt'[e]]
      /\ \A s \in Surfaces : box'[s] = Notice("loading") => s = surface \/ box[s] = Notice("loading")
  BY <1>1, <1>2
<1>7. \A a \in dAsks' : a.el \in ElsMade' /\ a.s \in Surfaces /\ a.p = elPkt'[a.el]
  BY <1>1, <1>2, <1>3, <1>4, <1>5 DEF DetailInv
<1>8. \A d \in draws' : d.el \in ElsMade' /\ d.p = elPkt'[d.el]
  BY <1>1, <1>3, <1>5 DEF DetailInv
<1>9. \A e \in 1..MaxSel : drawn'[e] # NoObs => e \in ElsMade' /\ drawn'[e] \in ObsOf(elPkt'[e])
  BY <1>1, <1>3, <1>5 DEF DetailInv
<1>10. NoOrphanLoading'
  <2> SUFFICES ASSUME NEW s \in Surfaces, box'[s] = Notice("loading") PROVE \E a \in dAsks' : a.s = s
    BY DEF NoOrphanLoading
  <2>1. s = surface \/ \E a \in dAsks : a.s = s
    BY <1>6 DEF DetailInv, NoOrphanLoading
  <2> QED BY <1>1, <1>4, <2>1
<1>11. ~turned' => covering' \in SUBSET ({surface'} \ {"side"})
  BY <1>1 DEF DetailInv
<1>12. NothingOverRoute'
  BY <1>1 DEF NothingOverRoute
<1> QED BY <1>1, <1>2, <1>3, <1>6, <1>7, <1>8, <1>9, <1>10, <1>11, <1>12 DEF DetailInv

\* What leaves the requests, elements and surfaces alone keeps DetailInv when
\* what covers the page stays within bounds.
LEMMA CoverHolds ==
  ASSUME DetailInv, nsel' \in {nsel, nsel + 1}, nsel' <= MaxSel, UNCHANGED <<box, drawn, dAsks, draws, elPkt>>, surface' \in Surfaces,
         ~turned' => covering' \in SUBSET ({surface'} \ {"side"}), NothingOverRoute'
  PROVE  DetailInv'
<1>1. nsel \in Nat /\ ElsMade \in SUBSET ElsMade' /\ nsel' \in Nat
  BY DEF DetailInv, ElsMade
<1>2. NoOrphanLoading'
  BY DEF DetailInv, NoOrphanLoading
<1>3. \A a \in dAsks : a.el \in ElsMade' /\ a.s \in Surfaces /\ a.p = elPkt[a.el]
  BY <1>1 DEF DetailInv
<1>4. \A d \in draws : d.el \in ElsMade' /\ d.p = elPkt[d.el]
  BY <1>1 DEF DetailInv
<1>5. \A e \in 1..MaxSel : drawn[e] # NoObs => e \in ElsMade' /\ drawn[e] \in ObsOf(elPkt[e])
  BY <1>1 DEF DetailInv
<1> QED BY <1>1, <1>2, <1>3, <1>4, <1>5 DEF DetailInv

\* Closing a surface uncovers the page.
LEMMA CloseHolds ==
  ASSUME DetailInv, DAct, UNCHANGED <<surface, drawn, dAsks, draws, onMap, turned, elPkt, box>>, covering' \in SUBSET covering
  PROVE  DetailInv'
<1>1. nsel' \in {nsel, nsel + 1} /\ nsel' <= MaxSel /\ ~onMap'
  BY PktDetailAssumption DEF DetailInv, DAct
<1>2. NothingOverRoute'
  BY <1>1 DEF NothingOverRoute
<1>3. surface' \in Surfaces /\ (~turned' => covering' \in SUBSET ({surface'} \ {"side"}))
  BY DEF DetailInv
<1> QED BY <1>1, <1>2, <1>3, CoverHolds

\* An answer puts its element where the request was for, an error a notice.
LEMMA ArrivesHolds ==
  ASSUME DetailInv, NEW a \in dAsks, detailAnswers(a) \/ detailFails(a)
  PROVE  DetailInv'
<1> DEFINE new == [el |-> a.el, p |-> a.p, obs |-> selObs]
<1>1. /\ dAsks' = dAsks \ {a} /\ UNCHANGED <<surface, drawn, covering, onMap, turned, elPkt, nsel>>
      /\ draws' \in {draws, draws \union {new}}
      /\ \E x : x # Notice("loading") /\ box' = [box EXCEPT ![a.s] = x]
  <2>1. Element(a.el) # Notice("loading") /\ Notice("error") # Notice("loading")
    <3>1. Element(a.el).notice = "" /\ Notice("loading").notice = "loading" /\ Notice("error").notice = "error"
      BY DEF Element, Notice
    <3> QED BY <3>1
  <2>2. CASE detailAnswers(a)
    BY <2>1, <2>2 DEF detailAnswers
  <2>3. CASE detailFails(a)
    BY <2>1, <2>3 DEF detailFails
  <2> QED BY <2>2, <2>3
<1>2. /\ a.el \in ElsMade /\ a.s \in Surfaces /\ a.p = elPkt[a.el]
      /\ box = [s \in Surfaces |-> box[s]]
  BY DEF DetailInv
<1>3. new.el = a.el /\ new.p = a.p
  OBVIOUS
<1> HIDE DEF new
<1>4. \A d \in draws' : d.el \in ElsMade /\ d.p = elPkt[d.el]
  BY <1>1, <1>2, <1>3 DEF DetailInv
<1>5. \A b \in dAsks' : b.el \in ElsMade /\ b.s \in Surfaces /\ b.p = elPkt[b.el]
  BY <1>1 DEF DetailInv
<1>6. box' = [s \in Surfaces |-> box'[s]] /\ box'[a.s] # Notice("loading") /\ \A s \in Surfaces : s # a.s => box'[s] = box[s]
  BY <1>1, <1>2
<1>7. NoOrphanLoading'
  <2> SUFFICES ASSUME NEW s \in Surfaces, box'[s] = Notice("loading") PROVE \E b \in dAsks' : b.s = s
    BY DEF NoOrphanLoading
  <2>1. s # a.s /\ box[s] = Notice("loading")
    BY <1>6
  <2>2. PICK b \in dAsks : b.s = s
    BY <2>1 DEF DetailInv, NoOrphanLoading
  <2> QED BY <1>1, <2>1, <2>2
<1>8. NothingOverRoute' /\ (~turned' => covering' \in SUBSET ({surface'} \ {"side"}))
  BY <1>1 DEF DetailInv, NothingOverRoute
<1>9. \A e \in 1..MaxSel : drawn[e] # NoObs => e \in ElsMade /\ drawn[e] \in ObsOf(elPkt[e])
  BY DEF DetailInv
<1>10. ElsMade' = ElsMade
  BY <1>1 DEF ElsMade
<1>11. /\ nsel \in Nat /\ nsel <= MaxSel /\ surface \in Surfaces
       /\ drawn = [e \in 1..MaxSel |-> drawn[e]] /\ elPkt = [e \in 1..MaxSel |-> elPkt[e]]
  BY DEF DetailInv
<1> QED BY <1>1, <1>4, <1>5, <1>6, <1>7, <1>8, <1>9, <1>10, <1>11 DEF DetailInv

\* What is drawn is an observation of the packet at hand, whichever the
\* selection has become.
LEMMA DrawHolds == ASSUME DetailInv, NEW d \in draws, renderDetail(d) PROVE DetailInv'
<1> DEFINE o == currentObs(d.p, IF d.obs = NoObs THEN selObs ELSE d.obs)
<1>1. /\ draws' = draws \ {d} /\ drawn' = [drawn EXCEPT ![d.el] = o]
      /\ UNCHANGED <<surface, box, dAsks, covering, onMap, turned, elPkt, nsel>>
  BY DEF renderDetail
<1>2. o \in ObsOf(d.p)
  BY DEF currentObs, ObsOf
<1> HIDE DEF o
<1>3. d.el \in ElsMade /\ d.p = elPkt[d.el] /\ drawn = [e \in 1..MaxSel |-> drawn[e]]
  BY DEF DetailInv
<1>4. drawn' = [e \in 1..MaxSel |-> drawn'[e]] /\ \A e \in 1..MaxSel : drawn'[e] = (IF e = d.el THEN o ELSE drawn[e])
  BY <1>1, <1>3
<1>5. \A e \in 1..MaxSel : drawn'[e] # NoObs => e \in ElsMade /\ drawn'[e] \in ObsOf(elPkt[e])
  BY <1>2, <1>3, <1>4 DEF DetailInv
<1>6. NoOrphanLoading' /\ NothingOverRoute' /\ ElsMade' = ElsMade
  BY <1>1 DEF DetailInv, NoOrphanLoading, NothingOverRoute, ElsMade
<1>7. \A b \in draws' : b.el \in ElsMade /\ b.p = elPkt[b.el]
  BY <1>1 DEF DetailInv
<1> QED BY <1>1, <1>4, <1>5, <1>6, <1>7 DEF DetailInv

\* A click on an observation draws the same packet again.
LEMMA RowClickHolds == ASSUME DetailInv, NEW s \in Surfaces, NEW i \in 1..2, detailObsRowClick(s, i) PROVE DetailInv'
<1>1. PICK e \in Showing(s) : /\ selObs' = <<drawn[e][1], i>>
                              /\ draws' = draws \union {[el |-> e, p |-> drawn[e][1], obs |-> selObs']}
  BY DEF detailObsRowClick
<1>2. DAct /\ UNCHANGED <<surface, box, drawn, dAsks, covering, onMap, turned, elPkt>>
  BY DEF detailObsRowClick
<1> DEFINE new == [el |-> e, p |-> drawn[e][1], obs |-> selObs']
<1>3. e \in 1..MaxSel /\ drawn[e] # NoObs
  BY DEF Showing
<1>4. e \in ElsMade /\ drawn[e] \in ObsOf(elPkt[e])
  BY <1>3 DEF DetailInv
<1>5. drawn[e][1] = elPkt[e]
  BY <1>4 DEF ObsOf
<1>6. draws' = draws \union {new} /\ new.el = e /\ new.p = elPkt[e]
  BY <1>1, <1>5
<1> HIDE DEF new
<1>7. nsel' \in {nsel, nsel + 1} /\ nsel' <= MaxSel /\ ~onMap' /\ nsel' \in Nat
  BY <1>2, PktDetailAssumption DEF DetailInv, DAct
<1>8. ElsMade \in SUBSET ElsMade'
  BY <1>7 DEF DetailInv, ElsMade
<1>9. \A d \in draws' : d.el \in ElsMade' /\ d.p = elPkt'[d.el]
  BY <1>2, <1>4, <1>6, <1>8 DEF DetailInv
<1>10. \A a \in dAsks' : a.el \in ElsMade' /\ a.s \in Surfaces /\ a.p = elPkt'[a.el]
  BY <1>2, <1>8 DEF DetailInv
<1>11. \A k \in 1..MaxSel : drawn'[k] # NoObs => k \in ElsMade' /\ drawn'[k] \in ObsOf(elPkt'[k])
  BY <1>2, <1>8 DEF DetailInv
<1>12. NoOrphanLoading' /\ NothingOverRoute' /\ (~turned' => covering' \in SUBSET ({surface'} \ {"side"}))
  BY <1>2, <1>7 DEF DetailInv, NoOrphanLoading, NothingOverRoute
<1>13. /\ surface \in Surfaces /\ box = [k \in Surfaces |-> box[k]]
       /\ drawn = [k \in 1..MaxSel |-> drawn[k]] /\ elPkt = [k \in 1..MaxSel |-> elPkt[k]]
  BY DEF DetailInv
<1> QED BY <1>2, <1>7, <1>9, <1>10, <1>11, <1>12, <1>13 DEF DetailInv

\* Closing the side panel leaves a notice in it.
LEMMA SideHolds == ASSUME DetailInv, closeDetailPanel PROVE DetailInv'
<1>1. /\ DAct /\ box' = [box EXCEPT !["side"] = Notice("empty")]
      /\ UNCHANGED <<surface, drawn, dAsks, draws, covering, onMap, turned, elPkt>>
  BY DEF closeDetailPanel
<1>2. Notice("empty") # Notice("loading")
  BY DEF Notice
<1>3. box' = [s \in Surfaces |-> box'[s]] /\ \A s \in Surfaces : box'[s] = Notice("loading") => box[s] = Notice("loading")
  BY <1>1, <1>2 DEF DetailInv
<1>4. nsel' \in {nsel, nsel + 1} /\ nsel' <= MaxSel /\ ~onMap' /\ nsel' \in Nat
  BY <1>1, PktDetailAssumption DEF DetailInv, DAct
<1>5. ElsMade \in SUBSET ElsMade'
  BY <1>4 DEF DetailInv, ElsMade
<1>6. NoOrphanLoading'
  BY <1>1, <1>3 DEF DetailInv, NoOrphanLoading
<1>7. \A a \in dAsks' : a.el \in ElsMade' /\ a.s \in Surfaces /\ a.p = elPkt'[a.el]
  BY <1>1, <1>5 DEF DetailInv
<1>8. \A d \in draws' : d.el \in ElsMade' /\ d.p = elPkt'[d.el]
  BY <1>1, <1>5 DEF DetailInv
<1>9. \A e \in 1..MaxSel : drawn'[e] # NoObs => e \in ElsMade' /\ drawn'[e] \in ObsOf(elPkt'[e])
  BY <1>1, <1>5 DEF DetailInv
<1>10. NothingOverRoute' /\ (~turned' => covering' \in SUBSET ({surface'} \ {"side"}))
  BY <1>1, <1>4 DEF DetailInv, NothingOverRoute
<1>11. surface \in Surfaces /\ drawn = [e \in 1..MaxSel |-> drawn[e]] /\ elPkt = [e \in 1..MaxSel |-> elPkt[e]]
  BY DEF DetailInv
<1> QED BY <1>1, <1>3, <1>4, <1>6, <1>7, <1>8, <1>9, <1>10, <1>11 DEF DetailInv

------------------------------------------------------------------------------
\* A turn or the route only changes what covers the page.
LEMMA TurnHolds == ASSUME DetailInv, NEW s \in Surfaces, Rotate(s) PROVE DetailInv'
<1>1. /\ DAct /\ surface' = s /\ turned' = (turned \/ covering # {}) /\ UNCHANGED <<box, drawn, dAsks, draws, covering, onMap, elPkt>>
  BY DEF Rotate
<1>2. nsel' \in {nsel, nsel + 1} /\ nsel' <= MaxSel /\ ~onMap'
  BY <1>1, PktDetailAssumption DEF DetailInv, DAct
<1>3. NothingOverRoute' /\ (~turned' => covering' \in SUBSET ({surface'} \ {"side"}))
  BY <1>1, <1>2 DEF NothingOverRoute
<1> QED BY <1>1, <1>2, <1>3, CoverHolds

\* The way to the map closes whatever covers the page.
LEMMA RouteHolds == ASSUME DetailInv, NEW s \in Surfaces, routeBtn(s) PROVE DetailInv'
<1>1. /\ DAct /\ covering' = covering \ (IF surface = "sheet" THEN {"slide", "sheet"} ELSE {"slide"})
      /\ UNCHANGED <<surface, box, drawn, dAsks, draws, turned, elPkt>>
  BY DEF routeBtn
<1>2. nsel' \in {nsel, nsel + 1} /\ nsel' <= MaxSel /\ surface' \in Surfaces
  BY <1>1, PktDetailAssumption DEF DetailInv, DAct
<1>3. ~turned' => covering' = {}
  BY <1>1 DEF DetailInv, Surfaces
<1>4. NothingOverRoute'
  BY <1>3 DEF NothingOverRoute
<1>5. ~turned' => covering' \in SUBSET ({surface'} \ {"side"})
  BY <1>3
<1> QED BY <1>1, <1>2, <1>4, <1>5, CoverHolds

\* Every step of the detail view keeps what is under way of its packet.
LEMMA DetailStepHolds == DetailInv /\ [DetailNext]_detailVars => DetailInv'
<1> SUFFICES ASSUME DetailInv, [DetailNext]_detailVars PROVE DetailInv'
  OBVIOUS
<1>1. ASSUME NEW p, NEW o, selectPacket(p, o) PROVE DetailInv'
  BY <1>1, SelectHolds
<1>2. ASSUME NEW a \in dAsks, detailAnswers(a) \/ detailFails(a) PROVE DetailInv'
  BY <1>2, ArrivesHolds
<1>3. ASSUME NEW d \in draws, renderDetail(d) PROVE DetailInv'
  BY <1>3, DrawHolds
<1>4. ASSUME NEW s \in Surfaces, NEW i \in 1..2, detailObsRowClick(s, i) PROVE DetailInv'
  BY <1>4, RowClickHolds
<1>5. CASE closeDetailPanel
  BY <1>5, SideHolds
<1>6. CASE slideOnClose
  <2>1. DAct /\ UNCHANGED <<surface, drawn, dAsks, draws, onMap, turned, elPkt, box>> /\ covering' \in SUBSET covering
    BY <1>6 DEF slideOnClose
  <2> QED BY <2>1, CloseHolds
<1>7. CASE mobileSheetClose
  <2>1. DAct /\ UNCHANGED <<surface, drawn, dAsks, draws, onMap, turned, elPkt, box>> /\ covering' \in SUBSET covering
    BY <1>7 DEF mobileSheetClose
  <2> QED BY <2>1, CloseHolds
<1>8. ASSUME NEW s \in Surfaces, Rotate(s) PROVE DetailInv'
  BY <1>8, TurnHolds
<1>9. ASSUME NEW s \in Surfaces, routeBtn(s) PROVE DetailInv'
  BY <1>9, RouteHolds
<1>10. CASE UNCHANGED detailVars
  BY <1>10 DEF detailVars, DetailInv, ElsMade, NoOrphanLoading, NothingOverRoute
<1> QED BY <1>1, <1>2, <1>3, <1>4, <1>5, <1>6, <1>7, <1>8, <1>9, <1>10 DEF DetailNext

\* The three claims about the detail view are parts of the invariant.
LEMMA DetailAgrees == DetailInv => ShownIsOfPacket /\ NoOrphanLoading /\ NothingOverRoute
  BY DEF DetailInv, ShownIsOfPacket

------------------------------------------------------------------------------
\* Nothing is fetched or sorted yet.
LEMMA GroupStarts == GroupInit => ChildrenInOrder
  BY DEF GroupInit, ChildrenInOrder

\* The children of every group are in one order or not there.
LEMMA AllInOrder ==
  ASSUME NEW ks, NEW m, gMode' = m, gKids' = Resorted(ks, m)
  PROVE  ChildrenInOrder'
<1>1. \A h \in GHashes : gKids'[h] \in {"none", gMode'}
  BY DEF Resorted
<1> QED BY <1>1 DEF ChildrenInOrder

\* A request of the menu is taken away only when all children are sorted.
LEMMA GroupStepHolds == ChildrenInOrder /\ [GroupNext]_groupVars => ChildrenInOrder'
<1> SUFFICES ASSUME ChildrenInOrder, [GroupNext]_groupVars PROVE ChildrenInOrder'
  OBVIOUS
<1>1. ASSUME NEW m \in SortModes, obsSortChange(m) PROVE ChildrenInOrder'
  <2>1. CASE gKids' = Resorted(gKids, m)
    BY <1>1, <2>1, AllInOrder DEF obsSortChange
  <2>2. CASE ~(gKids' = Resorted(gKids, m))
    <3> DEFINE toFetch == {h \in GHashes : gKids[h] = "none"}
               new == [n |-> ngroup, kind |-> "sort", hs |-> toFetch, gen |-> gGen]
    <3>1. new \in gAsks' /\ new.kind = "sort"
      BY <1>1, <2>2 DEF obsSortChange, GAsk
    <3> QED BY <3>1 DEF ChildrenInOrder
  <2> QED BY <2>1, <2>2
<1>2. ASSUME NEW h \in GHashes, pktToggleGroup(h) PROVE ChildrenInOrder'
  <2>1. gMode' = gMode /\ gKids' = gKids /\ gAsks \in SUBSET gAsks'
    BY <1>2 DEF pktToggleGroup, GAsk
  <2> QED BY <2>1 DEF ChildrenInOrder
<1>3. CASE loadReplacesRows
  <2>1. \A h \in GHashes : gKids'[h] = "none"
    BY <1>3 DEF loadReplacesRows
  <2> QED BY <2>1 DEF ChildrenInOrder
<1>4. ASSUME NEW a \in gAsks, obsSortAnswers(a) PROVE ChildrenInOrder'
  BY <1>4, AllInOrder DEF obsSortAnswers
<1>5. ASSUME NEW a \in gAsks, obsSortFails(a) PROVE ChildrenInOrder'
  BY <1>5, AllInOrder DEF obsSortFails
<1>6. ASSUME NEW a \in gAsks, a.kind # "sort", gAsks' = gAsks \ {a}, gMode' = gMode,
             NEW S, gKids' = [h \in GHashes |-> IF h \in S THEN gMode ELSE gKids[h]]
      PROVE  ChildrenInOrder'
  <2> SUFFICES ASSUME \A b \in gAsks' : b.kind # "sort", NEW h \in GHashes PROVE gKids'[h] \in {"none", gMode'}
    BY DEF ChildrenInOrder
  <2>1. \A b \in gAsks : b.kind # "sort"
    BY <1>6
  <2>2. gKids[h] \in {"none", gMode}
    BY <2>1 DEF ChildrenInOrder
  <2> QED BY <1>6, <2>2
<1>7. ASSUME NEW a \in gAsks, toggleAnswers(a) PROVE ChildrenInOrder'
  BY <1>6, <1>7 DEF toggleAnswers
<1>8. ASSUME NEW a \in gAsks, NEW ok, restoreExpanded(a, ok) PROVE ChildrenInOrder'
  <2> DEFINE S == {h \in ok : a.gen = gGen}
  <2>1. gKids' = [h \in GHashes |-> IF h \in S THEN gMode ELSE gKids[h]] /\ a.kind # "sort" /\ gAsks' = gAsks \ {a} /\ gMode' = gMode
    BY <1>8 DEF restoreExpanded
  <2> HIDE DEF S
  <2> QED BY <1>6, <2>1
<1>9. CASE UNCHANGED groupVars
  BY <1>9 DEF groupVars, ChildrenInOrder
<1> QED BY <1>1, <1>2, <1>3, <1>4, <1>5, <1>7, <1>8, <1>9 DEF GroupNext

------------------------------------------------------------------------------
\* Observers have ranks of their own.
LEMMA RanksDiffer == /\ ObsRank \in [Obs -> 1..Cardinality(Obs)] /\ Cardinality(Obs) \in Nat
                     /\ \A o, p \in Obs : ObsRank[o] = ObsRank[p] => o = p
<1> DEFINE n == Cardinality(Obs)
           Good(rank) == \A o, p \in Obs : rank[o] = rank[p] => o = p
<1>1. IsFiniteSet(Obs)
  BY PktFiltersAssumption
<1>2. n \in Nat
  BY <1>1, FS_CardinalityType
<1>3. ExistsBijection(1..n, Obs)
  BY <1>1, FS_CardinalityType
<1>4. ExistsBijection(Obs, 1..n)
  BY ONLY <1>3, Fun_ExistsBijSymmetric
<1>5. PICK f : f \in Bijection(Obs, 1..n)
  BY <1>4 DEF ExistsBijection
<1>6. f \in [Obs -> 1..n] /\ Good(f)
  BY <1>5 DEF Bijection, Injection, IsInjective
<1> HIDE DEF n, Good
<1>7. ObsRank = CHOOSE rank \in [Obs -> 1..n] : Good(rank)
  BY DEF ObsRank, n, Good
<1>8. ObsRank \in [Obs -> 1..n] /\ Good(ObsRank)
  BY <1>6, <1>7
<1> QED BY <1>2, <1>8 DEF n, Good

\* The least member of a set of numbers.
LEMMA LeastOfNat == ASSUME NEW S \in SUBSET Nat, S # {} PROVE Min(S) \in S /\ \A x \in S : Min(S) <= x
<1>1. PICK m \in S : \A x \in S : m <= x
  BY LeastNumber
<1> QED BY <1>1 DEF Min

\* L orders by three keys, the first a function of the second.
ByThree(L, ps, e, r, u) ==
    /\ e \in [ps -> Int] /\ r \in [ps -> Int] /\ u \in [ps -> Int]
    /\ \A i, j \in ps : r[i] = r[j] => e[i] = e[j]
    /\ \A i, j \in ps : <<i, j>> \in L <=> e[i] < e[j] \/ (e[i] = e[j] /\ r[i] < r[j]) \/ (r[i] = r[j] /\ u[i] < u[j])

\* Three such keys order positions.
LEMMA ThreeKeys ==
  ASSUME NEW ps, NEW e, NEW r, NEW u, NEW L, ByThree(L, ps, e, r, u)
  PROVE  OrdersByKey(L, ps)
<1>0. /\ \A i \in ps : e[i] \in Int /\ r[i] \in Int /\ u[i] \in Int
      /\ \A i, j \in ps : r[i] = r[j] => e[i] = e[j]
      /\ \A i, j \in ps : <<i, j>> \in L <=> e[i] < e[j] \/ (e[i] = e[j] /\ r[i] < r[j]) \/ (r[i] = r[j] /\ u[i] < u[j])
  BY DEF ByThree
<1>1. \A p \in ps : <<p, p>> \notin L
  BY <1>0
<1>2. ASSUME NEW p \in ps, NEW q \in ps, NEW k \in ps, <<p, q>> \in L, <<q, k>> \in L PROVE <<p, k>> \in L
  BY <1>0, <1>2
<1>3. ASSUME NEW p \in ps, NEW q \in ps, NEW k \in ps, <<p, k>> \in L PROVE <<p, q>> \in L \/ <<q, k>> \in L
  BY <1>0, <1>3
<1> QED BY <1>1, <1>2, <1>3 DEF OrdersByKey

------------------------------------------------------------------------------
\* What ObserversTogether says of an order of the children.
TogetherIn(cs) ==
    \A i, j \in 1..Len(cs) : i < j =>
        /\ earliest(cs, cs[i].obs) <= earliest(cs, cs[j].obs)
        /\ cs[i].obs = cs[j].obs => cs[i].t <= cs[j].t /\ \A k \in i..j : cs[k].obs = cs[i].obs
Timely == [obs : Obs, t : Nat, hops : Nat]

\* The times and the first time of an observer that is there are numbers.
LEMMA EarliestIs ==
  ASSUME NEW cs \in Seq(Timely), NEW i \in 1..Len(cs)
  PROVE  earliest(cs, cs[i].obs) \in Nat /\ cs[i].t \in Nat /\ cs[i].obs \in Obs
<1> DEFINE S == {cs[k].t : k \in {j \in 1..Len(cs) : cs[j].obs = cs[i].obs}}
<1>1. \A k \in 1..Len(cs) : cs[k] \in Timely
  OBVIOUS
<1>2. \A c \in Timely : c.t \in Nat /\ c.obs \in Obs
  BY DEF Timely
<1>3. S \in SUBSET Nat /\ S # {}
  BY <1>1, <1>2
<1>4. earliest(cs, cs[i].obs) = Min(S)
  BY DEF earliest
<1> HIDE DEF S
<1> QED BY <1>1, <1>2, <1>3, <1>4, LeastOfNat

\* ds is cs in another order: at i is what was at pos[i].
Rearranges(ds, cs, D, pos) ==
    /\ 1..Len(cs) = D /\ 1..Len(ds) = D
    /\ \A i \in D : pos[i] \in D /\ ds[i] = cs[pos[i]]
    /\ \A q \in D : \E i \in D : q = pos[i]

\* A list with the same members has the same first times.
LEMMA SameEarliest ==
  ASSUME NEW cs, NEW ds, NEW D, NEW pos, Rearranges(ds, cs, D, pos)
  PROVE  \A o : earliest(ds, o) = earliest(cs, o)
<1>0. /\ 1..Len(cs) = D /\ 1..Len(ds) = D
      /\ \A i \in D : pos[i] \in D /\ ds[i] = cs[pos[i]]
      /\ \A q \in D : \E i \in D : q = pos[i]
  BY DEF Rearranges
<1> TAKE o
<1> DEFINE S == {cs[k].t : k \in {j \in 1..Len(cs) : cs[j].obs = o}}
           T == {ds[k].t : k \in {j \in 1..Len(ds) : ds[j].obs = o}}
<1>1. S = T
  <2>1. ASSUME NEW k \in D, cs[k].obs = o PROVE cs[k].t \in T
    <3>1. PICK i \in D : k = pos[i]
      BY <1>0
    <3>2. ds[i].obs = o /\ ds[i].t = cs[k].t
      BY <1>0, <2>1, <3>1
    <3> QED BY <1>0, <3>2
  <2>2. ASSUME NEW k \in D, ds[k].obs = o PROVE ds[k].t \in S
    <3>1. ds[k] = cs[pos[k]] /\ pos[k] \in D
      BY <1>0
    <3>2. cs[pos[k]].obs = o /\ cs[pos[k]].t = ds[k].t /\ pos[k] \in 1..Len(cs)
      BY <1>0, <2>2, <3>1
    <3> QED BY <3>2
  <2>3. \A x \in S : x \in T
    BY <1>0, <2>1
  <2>4. \A x \in T : x \in S
    BY <1>0, <2>2
  <2> HIDE DEF S, T
  <2> QED BY <2>3, <2>4
<1> QED BY <1>1 DEF earliest

\* Sorting by observer brings the children of each together, the observer
\* that was first in front.
LEMMA ObserverSortWorks ==
  ASSUME NEW cs \in Seq(Timely), NEW ds, ds = Arranged(cs, Stably(DOMAIN cs, ChildOrder(cs, "observer")))
  PROVE  TogetherIn(ds)
<1> DEFINE D == DOMAIN cs
           L == ChildOrder(cs, "observer")
           R == Stably(D, L)
           e == [i \in D |-> earliest(cs, cs[i].obs)]
           r == [i \in D |-> ObsRank[cs[i].obs]]
           u == [i \in D |-> cs[i].t]
           pos == [i \in D |-> Placed(D, R, i)]
<1>1. D = 1..Len(cs) /\ Len(cs) \in Nat /\ D \in SUBSET Int
  OBVIOUS
<1>2. \A i \in D : earliest(cs, cs[i].obs) \in Nat /\ cs[i].t \in Nat /\ cs[i].obs \in Obs
  BY <1>1, EarliestIs
<1>3. e \in [D -> Int] /\ r \in [D -> Int] /\ u \in [D -> Int]
  BY <1>2, RanksDiffer
<1>4. \A i, j \in D : r[i] = r[j] <=> cs[i].obs = cs[j].obs
  BY <1>2, RanksDiffer
<1>5. \A i, j \in D : r[i] = r[j] => e[i] = e[j]
  BY <1>4
<1>6. \A i, j \in D : <<i, j>> \in L <=> childLess(cs, "observer", cs[i], cs[j])
  BY DEF ChildOrder
<1>7. \A i, j \in D : childLess(cs, "observer", cs[i], cs[j]) <=>
                        e[i] < e[j] \/ (e[i] = e[j] /\ r[i] < r[j]) \/ (r[i] = r[j] /\ u[i] < u[j])
  <2> TAKE i, j \in D
  <2>1. e[i] = earliest(cs, cs[i].obs) /\ e[j] = earliest(cs, cs[j].obs) /\ r[i] = ObsRank[cs[i].obs] /\ r[j] = ObsRank[cs[j].obs]
        /\ u[i] = cs[i].t /\ u[j] = cs[j].t /\ (r[i] = r[j] <=> cs[i].obs = cs[j].obs)
    BY <1>4
  <2> HIDE DEF e, r, u
  <2> QED BY <2>1 DEF childLess
<1>8. \A i, j \in D : <<i, j>> \in L <=> e[i] < e[j] \/ (e[i] = e[j] /\ r[i] < r[j]) \/ (r[i] = r[j] /\ u[i] < u[j])
  BY ONLY <1>6, <1>7
<1> HIDE DEF e, r, u, L, D
<1>22. ByThree(L, D, e, r, u)
  BY ONLY <1>3, <1>5, <1>8 DEF ByThree
<1>9. OrdersByKey(L, D)
  BY ONLY <1>22, ThreeKeys
<1>10. StrictlyOrders(R, D)
  BY ONLY <1>1, <1>9, StablyOrders
<1>11. ds = Arranged(cs, R)
  BY DEF D, L
<1>12. \A i, j \in D : <<i, j>> \in R => <<i, j>> \in L \/ <<j, i>> \notin L
  BY DEF Stably
<1> HIDE DEF R
<1>13. /\ Len(ds) = Len(cs)
       /\ \A i \in D : Placed(D, R, i) \in D /\ ds[i] = cs[Placed(D, R, i)]
       /\ \A i, j \in D : i < j => <<Placed(D, R, i), Placed(D, R, j)>> \in R
       /\ \A p \in D : \E i \in D : p = Placed(D, R, i)
  <2>1. StrictlyOrders(R, DOMAIN cs)
    BY <1>10 DEF D
  <2>2. /\ Len(Arranged(cs, R)) = Len(cs)
        /\ \A i \in DOMAIN cs : Placed(DOMAIN cs, R, i) \in DOMAIN cs /\ Arranged(cs, R)[i] = cs[Placed(DOMAIN cs, R, i)]
        /\ \A i, j \in DOMAIN cs : i < j => <<Placed(DOMAIN cs, R, i), Placed(DOMAIN cs, R, j)>> \in R
        /\ \A p \in DOMAIN cs : \E i \in DOMAIN cs : p = Placed(DOMAIN cs, R, i)
    BY <2>1, ArrangedIs
  <2> QED BY <1>11, <2>2 DEF D
<1>14. /\ pos \in [D -> D] /\ \A i \in D : ds[i] = cs[pos[i]]
       /\ \A i, j \in D : i < j => <<pos[i], pos[j]>> \in R
       /\ \A q \in D : \E i \in D : q = pos[i]
  BY <1>13
<1> HIDE DEF pos
<1>15. \A o : earliest(ds, o) = earliest(cs, o)
  <2>1. 1..Len(cs) = D /\ 1..Len(ds) = D
    BY <1>1, <1>13
  <2>2. Rearranges(ds, cs, D, pos)
    BY ONLY <1>14, <2>1 DEF Rearranges
  <2> QED BY ONLY <2>2, SameEarliest
<1>16. ASSUME NEW i \in D, NEW j \in D, i < j
       PROVE  e[pos[i]] < e[pos[j]] \/ (e[pos[i]] = e[pos[j]] /\ r[pos[i]] < r[pos[j]]) \/ (r[pos[i]] = r[pos[j]] /\ u[pos[i]] <= u[pos[j]])
  <2>1. pos[i] \in D /\ pos[j] \in D /\ (<<pos[i], pos[j]>> \in L \/ <<pos[j], pos[i]>> \notin L)
    BY ONLY <1>12, <1>14, <1>16
  <2>2. e[pos[i]] \in Int /\ e[pos[j]] \in Int /\ r[pos[i]] \in Int /\ r[pos[j]] \in Int /\ u[pos[i]] \in Int /\ u[pos[j]] \in Int
    BY ONLY <1>3, <2>1
  <2>3. CASE <<pos[i], pos[j]>> \in L
    <3>1. e[pos[i]] < e[pos[j]] \/ (e[pos[i]] = e[pos[j]] /\ r[pos[i]] < r[pos[j]]) \/ (r[pos[i]] = r[pos[j]] /\ u[pos[i]] < u[pos[j]])
      BY ONLY <1>8, <2>1, <2>3
    <3> QED BY ONLY <2>2, <3>1
  <2>4. CASE <<pos[j], pos[i]>> \notin L
    <3>1. ~(e[pos[j]] < e[pos[i]] \/ (e[pos[j]] = e[pos[i]] /\ r[pos[j]] < r[pos[i]]) \/ (r[pos[j]] = r[pos[i]] /\ u[pos[j]] < u[pos[i]]))
      BY ONLY <1>8, <2>1, <2>4
    <3> QED BY ONLY <2>2, <3>1
  <2> QED BY ONLY <2>1, <2>3, <2>4
<1>17. \A i \in D : /\ earliest(ds, ds[i].obs) = e[pos[i]] /\ ds[i].t = u[pos[i]] /\ pos[i] \in D
                    /\ e[pos[i]] \in Int /\ r[pos[i]] \in Int /\ u[pos[i]] \in Int
                    /\ \A j \in D : ds[i].obs = ds[j].obs <=> r[pos[i]] = r[pos[j]]
  <2> TAKE i \in D
  <2>1. ds[i] = cs[pos[i]] /\ pos[i] \in D
    BY <1>14
  <2>2. e[pos[i]] = earliest(cs, cs[pos[i]].obs) /\ u[pos[i]] = cs[pos[i]].t
    BY <2>1 DEF e, u
  <2>3. \A j \in D : ds[j] = cs[pos[j]] /\ pos[j] \in D
    BY <1>14
  <2>4. e[pos[i]] \in Int /\ r[pos[i]] \in Int /\ u[pos[i]] \in Int
    BY ONLY <1>3, <2>1
  <2>5. earliest(ds, ds[i].obs) = e[pos[i]] /\ ds[i].t = u[pos[i]]
    BY ONLY <1>15, <2>1, <2>2
  <2>6. \A j \in D : ds[i].obs = ds[j].obs <=> r[pos[i]] = r[pos[j]]
    <3> TAKE j \in D
    <3>1. ds[i] = cs[pos[i]] /\ ds[j] = cs[pos[j]] /\ pos[i] \in D /\ pos[j] \in D
      BY ONLY <2>1, <2>3
    <3> QED BY ONLY <1>4, <3>1
  <2> QED BY ONLY <2>1, <2>4, <2>5, <2>6
<1>21. 1..Len(ds) = D
  BY <1>1, <1>13
<1> SUFFICES ASSUME NEW i \in D, NEW j \in D, i < j
             PROVE  /\ earliest(ds, ds[i].obs) <= earliest(ds, ds[j].obs)
                    /\ ds[i].obs = ds[j].obs => ds[i].t <= ds[j].t /\ \A k \in i..j : ds[k].obs = ds[i].obs
  BY <1>21 DEF TogetherIn
<1>18. e[pos[i]] <= e[pos[j]] /\ (r[pos[i]] = r[pos[j]] => u[pos[i]] <= u[pos[j]])
  <2>1. pos[i] \in D /\ pos[j] \in D /\ e[pos[i]] \in Int /\ e[pos[j]] \in Int /\ r[pos[i]] \in Int /\ r[pos[j]] \in Int /\ u[pos[i]] \in Int /\ u[pos[j]] \in Int
    BY <1>17
  <2>2. e[pos[i]] < e[pos[j]] \/ (e[pos[i]] = e[pos[j]] /\ r[pos[i]] < r[pos[j]]) \/ (r[pos[i]] = r[pos[j]] /\ u[pos[i]] <= u[pos[j]])
    BY <1>16
  <2>3. r[pos[i]] = r[pos[j]] => e[pos[i]] = e[pos[j]]
    BY ONLY <1>5, <2>1
  <2> QED BY ONLY <2>1, <2>2, <2>3
<1>19. ASSUME r[pos[i]] = r[pos[j]], NEW k \in i..j PROVE r[pos[k]] = r[pos[i]]
  <2>1. k \in D /\ i <= k /\ k <= j /\ k \in Int
    BY <1>1
  <2>2. CASE k = i \/ k = j
    BY <1>19, <2>2
  <2>3. CASE i < k /\ k < j
    <3>1. e[pos[i]] = e[pos[j]]
      <4>1. pos[i] \in D /\ pos[j] \in D
        BY <1>17
      <4> QED BY ONLY <1>5, <1>19, <4>1
    <3>2. \A m \in {i, j, k} : e[pos[m]] \in Int /\ r[pos[m]] \in Int /\ u[pos[m]] \in Int
      BY <1>17, <2>1
    <3>3. e[pos[i]] < e[pos[k]] \/ (e[pos[i]] = e[pos[k]] /\ r[pos[i]] < r[pos[k]]) \/ (r[pos[i]] = r[pos[k]] /\ u[pos[i]] <= u[pos[k]])
      BY <1>16, <2>1, <2>3
    <3>4. e[pos[k]] < e[pos[j]] \/ (e[pos[k]] = e[pos[j]] /\ r[pos[k]] < r[pos[j]]) \/ (r[pos[k]] = r[pos[j]] /\ u[pos[k]] <= u[pos[j]])
      BY <1>16, <2>1, <2>3
    <3>5. r[pos[i]] = r[pos[k]] \/ r[pos[k]] = r[pos[j]] \/ (e[pos[i]] <= e[pos[k]] /\ e[pos[k]] <= e[pos[j]])
      BY ONLY <3>2, <3>3, <3>4
    <3> QED BY ONLY <1>19, <3>1, <3>2, <3>3, <3>4, <3>5
  <2> QED BY <2>1, <2>2, <2>3
<1>20. \A k \in i..j : k \in D
  BY <1>1
<1> QED BY <1>17, <1>18, <1>19, <1>20

------------------------------------------------------------------------------
\* Any children, and then their order.
SortInv == ObserversTogether /\ (sortedYet \/ childs \in Seq(Timely))

\* Nothing is sorted at first.
LEMMA SortStarts == SortInit => SortInv
<1> SUFFICES ASSUME SortInit PROVE SortInv
  OBVIOUS
<1>1. PICK n \in 1..3 : childs \in [1..n -> Child]
  BY DEF SortInit
<1>2. \A c \in Child : c \in Timely
  <2> TAKE c \in Child
  <2>1. c = [obs |-> c.obs, t |-> c.t, hops |-> c.hops] /\ c.obs \in Obs /\ c.t \in 1..2 /\ c.hops \in 0..1
    BY DEF Child
  <2> QED BY <2>1 DEF Timely
<1> HIDE DEF Child, Timely
<1>3. childs \in [1..n -> Timely] /\ n \in Nat
  BY <1>1, <1>2
<1>4. childs \in Seq(Timely)
  BY ONLY <1>3
<1>5. sortedYet = FALSE
  BY DEF SortInit
<1> QED BY <1>4, <1>5 DEF SortInv, ObserversTogether

\* The sort leaves the children of each observer together.
LEMMA SortStepHolds == SortInv /\ [SortNext]_sortVars => SortInv'
<1> SUFFICES ASSUME SortInv, [SortNext]_sortVars PROVE SortInv'
  OBVIOUS
<1>1. CASE SortNext
  <2>1. /\ ~sortedYet /\ sortedYet' = TRUE /\ sortMode' = sortMode
        /\ childs' = Arranged(childs, Stably(DOMAIN childs, ChildOrder(childs, sortMode)))
    BY <1>1 DEF SortNext, sortGroupChildren
  <2>2. childs \in Seq(Timely)
    BY <2>1 DEF SortInv
  <2>3. sortMode = "observer" => TogetherIn(childs')
    BY <2>1, <2>2, ObserverSortWorks
  <2>4. ObserversTogether'
    BY <2>1, <2>3 DEF ObserversTogether, TogetherIn
  <2> QED BY <2>1, <2>4 DEF SortInv
<1>2. CASE UNCHANGED sortVars
  <2>1. childs' = childs /\ sortMode' = sortMode /\ sortedYet' = sortedYet
    BY <1>2 DEF sortVars
  <2>2. sortedYet /\ sortMode = "observer" => TogetherIn(childs)
    BY DEF SortInv, ObserversTogether, TogetherIn
  <2>3. sortedYet' /\ sortMode' = "observer" => TogetherIn(childs')
    BY ONLY <2>1, <2>2
  <2>4. ObserversTogether'
    BY <2>3 DEF ObserversTogether, TogetherIn
  <2> QED BY <2>1, <2>4 DEF SortInv
<1> QED BY <1>1, <1>2

------------------------------------------------------------------------------
\* Any rows, and then the empty ones last.
Rowed == [v : 0..2, t : 1..2]
TableInv == EmptiesLast /\ (tableSorted \/ (tableRows \in Seq(Rowed) /\ Len(tableRows) = 3 /\ sortDir \in {1, -1}))

\* Nothing is sorted at first.
LEMMA TableStarts == TableInit => TableInv
<1> SUFFICES ASSUME TableInit PROVE TableInv
  OBVIOUS
<1>1. tableRows \in [1..3 -> Rowed] /\ sortDir \in {1, -1} /\ tableSorted = FALSE
  BY DEF TableInit, Rowed
<1> HIDE DEF Rowed
<1>2. tableRows \in Seq(Rowed)
  <2> DEFINE n == 3
  <2>1. n \in Nat /\ tableRows \in [1..n -> Rowed]
    BY <1>1
  <2> HIDE DEF n
  <2> QED BY ONLY <2>1
<1>3. Len(tableRows) = 3
  <2>1. Len(tableRows) \in Nat /\ DOMAIN tableRows = 1..Len(tableRows)
    BY ONLY <1>2
  <2>2. DOMAIN tableRows = 1..3
    BY <1>1
  <2> DEFINE m == Len(tableRows)
  <2>3. m \in Nat /\ 1..m = 1..3
    BY <2>1, <2>2
  <2> HIDE DEF m
  <2>4. 3 \in 1..m /\ (4 \in 1..m <=> 4 \in 1..3)
    BY ONLY <2>3
  <2>5. m = 3
    BY ONLY <2>3, <2>4
  <2> QED BY <2>5 DEF m
<1> QED BY <1>1, <1>2, <1>3 DEF TableInv, EmptiesLast

\* Being empty, the column in its direction and the time order the rows.
LEMMA RowsOrdered ==
  ASSUME NEW rs \in Seq(Rowed), sortDir \in {1, -1}
  PROVE  OrdersByKey(RowOrder(rs), DOMAIN rs)
<1> DEFINE D == DOMAIN rs
           L == RowOrder(rs)
           e == [i \in D |-> IF rs[i].v = 0 THEN 1 ELSE 0]
           r == [i \in D |-> IF rs[i].v = 0 THEN 4 ELSE sortDir * rs[i].v]
           u == [i \in D |-> 0 - sortDir * rs[i].t]
<1>1. \A i \in D : rs[i].v \in 0..2 /\ rs[i].t \in 1..2
  <2>1. \A i \in D : rs[i] \in Rowed
    OBVIOUS
  <2>2. \A x \in Rowed : x.v \in 0..2 /\ x.t \in 1..2
    BY DEF Rowed
  <2> QED BY <2>1, <2>2
<1>2. ASSUME NEW i \in D PROVE e[i] \in Int /\ r[i] \in Int /\ u[i] \in Int
  <2>1. rs[i].v \in Int /\ rs[i].t \in Int /\ sortDir \in Int
    BY <1>1
  <2> QED BY <2>1
<1>3. e \in [D -> Int] /\ r \in [D -> Int] /\ u \in [D -> Int]
  <2>1. e = [i \in D |-> e[i]] /\ r = [i \in D |-> r[i]] /\ u = [i \in D |-> u[i]]
    OBVIOUS
  <2> HIDE DEF e, r, u
  <2> QED BY <1>2, <2>1
<1>4. ASSUME NEW i \in D, NEW j \in D
      PROVE  /\ r[i] = r[j] => e[i] = e[j]
             /\ rowLess(rs[i], rs[j]) <=> e[i] < e[j] \/ (e[i] = e[j] /\ r[i] < r[j]) \/ (r[i] = r[j] /\ u[i] < u[j])
  <2> DEFINE vi == rs[i].v
             vj == rs[j].v
             ti == rs[i].t
             tj == rs[j].t
  <2>1. vi \in 0..2 /\ vj \in 0..2 /\ ti \in 1..2 /\ tj \in 1..2
    BY <1>1
  <2>2. /\ e[i] = (IF vi = 0 THEN 1 ELSE 0) /\ r[i] = (IF vi = 0 THEN 4 ELSE sortDir * vi) /\ u[i] = 0 - sortDir * ti
        /\ e[j] = (IF vj = 0 THEN 1 ELSE 0) /\ r[j] = (IF vj = 0 THEN 4 ELSE sortDir * vj) /\ u[j] = 0 - sortDir * tj
    OBVIOUS
  <2>3. rowLess(rs[i], rs[j]) <=>
          \/ vi # 0 /\ vj = 0
          \/ (vi # 0 <=> vj # 0) /\ (sortDir * vi < sortDir * vj \/ (vi = vj /\ sortDir * ti > sortDir * tj))
    BY DEF rowLess
  <2> HIDE DEF vi, vj, ti, tj, e, r, u
  <2>4. CASE sortDir = 1
    <3>1. sortDir * vi = vi /\ sortDir * vj = vj /\ sortDir * ti = ti /\ sortDir * tj = tj
      BY ONLY <2>1, <2>4
    <3> QED BY ONLY <2>1, <2>2, <2>3, <3>1
  <2>5. CASE sortDir = -1
    <3>1. sortDir * vi = 0 - vi /\ sortDir * vj = 0 - vj /\ sortDir * ti = 0 - ti /\ sortDir * tj = 0 - tj
      BY ONLY <2>1, <2>5
    <3> QED BY ONLY <2>1, <2>2, <2>3, <3>1
  <2> QED BY <2>4, <2>5
<1>5. \A i, j \in D : <<i, j>> \in L <=> rowLess(rs[i], rs[j])
  BY DEF RowOrder
<1> HIDE DEF e, r, u, L, D
<1>6. \A i, j \in D : r[i] = r[j] => e[i] = e[j]
  BY <1>4
<1>7. \A i, j \in D : <<i, j>> \in L <=> e[i] < e[j] \/ (e[i] = e[j] /\ r[i] < r[j]) \/ (r[i] = r[j] /\ u[i] < u[j])
  BY <1>4, <1>5
<1>8. ByThree(L, D, e, r, u)
  BY ONLY <1>3, <1>6, <1>7 DEF ByThree
<1>9. OrdersByKey(L, D)
  BY ONLY <1>8, ThreeKeys
<1> QED BY <1>9 DEF D, L

\* The table's sort leaves the empty ones last.
LEMMA TableStepHolds == TableInv /\ [TableNext]_tableVars => TableInv'
<1> SUFFICES ASSUME TableInv, [TableNext]_tableVars PROVE TableInv'
  OBVIOUS
<1>1. CASE TableNext
  <2> DEFINE rs == tableRows
             L == RowOrder(tableRows)
             R == Stably(DOMAIN tableRows, L)
  <2>1. /\ ~tableSorted /\ tableSorted' = TRUE /\ sortDir' = sortDir /\ tableRows' = Arranged(tableRows, R)
        /\ tableRows \in Seq(Rowed) /\ Len(tableRows) = 3 /\ sortDir \in {1, -1}
    BY <1>1 DEF TableNext, sortPacketsArray, TableInv
  <2>2. DOMAIN tableRows = 1..3 /\ 1..3 \in SUBSET Int
    BY <2>1
  <2>3. OrdersByKey(L, 1..3)
    BY <2>1, <2>2, RowsOrdered
  <2>4. \A i, j \in 1..3 : tableRows[i].v # 0 /\ tableRows[j].v = 0 => <<i, j>> \in L
    BY <2>2 DEF RowOrder, rowLess
  <2>5. \A i, j \in 1..3 : <<i, j>> \in R => <<i, j>> \in L \/ <<j, i>> \notin L
    BY <2>2 DEF Stably
  <2> HIDE DEF L
  <2>6. StrictlyOrders(R, DOMAIN tableRows)
    BY <2>2, <2>3, StablyOrders
  <2> HIDE DEF R
  <2>7. /\ \A i \in DOMAIN tableRows : Placed(DOMAIN tableRows, R, i) \in DOMAIN tableRows
                                      /\ Arranged(tableRows, R)[i] = tableRows[Placed(DOMAIN tableRows, R, i)]
        /\ \A i, j \in DOMAIN tableRows : i < j => <<Placed(DOMAIN tableRows, R, i), Placed(DOMAIN tableRows, R, j)>> \in R
    BY <2>1, <2>6, ArrangedIs
  <2>8. ASSUME NEW i \in 1..3, NEW j \in 1..3, i < j, tableRows'[i].v = 0 PROVE tableRows'[j].v = 0
    <3> DEFINE p == Placed(DOMAIN tableRows, R, i)
               q == Placed(DOMAIN tableRows, R, j)
    <3>1. p \in 1..3 /\ q \in 1..3 /\ tableRows'[i] = tableRows[p] /\ tableRows'[j] = tableRows[q] /\ <<p, q>> \in R
      BY <2>1, <2>2, <2>7, <2>8
    <3> HIDE DEF p, q
    <3> SUFFICES ASSUME tableRows[q].v # 0 PROVE FALSE
      BY <3>1
    <3>2. <<q, p>> \in L
      BY <2>4, <2>8, <3>1
    <3>3. <<p, q>> \in L
      BY <2>5, <3>1, <3>2
    <3> QED BY <2>3, <3>1, <3>2, <3>3 DEF OrdersByKey
  <2> QED BY <2>1, <2>8 DEF TableInv, EmptiesLast
<1>2. CASE UNCHANGED tableVars
  BY <1>2 DEF tableVars, TableInv, EmptiesLast
<1> QED BY <1>1, <1>2

------------------------------------------------------------------------------
(* The bytes of a packet: where each field is, by its label.  A name is     *)
(* there only when nothing of unknown length comes before it.               *)
PlainName(r) == r.feat = 0 /\ (r.loc => PayloadStart(r) + 109 <= r.bytes)
Offset(r, l) ==
    CASE l = "Header" -> 0
      [] l = "Transport Codes" -> 1
      [] l = "Path Length" -> PathLenOffset(r)
      [] l = "Path" -> PathLenOffset(r) + 1
      [] l = "Payload" -> PayloadStart(r)
      [] l = "PubKey" -> PayloadStart(r)
      [] l = "Timestamp" -> PayloadStart(r) + 32
      [] l = "Signature" -> PayloadStart(r) + 36
      [] l = "Flags" -> PayloadStart(r) + 100
      [] l = "Latitude" -> PayloadStart(r) + 101
      [] l = "Longitude" -> PayloadStart(r) + 105
      [] l = "Name" -> PayloadStart(r) + 101 + (IF r.loc THEN 8 ELSE 0)
      [] OTHER -> 0

\* Ranges from byte a to before byte b, one after the other, each where its
\* label says.
Labels == {"Header", "Transport Codes", "Path Length", "Path", "Payload", "PubKey", "Timestamp", "Signature", "Flags",
           "Latitude", "Longitude", "Name"}
RangeRec == [from : Int, to : Int, label : Labels]
Lying(s, r, a, b) ==
    /\ s \in Seq(RangeRec)
    /\ \A i \in 1..Len(s) : /\ a <= s[i].from /\ s[i].from <= s[i].to /\ s[i].to < b
                            /\ i > 1 => s[i - 1].to < s[i].from
                            /\ (s[i].label = "Name" => PlainName(r)) => s[i].from = Offset(r, s[i].label)

\* No range lies anywhere.
LEMMA NoneLies == ASSUME NEW r, NEW a, NEW b PROVE Lying(<<>>, r, a, b)
  BY DEF Lying

\* A single range.
LEMMA OneLies ==
  ASSUME NEW r, NEW a \in Int, NEW b \in Int, NEW x \in Int, NEW y \in Int, NEW l \in Labels,
         a <= x, x <= y, y < b, (l = "Name" => PlainName(r)) => x = Offset(r, l)
  PROVE  Lying(ByteRange(x, y, l), r, a, b)
<1> DEFINE c == [from |-> x, to |-> y, label |-> l]
<1>1. c \in RangeRec /\ c.from = x /\ c.to = y /\ c.label = l
  BY DEF RangeRec
<1>2. ByteRange(x, y, l) = <<c>>
  BY DEF ByteRange
<1> HIDE DEF c
<1>3. <<c>> \in Seq(RangeRec) /\ Len(<<c>>) = 1 /\ <<c>>[1] = c
  BY <1>1
<1>4. \A i \in 1..Len(<<c>>) : i = 1
  BY <1>3
<1> QED BY <1>1, <1>2, <1>3, <1>4 DEF Lying

\* Ranges of a part lie in the whole.
LEMMA WiderLies ==
  ASSUME NEW s, NEW r, NEW a \in Int, NEW b \in Int, NEW c \in Int, NEW d \in Int, Lying(s, r, b, c), a <= b, c <= d
  PROVE  Lying(s, r, a, d)
<1>1. \A i \in 1..Len(s) : s[i].from \in Int /\ s[i].to \in Int
  <2>1. \A x \in RangeRec : x.from \in Int /\ x.to \in Int
    BY DEF RangeRec
  <2> QED BY <2>1 DEF Lying
<1> QED BY <1>1 DEF Lying

\* What lies before byte b and what lies from there on, put together.
LEMMA BothLie ==
  ASSUME NEW s, NEW z, NEW r, NEW a \in Int, NEW b \in Int, NEW c \in Int, Lying(s, r, a, b), Lying(z, r, b, c), a <= b, b <= c
  PROVE  Lying(s \o z, r, a, c)
<1> DEFINE w == s \o z
           m == Len(s)
           n == Len(z)
<1>1. s \in Seq(RangeRec) /\ z \in Seq(RangeRec)
  BY DEF Lying
<1> HIDE DEF RangeRec
<1>2. m \in Nat /\ n \in Nat /\ w \in Seq(RangeRec) /\ Len(w) = m + n
  BY <1>1
<1>3. /\ \A i \in 1..m : w[i] = s[i]
      /\ \A i \in 1..Len(w) : i > m => w[i] = z[i - m] /\ i - m \in 1..n
  BY <1>1, <1>2
<1>4. /\ \A i \in 1..m : s[i].from \in Int /\ s[i].to \in Int
      /\ \A i \in 1..n : z[i].from \in Int /\ z[i].to \in Int
  <2>1. \A x \in RangeRec : x.from \in Int /\ x.to \in Int
    BY DEF RangeRec
  <2>2. (\A i \in 1..m : s[i] \in RangeRec) /\ (\A i \in 1..n : z[i] \in RangeRec)
    BY <1>1
  <2> QED BY <2>1, <2>2
<1>5. /\ \A i \in 1..m : /\ a <= s[i].from /\ s[i].from <= s[i].to /\ s[i].to < b
                         /\ i > 1 => s[i - 1].to < s[i].from
                         /\ (s[i].label = "Name" => PlainName(r)) => s[i].from = Offset(r, s[i].label)
      /\ \A i \in 1..n : /\ b <= z[i].from /\ z[i].from <= z[i].to /\ z[i].to < c
                         /\ i > 1 => z[i - 1].to < z[i].from
                         /\ (z[i].label = "Name" => PlainName(r)) => z[i].from = Offset(r, z[i].label)
  BY DEF Lying
<1> HIDE DEF w, m, n
<1>6. ASSUME NEW i \in 1..Len(w)
      PROVE  /\ a <= w[i].from /\ w[i].from <= w[i].to /\ w[i].to < c
             /\ i > 1 => w[i - 1].to < w[i].from
             /\ (w[i].label = "Name" => PlainName(r)) => w[i].from = Offset(r, w[i].label)
  <2>1. CASE i <= m
    <3>1. i \in 1..m /\ w[i] = s[i] /\ (i > 1 => i - 1 \in 1..m /\ w[i - 1] = s[i - 1])
      BY <1>2, <1>3, <2>1
    <3>2. w[i].to \in Int
      BY <1>4, <3>1
    <3> QED BY <1>5, <3>1, <3>2
  <2>2. CASE i > m
    <3>1. w[i] = z[i - m] /\ i - m \in 1..n /\ i \in Int /\ m \in Int
      BY <1>2, <1>3, <2>2
    <3>2. z[i - m].from \in Int /\ z[i - m].to \in Int /\ b <= z[i - m].from
      BY <1>4, <1>5, <3>1
    <3>3. i > 1 => w[i - 1].to < w[i].from
      <4> SUFFICES ASSUME i > 1 PROVE w[i - 1].to < w[i].from
        OBVIOUS
      <4>1. CASE i - 1 = m
        <5>1. m \in 1..m /\ w[i - 1] = s[m]
          BY <1>2, <1>3, <4>1
        <5>2. s[m].to < b /\ s[m].to \in Int
          BY <1>4, <1>5, <5>1
        <5> QED BY <3>1, <3>2, <5>1, <5>2
      <4>2. CASE i - 1 # m
        <5>1. i - 1 \in 1..Len(w) /\ i - 1 > m /\ i - m > 1
          BY <1>2, <2>2, <3>1, <4>2
        <5>2. w[i - 1] = z[i - 1 - m]
          BY <1>3, <5>1
        <5>3. i - 1 - m = i - m - 1
          BY <3>1
        <5>4. z[i - m - 1].to < z[i - m].from
          BY <1>5, <3>1, <5>1
        <5> QED BY <3>1, <5>2, <5>3, <5>4
      <4> QED BY <4>1, <4>2
    <3>4. a <= w[i].from /\ w[i].from <= w[i].to /\ w[i].to < c
      BY <1>5, <3>1, <3>2
    <3> QED BY <1>5, <3>1, <3>3, <3>4
  <2>3. i \in Int /\ m \in Int
    BY <1>2
  <2> QED BY <2>1, <2>2, <2>3
<1> QED BY <1>2, <1>6 DEF Lying, w

------------------------------------------------------------------------------
\* The numbers a packet's bytes are divided by.
LEMMA RawIs ==
  ASSUME NEW r \in Raws
  PROVE  /\ r.bytes \in Nat /\ r.bytes > 0 /\ r.count \in Nat /\ r.feat \in 0..2 /\ r.transport \in BOOLEAN
         /\ PathLenOffset(r) = (IF r.transport THEN 5 ELSE 1)
         /\ PayloadStart(r) \in Nat /\ PayloadStart(r) >= PathLenOffset(r) + 1
         /\ r.count > 0 => PayloadStart(r) >= PathLenOffset(r) + 2
<1>1. /\ r.bytes \in Nat /\ r.bytes > 0 /\ r.count \in {0, 1, 3, 63} /\ r.size \in 1..4 /\ r.feat \in 0..2 /\ r.transport \in BOOLEAN
  BY DEF Raws
<1>2. PathLenOffset(r) = (IF r.transport THEN 5 ELSE 1)
  BY DEF PathLenOffset
<1>3. PathLenOffset(r) \in {1, 5}
  BY <1>2
<1> DEFINE n == r.size
           m == r.count
           p == PathLenOffset(r)
<1>4. PayloadStart(r) = p + 1 + n * m
  BY DEF PayloadStart
<1>5. m \in {0, 1, 3, 63} /\ n \in 1..4 /\ p \in {1, 5}
  BY <1>1, <1>3
<1> HIDE DEF n, m, p
<1>6. n * m \in Nat /\ (m > 0 => n * m >= 1)
  <2>1. CASE m = 0
    BY ONLY <1>5, <2>1
  <2>2. CASE m = 1
    BY ONLY <1>5, <2>2
  <2>3. CASE m = 3
    BY ONLY <1>5, <2>3
  <2>4. CASE m = 63
    BY ONLY <1>5, <2>4
  <2> QED BY <1>5, <2>1, <2>2, <2>3, <2>4
<1>7. PayloadStart(r) \in Nat /\ PayloadStart(r) >= p + 1 /\ (m > 0 => PayloadStart(r) >= p + 2)
  BY ONLY <1>4, <1>5, <1>6
<1> QED BY <1>1, <1>2, <1>7 DEF m, p

\* What follows the signature of an advert.
LEMMA AppLies ==
  ASSUME NEW r \in Raws, NEW p, p = PayloadStart(r), p + 100 <= r.bytes
  PROVE  /\ Lying(AdvertRanges(r, p), r, p, r.bytes)
<1> DEFINE b == r.bytes
           app == p + 100
           hasLoc == r.loc /\ app + 9 <= b
           off1 == IF hasLoc THEN app + 9 ELSE app + 1
           fs == {k \in 1..r.feat : off1 + 2 * k <= b}
           off2 == off1 + 2 * Cardinality(fs)
           s1 == ByteRange(p, p + 31, "PubKey")
           s2 == ByteRange(p + 32, p + 35, "Timestamp")
           s3 == ByteRange(p + 36, p + 99, "Signature")
           s4 == IF app < b THEN ByteRange(app, app, "Flags") ELSE <<>>
           lat == ByteRange(app + 1, app + 4, "Latitude")
           lon == ByteRange(app + 5, app + 8, "Longitude")
           s5 == IF app < b /\ hasLoc THEN lat \o lon ELSE <<>>
           s6 == IF app < b /\ r.name /\ off2 < b THEN ByteRange(off2, b - 1, "Name") ELSE <<>>
<1>1. AdvertRanges(r, p) = s1 \o s2 \o s3 \o s4 \o s5 \o s6
  BY DEF AdvertRanges
<1>2. p \in Nat /\ b \in Nat /\ app \in Nat /\ app <= b /\ app = p + 100 /\ r.feat \in 0..2
  BY RawIs
<1>3. Cardinality(fs) \in Nat /\ (r.feat = 0 => Cardinality(fs) = 0)
  <2>1. fs \in SUBSET (1..r.feat) /\ 1 \in Int /\ r.feat \in Int
    BY <1>2
  <2>2. r.feat = 0 => fs = {}
    BY <2>1
  <2> HIDE DEF fs
  <2>3. IsFiniteSet(1..r.feat)
    BY <2>1, FS_Interval
  <2>4. IsFiniteSet(fs)
    BY <2>1, <2>3, FS_Subset
  <2> QED BY <2>2, <2>4, FS_CardinalityType, FS_EmptySet
<1> HIDE DEF fs
<1>4. off2 \in Int /\ off1 \in Int /\ off2 >= off1 /\ off1 = (IF hasLoc THEN app + 9 ELSE app + 1) /\ (r.feat = 0 => off2 = off1)
  <2> DEFINE n == Cardinality(fs)
  <2>1. n \in Nat /\ (r.feat = 0 => n = 0) /\ off2 = off1 + 2 * n /\ off1 \in Int
    BY <1>2, <1>3
  <2> HIDE DEF n, off1, off2
  <2>2. off2 \in Int /\ off2 >= off1 /\ (n = 0 => off2 = off1)
    BY <2>1
  <2> QED BY <2>1, <2>2 DEF off1
<1>5. PlainName(r) => off2 = PayloadStart(r) + 101 + (IF r.loc THEN 8 ELSE 0)
  <2> SUFFICES ASSUME PlainName(r) PROVE off2 = p + 101 + (IF r.loc THEN 8 ELSE 0)
    OBVIOUS
  <2>1. r.feat = 0 /\ (r.loc => p + 109 <= b)
    BY DEF PlainName
  <2>2. hasLoc <=> r.loc
    BY <1>2, <2>1
  <2> HIDE DEF off2
  <2> QED BY <1>2, <1>4, <2>1, <2>2
<1> HIDE DEF off2, off1
<1>6. Lying(s1, r, p, p + 32)
  <2>1. p = Offset(r, "PubKey")
    BY DEF Offset
  <2>2. p \in Int /\ p + 31 \in Int /\ p + 32 \in Int /\ p <= p + 31 /\ p + 31 < p + 32
    BY <1>2
  <2>3. "PubKey" \in Labels
    BY DEF Labels
  <2>4. Lying(ByteRange(p, p + 31, "PubKey"), r, p, p + 32)
    BY ONLY <2>1, <2>2, <2>3, OneLies
  <2> QED BY <1>2, <2>4
<1>7. Lying(s2, r, p + 32, p + 36)
  <2>1. p + 32 = Offset(r, "Timestamp")
    BY DEF Offset
  <2>2. p + 32 \in Int /\ p + 35 \in Int /\ p + 36 \in Int /\ p + 32 <= p + 35 /\ p + 35 < p + 36
    BY <1>2
  <2>3. "Timestamp" \in Labels
    BY DEF Labels
  <2>4. Lying(ByteRange(p + 32, p + 35, "Timestamp"), r, p + 32, p + 36)
    BY ONLY <2>1, <2>2, <2>3, OneLies
  <2> QED BY <1>2, <2>4
<1>8. Lying(s3, r, p + 36, app)
  <2>1. p + 36 = Offset(r, "Signature")
    BY DEF Offset
  <2>2. p + 36 \in Int /\ p + 99 \in Int /\ app \in Int /\ p + 36 <= p + 99 /\ p + 99 < app
    BY <1>2
  <2>3. "Signature" \in Labels
    BY DEF Labels
  <2>4. Lying(ByteRange(p + 36, p + 99, "Signature"), r, p + 36, app)
    BY ONLY <2>1, <2>2, <2>3, OneLies
  <2> QED BY <1>2, <2>4
<1>9. app < b => Lying(s4, r, app, app + 1) /\ app + 1 <= b
  <2>1. app = Offset(r, "Flags")
    BY DEF Offset
  <2>2. app \in Int /\ app \in Int /\ app + 1 \in Int /\ app <= app /\ app < app + 1
    BY <1>2
  <2>3. "Flags" \in Labels
    BY DEF Labels
  <2>4. Lying(ByteRange(app, app, "Flags"), r, app, app + 1)
    BY ONLY <2>1, <2>2, <2>3, OneLies
  <2> QED BY <1>2, <2>4
<1>10. hasLoc => Lying(lat \o lon, r, app + 1, app + 9) /\ app + 9 <= b
  <2>1. app + 1 = Offset(r, "Latitude") /\ app + 5 = Offset(r, "Longitude")
    BY <1>2 DEF Offset
  <2>4. /\ app + 1 \in Int /\ app + 4 \in Int /\ app + 5 \in Int /\ app + 8 \in Int /\ app + 9 \in Int
        /\ app + 1 <= app + 4 /\ app + 4 < app + 5 /\ app + 5 <= app + 8 /\ app + 8 < app + 9 /\ app + 1 <= app + 1 /\ app + 5 <= app + 5
    BY <1>2
  <2>5. "Latitude" \in Labels /\ "Longitude" \in Labels
    BY DEF Labels
  <2>2. Lying(lat, r, app + 1, app + 5)
    BY ONLY <2>1, <2>4, <2>5, OneLies
  <2>3. Lying(lon, r, app + 5, app + 9)
    BY ONLY <2>1, <2>4, <2>5, OneLies
  <2> HIDE DEF lat, lon, app
  <2> QED BY <1>2, <2>2, <2>3, BothLie
<1>11. off2 < b => Lying(ByteRange(off2, b - 1, "Name"), r, off2, b)
  <2>1. PlainName(r) => off2 = Offset(r, "Name")
    BY <1>5 DEF Offset
  <2>2. "Name" \in Labels
    BY DEF Labels
  <2>3. off2 < b => b - 1 \in Int /\ off2 <= b - 1 /\ b - 1 < b /\ off2 <= off2 /\ off2 \in Int /\ b \in Int
    BY <1>2, <1>4
  <2> HIDE DEF b
  <2> QED BY ONLY <2>1, <2>2, <2>3, OneLies
<1> HIDE DEF s1, s2, s3, lat, lon
<1>12. Lying(s1 \o s2 \o s3, r, p, app)
  <2>1. Lying(s1 \o s2, r, p, p + 36)
    BY <1>2, <1>6, <1>7, BothLie
  <2> HIDE DEF app
  <2> QED BY <1>2, <1>8, <2>1, BothLie
<1> DEFINE s == s1 \o s2 \o s3
<1> HIDE DEF s
<1>13. CASE app < b
  <2>1. Lying(s \o s4, r, p, app + 1)
    <3>1. Lying(s, r, p, app) /\ Lying(s4, r, app, app + 1) /\ p <= app /\ app <= app + 1 /\ p \in Int /\ app \in Int /\ app + 1 \in Int
      BY <1>2, <1>9, <1>12, <1>13 DEF s
    <3> HIDE DEF s4, app
    <3> QED BY ONLY <3>1, BothLie
  <2>2. Lying(s5, r, app + 1, off1) /\ app + 1 <= off1
    BY <1>2, <1>4, <1>10, NoneLies
  <2>3. Lying(s6, r, off1, b) /\ off1 <= b
    <3>1. off1 <= b
      BY <1>2, <1>4, <1>13
    <3>2. CASE off2 < b
      <4>1. Lying(ByteRange(off2, b - 1, "Name"), r, off1, b)
        <5>1. b <= b /\ b \in Int
          BY <1>2
        <5> QED BY <1>4, <1>11, <3>2, <5>1, WiderLies
      <4> QED BY <3>1, <4>1, NoneLies
    <3>3. CASE ~(off2 < b)
      BY <3>1, <3>3, NoneLies
    <3> QED BY <3>2, <3>3
  <2> HIDE DEF s4, s5, s6, app, b
  <2>4. Lying(s \o s4 \o s5, r, p, off1)
    <3>1. p <= app + 1 /\ app + 1 \in Int /\ p \in Int
      BY <1>2
    <3> QED BY ONLY <1>4, <2>1, <2>2, <3>1, BothLie
  <2>5. Lying(s \o s4 \o s5 \o s6, r, p, b)
    <3>1. p <= off1 /\ p \in Int /\ b \in Int
      BY <1>2, <1>4, <2>2
    <3> QED BY ONLY <1>4, <2>3, <2>4, <3>1, BothLie
  <2> QED BY <1>1, <2>5 DEF s, b
<1>14. CASE ~(app < b)
  <2>1. s4 = <<>> /\ s5 = <<>> /\ s6 = <<>>
    BY <1>14
  <2>2. Lying(s \o <<>>, r, p, b)
    <3>1. Lying(<<>>, r, app, b) /\ app \in Int /\ b \in Int /\ p \in Int /\ p <= app /\ app <= b /\ Lying(s, r, p, app)
      BY <1>2, <1>12, NoneLies DEF s
    <3> HIDE DEF app, b
    <3> QED BY ONLY <3>1, BothLie
  <2>3. \A w : w \o <<>> \o <<>> \o <<>> = ((w \o <<>>) \o <<>>) \o <<>>
    OBVIOUS
  <2>4. Lying(s \o <<>> \o <<>> \o <<>>, r, p, b)
    <3>1. Lying(<<>>, r, b, b) /\ b <= b /\ b \in Int /\ p \in Int /\ p <= b
      BY <1>2, NoneLies
    <3> HIDE DEF b
    <3>2. Lying((s \o <<>>) \o <<>>, r, p, b)
      BY ONLY <2>2, <3>1, BothLie
    <3>3. Lying(((s \o <<>>) \o <<>>) \o <<>>, r, p, b)
      BY ONLY <3>1, <3>2, BothLie
    <3> QED BY <3>3
  <2> QED BY <1>1, <2>1, <2>4 DEF s
<1> QED BY <1>13, <1>14

------------------------------------------------------------------------------
\* A range of a known place.
LEMMA PartLies ==
  ASSUME NEW r, NEW x \in Int, NEW y \in Int, NEW b \in Int, NEW l \in Labels, l # "Name", x <= y, y < b, x = Offset(r, l)
  PROVE  Lying(ByteRange(x, y, l), r, x, b)
<1>1. x <= x
  OBVIOUS
<1> QED BY <1>1, OneLies

\* What is highlighted lies in the packet, truncated or not.
LEMMA BreakdownLies == ASSUME NEW r \in Raws PROVE Lying(computeBreakdownRanges(r), r, 0, r.bytes)
<1> DEFINE b == r.bytes
           q == PathLenOffset(r)
           p == PayloadStart(r)
           hd == ByteRange(0, 0, "Header")
           tc == IF r.transport THEN ByteRange(1, 4, "Transport Codes") ELSE <<>>
           pl == ByteRange(q, q, "Path Length")
           pr == pathRange(r)
           pay == PayloadRanges(r)
           rest == IF q >= b THEN <<>> ELSE pl \o pr \o pay
<1>1. /\ b \in Nat /\ b > 0 /\ r.count \in Nat /\ r.transport \in BOOLEAN /\ p \in Nat /\ q = (IF r.transport THEN 5 ELSE 1)
      /\ p >= q + 1 /\ (r.count > 0 => p >= q + 2) /\ q \in Int /\ p \in Int /\ b \in Int /\ q >= 1
  BY RawIs
<1>2. computeBreakdownRanges(r) = (IF b < 2 THEN <<>> ELSE IF r.transport /\ b < 5 THEN hd ELSE hd \o tc \o rest)
  BY DEF computeBreakdownRanges
<1>3. Lying(hd, r, 0, 1)
  <2>1. 0 = Offset(r, "Header") /\ "Header" \in Labels /\ "Header" # "Name"
    BY DEF Offset, Labels
  <2>2. 0 \in Int /\ 1 \in Int /\ 0 <= 0 /\ 0 < 1
    OBVIOUS
  <2> QED BY ONLY <2>1, <2>2, PartLies
<1>4. Lying(tc, r, 1, q)
  <2>1. 1 = Offset(r, "Transport Codes") /\ "Transport Codes" \in Labels /\ "Transport Codes" # "Name"
    BY DEF Offset, Labels
  <2>2. CASE r.transport
    <3>1. 1 \in Int /\ 4 \in Int /\ 5 \in Int /\ 1 <= 4 /\ 4 < 5
      OBVIOUS
    <3>2. Lying(ByteRange(1, 4, "Transport Codes"), r, 1, 5)
      BY ONLY <2>1, <3>1, PartLies
    <3> QED BY <1>1, <2>2, <3>2
  <2>3. CASE ~r.transport
    BY <2>3, NoneLies
  <2> QED BY <2>2, <2>3
<1>5. Lying(pl, r, q, q + 1)
  <2>1. q = Offset(r, "Path Length") /\ "Path Length" \in Labels /\ "Path Length" # "Name"
    BY DEF Offset, Labels
  <2>2. q \in Int /\ q + 1 \in Int /\ q <= q /\ q < q + 1
    BY <1>1
  <2> HIDE DEF q
  <2> QED BY <2>1, <2>2, PartLies
<1>6. p <= b => Lying(pr, r, q + 1, p)
  <2>1. q + 1 = Offset(r, "Path") /\ "Path" \in Labels /\ "Path" # "Name"
    BY DEF Offset, Labels
  <2>2. pr = (IF r.count > 0 /\ p <= b THEN ByteRange(q + 1, p - 1, "Path") ELSE <<>>)
    BY DEF pathRange, PathFits
  <2>3. r.count > 0 => q + 1 \in Int /\ p - 1 \in Int /\ p \in Int /\ q + 1 <= p - 1 /\ p - 1 < p
    BY <1>1
  <2> HIDE DEF q, p, pr
  <2>4. r.count > 0 => Lying(ByteRange(q + 1, p - 1, "Path"), r, q + 1, p)
    BY ONLY <2>1, <2>3, PartLies
  <2> QED BY <2>2, <2>4, NoneLies
<1>7. p <= b => Lying(pay, r, p, b)
  <2>1. pay = (IF p >= b THEN <<>> ELSE IF r.advert /\ b - p >= 100 THEN AdvertRanges(r, p) ELSE ByteRange(p, b - 1, "Payload"))
    BY DEF PayloadRanges
  <2>2. p = Offset(r, "Payload") /\ "Payload" \in Labels /\ "Payload" # "Name"
    BY DEF Offset, Labels
  <2>3. b - p >= 100 => p + 100 <= b
    BY <1>1
  <2>4. b - p >= 100 => Lying(AdvertRanges(r, p), r, p, b)
    BY <2>3, AppLies
  <2>5. p < b => p \in Int /\ b - 1 \in Int /\ p <= b - 1 /\ b - 1 < b /\ b \in Int
    BY <1>1
  <2>6. p >= b \/ p < b
    BY <1>1
  <2> HIDE DEF p, b, pay
  <2>7. p < b => Lying(ByteRange(p, b - 1, "Payload"), r, p, b)
    BY ONLY <2>2, <2>5, PartLies
  <2> QED BY <2>1, <2>4, <2>6, <2>7, NoneLies
<1>8. p > b => pr = <<>> /\ pay = <<>>
  <2>1. p > b => ~(p <= b) /\ p >= b
    BY <1>1
  <2> QED BY <2>1 DEF pathRange, PathFits, PayloadRanges
<1>14. rest = (IF q < b THEN pl \o pr \o pay ELSE <<>>)
  <2> HIDE DEF pl, pr, pay
  <2> QED BY <1>1
<1>9. q < b => Lying(rest, r, q, b)
  <2> SUFFICES ASSUME q < b PROVE Lying(rest, r, q, b)
    OBVIOUS
  <2> HIDE DEF q, b, p, pl, pr, pay, rest
  <2>1. rest = pl \o pr \o pay /\ q + 1 <= b /\ q + 1 \in Int /\ q <= q + 1 /\ b <= b /\ q <= b
    BY <1>1, <1>14
  <2>2. CASE p <= b
    <3>1. q <= p /\ q + 1 <= p
      BY <1>1
    <3>2. Lying(pl \o pr, r, q, p)
      BY ONLY <1>1, <1>5, <1>6, <2>1, <2>2, <3>1, BothLie
    <3>3. Lying((pl \o pr) \o pay, r, q, b)
      BY ONLY <1>1, <1>7, <2>2, <3>1, <3>2, BothLie
    <3> QED BY <2>1, <3>3
  <2>3. CASE p > b
    <3>1. Lying(<<>>, r, q + 1, b) /\ Lying(<<>>, r, b, b)
      BY NoneLies
    <3>2. Lying(pl \o <<>>, r, q, b)
      BY ONLY <1>1, <1>5, <2>1, <3>1, BothLie
    <3>3. Lying((pl \o <<>>) \o <<>>, r, q, b)
      BY ONLY <1>1, <2>1, <3>1, <3>2, BothLie
    <3> QED BY <1>8, <2>1, <2>3, <3>3
  <2> QED BY <1>1, <2>2, <2>3
<1>10. Lying(hd \o tc, r, 0, q)
  <2>1. 0 <= 1 /\ 1 <= q /\ 0 \in Int /\ 1 \in Int
    BY <1>1
  <2> HIDE DEF q, hd, tc
  <2> QED BY ONLY <1>1, <1>3, <1>4, <2>1, BothLie
<1> HIDE DEF q, b, p, hd, tc, rest
<1>11. CASE b < 2
  BY <1>2, <1>11, NoneLies DEF b
<1>12. CASE b >= 2 /\ r.transport /\ b < 5
  <2>1. computeBreakdownRanges(r) = hd
    BY <1>1, <1>2, <1>12
  <2>2. 0 \in Int /\ 1 \in Int /\ 0 <= 0 /\ 1 <= b
    BY <1>1
  <2>3. Lying(hd, r, 0, b)
    BY ONLY <1>1, <1>3, <2>2, WiderLies
  <2> QED BY <2>1, <2>3 DEF b
<1>13. CASE b >= 2 /\ ~(r.transport /\ b < 5)
  <2>1. computeBreakdownRanges(r) = (hd \o tc) \o rest /\ q <= b
    BY <1>1, <1>2, <1>13
  <2>2. Lying(rest, r, q, b)
    <3>1. ~(q < b) => rest = <<>>
      BY <1>14
    <3> QED BY <1>9, <3>1, NoneLies
  <2>3. 0 \in Int /\ 0 <= q
    BY <1>1
  <2>4. Lying((hd \o tc) \o rest, r, 0, b)
    BY ONLY <1>1, <1>10, <2>1, <2>2, <2>3, BothLie
  <2> QED BY <2>1, <2>4 DEF b
<1> QED BY <1>1, <1>11, <1>12, <1>13

------------------------------------------------------------------------------
\* The rows of the table are where their labels say.
FieldRec == [off : Int, label : Labels]
AtLabels(s, r) == s \in Seq(FieldRec) /\ \A i \in 1..Len(s) : s[i].off = Offset(r, s[i].label)

\* No row is anywhere.
LEMMA NoFieldRow == ASSUME NEW r PROVE AtLabels(<<>>, r)
  BY DEF AtLabels

\* A single row.
LEMMA OneRow ==
  ASSUME NEW r, NEW x \in Int, NEW l \in Labels, x = Offset(r, l)
  PROVE  AtLabels(RowAt(x, l), r)
<1> DEFINE c == [off |-> x, label |-> l]
<1>1. c \in FieldRec /\ c.off = x /\ c.label = l
  BY DEF FieldRec
<1>2. RowAt(x, l) = <<c>>
  BY DEF RowAt
<1> HIDE DEF c
<1>3. <<c>> \in Seq(FieldRec) /\ Len(<<c>>) = 1 /\ <<c>>[1] = c
  BY <1>1
<1>4. \A i \in 1..Len(<<c>>) : i = 1
  BY <1>3
<1> QED BY <1>1, <1>2, <1>3, <1>4 DEF AtLabels

\* Rows one after the other.
LEMMA BothRows ==
  ASSUME NEW s, NEW z, NEW r, AtLabels(s, r), AtLabels(z, r)
  PROVE  AtLabels(s \o z, r)
<1> DEFINE w == s \o z
           m == Len(s)
           n == Len(z)
<1>1. s \in Seq(FieldRec) /\ z \in Seq(FieldRec)
  BY DEF AtLabels
<1> HIDE DEF FieldRec
<1>2. m \in Nat /\ n \in Nat /\ w \in Seq(FieldRec) /\ Len(w) = m + n
  BY <1>1
<1>3. \A i \in 1..Len(w) : (i \in 1..m /\ w[i] = s[i]) \/ (i - m \in 1..n /\ w[i] = z[i - m])
  <2> TAKE i \in 1..Len(w)
  <2>1. CASE i <= m
    BY <1>1, <1>2, <2>1
  <2>2. CASE i > m
    BY <1>1, <1>2, <2>2
  <2> QED BY <1>2, <2>1, <2>2
<1>4. /\ \A i \in 1..m : s[i].off = Offset(r, s[i].label)
      /\ \A i \in 1..n : z[i].off = Offset(r, z[i].label)
  BY DEF AtLabels
<1> HIDE DEF w, m, n
<1>5. \A i \in 1..Len(w) : w[i].off = Offset(r, w[i].label)
  BY ONLY <1>3, <1>4
<1> QED BY <1>2, <1>5 DEF AtLabels, w

\* What the table says of where a field is.
LEMMA TableAtLabels == ASSUME NEW r \in Raws PROVE AtLabels(buildFieldTable(r), r)
<1> DEFINE q == PathLenOffset(r)
           p == PayloadStart(r)
<1>1. q \in Int /\ p \in Int /\ r.transport \in BOOLEAN /\ fieldOffset(r) = p
  BY RawIs DEF fieldOffset, PayloadStart
<1>2. r.loc \in BOOLEAN /\ r.name \in BOOLEAN /\ r.advert \in BOOLEAN
  BY DEF Raws
<1>3. /\ 0 = Offset(r, "Header") /\ 1 = Offset(r, "Transport Codes") /\ q = Offset(r, "Path Length") /\ q + 1 = Offset(r, "Path")
      /\ p = Offset(r, "Payload") /\ p = Offset(r, "PubKey") /\ p + 32 = Offset(r, "Timestamp") /\ p + 36 = Offset(r, "Signature")
  BY DEF Offset
<1>4. /\ p + 100 = Offset(r, "Flags") /\ p + 101 = Offset(r, "Latitude") /\ p + 105 = Offset(r, "Longitude")
      /\ p + 101 + (IF r.loc THEN 8 ELSE 0) = Offset(r, "Name")
  BY DEF Offset
<1>5. /\ "Header" \in Labels /\ "Transport Codes" \in Labels /\ "Path Length" \in Labels /\ "Path" \in Labels /\ "Payload" \in Labels
      /\ "PubKey" \in Labels /\ "Timestamp" \in Labels /\ "Signature" \in Labels
  BY DEF Labels
<1>6. "Flags" \in Labels /\ "Latitude" \in Labels /\ "Longitude" \in Labels /\ "Name" \in Labels
  BY DEF Labels
<1> DEFINE nameAt == p + 101 + (IF r.loc THEN 8 ELSE 0)
<1>7. /\ 0 \in Int /\ 1 \in Int /\ q + 1 \in Int /\ p + 32 \in Int /\ p + 36 \in Int /\ p + 100 \in Int /\ p + 101 \in Int /\ p + 105 \in Int
      /\ nameAt \in Int /\ nameAt = Offset(r, "Name")
  BY <1>1, <1>2, <1>4
<1> HIDE DEF p, q, nameAt
<1>8. AtLabels(RowAt(0, "Header"), r) /\ AtLabels(RowAt(1, "Transport Codes"), r)
  BY ONLY <1>3, <1>5, <1>7, OneRow
<1>9. AtLabels(RowAt(q, "Path Length"), r) /\ AtLabels(RowAt(q + 1, "Path"), r)
  BY ONLY <1>1, <1>3, <1>5, <1>7, OneRow
<1>10. AtLabels(RowAt(p, "Payload"), r) /\ AtLabels(RowAt(p, "PubKey"), r)
  BY ONLY <1>1, <1>3, <1>5, OneRow
<1>11. AtLabels(RowAt(p + 32, "Timestamp"), r) /\ AtLabels(RowAt(p + 36, "Signature"), r)
  BY ONLY <1>3, <1>5, <1>7, OneRow
<1>12. AtLabels(RowAt(p + 100, "Flags"), r) /\ AtLabels(RowAt(p + 101, "Latitude"), r) /\ AtLabels(RowAt(p + 105, "Longitude"), r)
  BY ONLY <1>4, <1>6, <1>7, OneRow
<1>13. AtLabels(RowAt(nameAt, "Name"), r)
  BY ONLY <1>6, <1>7, OneRow
<1>14. AtLabels(AppRows(r, p), r)
  <2> DEFINE pos == IF r.loc THEN RowAt(p + 101, "Latitude") \o RowAt(p + 105, "Longitude") ELSE <<>>
             nm == IF r.name THEN RowAt(nameAt, "Name") ELSE <<>>
  <2>1. AtLabels(pos, r)
    <3>1. AtLabels(RowAt(p + 101, "Latitude") \o RowAt(p + 105, "Longitude"), r)
      BY ONLY <1>12, BothRows
    <3> QED BY <3>1, NoFieldRow
  <2>2. AtLabels(nm, r)
    BY <1>13, NoFieldRow
  <2>3. AppRows(r, p) = RowAt(p + 100, "Flags") \o pos \o nm
    BY DEF AppRows, nameAt
  <2> HIDE DEF pos, nm
  <2>4. AtLabels(RowAt(p + 100, "Flags") \o pos, r)
    BY ONLY <1>12, <2>1, BothRows
  <2>5. AtLabels((RowAt(p + 100, "Flags") \o pos) \o nm, r)
    BY ONLY <2>2, <2>4, BothRows
  <2> QED BY <2>3, <2>5
<1> DEFINE tc == IF r.transport THEN RowAt(1, "Transport Codes") ELSE <<>>
           ph == IF r.count > 0 THEN RowAt(q + 1, "Path") ELSE <<>>
           ad == RowAt(p, "PubKey") \o RowAt(p + 32, "Timestamp") \o RowAt(p + 36, "Signature") \o AppRows(r, p)
           pay == IF r.advert THEN ad ELSE RowAt(p, "Payload")
<1>15. buildFieldTable(r) = RowAt(0, "Header") \o tc \o RowAt(q, "Path Length") \o ph \o pay
  <2>1. fieldOffset(r) = p
    BY <1>1
  <2> QED BY <2>1 DEF buildFieldTable, q
<1>16. AtLabels(tc, r) /\ AtLabels(ph, r)
  BY <1>8, <1>9, NoFieldRow
<1>17. AtLabels(pay, r)
  <2>1. AtLabels(RowAt(p, "PubKey") \o RowAt(p + 32, "Timestamp"), r)
    BY ONLY <1>10, <1>11, BothRows
  <2>2. AtLabels((RowAt(p, "PubKey") \o RowAt(p + 32, "Timestamp")) \o RowAt(p + 36, "Signature"), r)
    BY ONLY <1>11, <2>1, BothRows
  <2>3. AtLabels(ad, r)
    BY ONLY <1>14, <2>2, BothRows
  <2> HIDE DEF ad
  <2> QED BY <1>10, <2>3
<1> HIDE DEF tc, ph, pay
<1>18. AtLabels(RowAt(0, "Header") \o tc, r)
  BY ONLY <1>8, <1>16, BothRows
<1>19. AtLabels((RowAt(0, "Header") \o tc) \o RowAt(q, "Path Length"), r)
  BY ONLY <1>9, <1>18, BothRows
<1>20. AtLabels(((RowAt(0, "Header") \o tc) \o RowAt(q, "Path Length")) \o ph, r)
  BY ONLY <1>16, <1>19, BothRows
<1>21. AtLabels((((RowAt(0, "Header") \o tc) \o RowAt(q, "Path Length")) \o ph) \o pay, r)
  BY ONLY <1>17, <1>20, BothRows
<1> QED BY <1>15, <1>21

------------------------------------------------------------------------------
\* What is highlighted and what the table says are of the same packet.
ByteInv == raw \in Raws /\ RangesInBounds /\ FieldsAtRanges

\* Nothing is shown yet.
LEMMA ByteStarts == ByteInit => ByteInv
<1> SUFFICES ASSUME ByteInit PROVE ByteInv
  OBVIOUS
<1>1. raw \in Raws /\ Len(byteRanges) = 0
  BY DEF ByteInit
<1>2. 1..Len(byteRanges) = {}
  BY <1>1
<1> QED BY <1>1, <1>2 DEF ByteInv, RangesInBounds, FieldsAtRanges

\* Ranges that lie in a packet and rows at their labels agree.
LEMMA ByteStepHolds == ByteInv /\ [ByteNext]_byteVars => ByteInv'
<1> SUFFICES ASSUME ByteInv, [ByteNext]_byteVars PROVE ByteInv'
  OBVIOUS
<1>1. CASE ByteNext
  <2>1. raw' = raw /\ raw \in Raws /\ byteRanges' = computeBreakdownRanges(raw) /\ fieldRows' = buildFieldTable(raw)
    BY <1>1 DEF ByteNext, ShowBytes, ByteInv
  <2>2. Lying(byteRanges', raw, 0, raw.bytes) /\ AtLabels(fieldRows', raw)
    BY <2>1, BreakdownLies, TableAtLabels
  <2> HIDE DEF Raws
  <2>3. RangesInBounds'
    <3>1. \A i \in 1..Len(byteRanges') : /\ 0 <= byteRanges'[i].from /\ byteRanges'[i].from <= byteRanges'[i].to /\ byteRanges'[i].to < raw.bytes
                                         /\ i > 1 => byteRanges'[i - 1].to < byteRanges'[i].from
      BY <2>2 DEF Lying
    <3> QED BY <2>1, <3>1 DEF RangesInBounds
  <2>4. FieldsAtRanges'
    <3> SUFFICES ASSUME NEW i \in 1..Len(byteRanges'), NEW j \in 1..Len(fieldRows'), byteRanges'[i].label = fieldRows'[j].label,
                        fieldRows'[j].label = "Name" => NameIsPlain'
                 PROVE  byteRanges'[i].from = fieldRows'[j].off
      BY DEF FieldsAtRanges
    <3>1. byteRanges'[i].label = "Name" => PlainName(raw)
      BY <2>1 DEF NameIsPlain, PlainName
    <3>2. byteRanges'[i].from = Offset(raw, byteRanges'[i].label)
      BY <2>2, <3>1 DEF Lying
    <3>3. fieldRows'[j].off = Offset(raw, fieldRows'[j].label)
      BY <2>2 DEF AtLabels
    <3> QED BY <3>2, <3>3
  <2> QED BY <2>1, <2>3, <2>4 DEF ByteInv
<1>2. CASE UNCHANGED byteVars
  BY <1>2 DEF byteVars, ByteInv, RangesInBounds, FieldsAtRanges, NameIsPlain
<1> QED BY <1>1, <1>2

------------------------------------------------------------------------------
\* The parts of the views, each by itself: they share no variable.
ViewsInit == FilterInit /\ ColInit /\ SortInit /\ TableInit /\ DetailInit /\ GroupInit /\ ByteInit
PacketViewsSpec ==
    /\ ViewsInit
    /\ [][FilterNext]_filterVars /\ [][ColNext]_colVars /\ [][SortNext]_sortVars /\ [][TableNext]_tableVars
    /\ [][DetailNext]_detailVars /\ [][GroupNext]_groupVars /\ [][ByteNext]_byteVars
ViewsInv == FilterInv /\ FieldInv /\ ColInv /\ SortInv /\ TableInv /\ DetailInv /\ ChildrenInOrder /\ ByteInv

\* Filters, columns, sorting, details and byte ranges show the packets they
\* are about: the list was asked for with the filters shown unless answers
\* overtook one another, what was hidden stays hidden, the children of an
\* observer stay together, the empty rows come last, no surface shows an
\* observation of another packet or loads for ever, and the highlighted
\* ranges lie in the packet where the table says.
THEOREM PacketViewsHonestThm == PacketViewsSpec => []PacketViewsHonest
<1>1. ViewsInit => ViewsInv
  BY FilterStarts, FieldStarts, ColStarts, SortStarts, TableStarts, DetailStarts, GroupStarts, ByteStarts DEF ViewsInit, ViewsInv
<1>2. /\ ViewsInv /\ [FilterNext]_filterVars /\ [ColNext]_colVars /\ [SortNext]_sortVars /\ [TableNext]_tableVars
      /\ [DetailNext]_detailVars /\ [GroupNext]_groupVars /\ [ByteNext]_byteVars
      => ViewsInv'
  BY FilterStepHolds, FieldStepHolds, ColStepHolds, SortStepHolds, TableStepHolds, DetailStepHolds, GroupStepHolds, ByteStepHolds
     DEF ViewsInv
<1>3. ViewsInv => PacketViewsHonest
  BY FilterAgrees, FieldAgrees, ColAgrees, DetailAgrees DEF ViewsInv, PacketViewsHonest, SortInv, TableInv, ByteInv
<1> QED BY <1>1, <1>2, <1>3, PTL DEF PacketViewsSpec
================================================================================
