----------------------------- MODULE Subsequences -----------------------------
(***************************************************************************)
(* A part of a sequence in its order, as what filter() and its like keep,  *)
(* in a closed form: the i-th kept position is the one with i - 1 kept     *)
(* positions before it.                                                    *)
(***************************************************************************)
EXTENDS Integers, Sequences, FiniteSets, FiniteSetTheorems, TLAPS

Before(ps, p) == {q \in ps : q < p}
Nth(ps, i) == CHOOSE p \in ps : Cardinality(Before(ps, p)) = i - 1

\* The members of s at the positions ps.
Picked(s, ps) == [i \in 1..Cardinality(ps) |-> s[Nth(ps, i)]]

\* The later of two positions has more before it.
LEMMA LaterHasMore ==
  ASSUME NEW ps \in SUBSET Int, IsFiniteSet(ps), NEW p \in ps, NEW q \in ps, p < q
  PROVE  Cardinality(Before(ps, p)) < Cardinality(Before(ps, q))
<1>1. Before(ps, q) \in SUBSET ps /\ Before(ps, p) \in SUBSET ps
  BY DEF Before
<1>2. IsFiniteSet(Before(ps, q)) /\ IsFiniteSet(Before(ps, p))
  BY <1>1, FS_Subset
<1>3. Before(ps, p) \in SUBSET Before(ps, q) /\ Before(ps, p) # Before(ps, q)
  <2>1. \A x \in ps : x \in Int
    OBVIOUS
  <2>2. \A x \in ps : x < p => x < q
    BY <2>1
  <2>3. p \in Before(ps, q) /\ p \notin Before(ps, p)
    BY <2>1 DEF Before
  <2> QED BY <2>2, <2>3 DEF Before
<1>4. Cardinality(Before(ps, p)) \in Nat /\ Cardinality(Before(ps, q)) \in Nat
  BY <1>2, FS_CardinalityType
<1>5. Cardinality(Before(ps, p)) <= Cardinality(Before(ps, q))
  BY <1>2, <1>3, FS_Subset
<1>6. Cardinality(Before(ps, p)) # Cardinality(Before(ps, q))
  BY <1>2, <1>3, FS_Subset
<1> QED BY <1>4, <1>5, <1>6

\* Each rank has its position, in order, and each position its rank.
THEOREM NthIs ==
  ASSUME NEW ps \in SUBSET Int, IsFiniteSet(ps)
  PROVE  /\ Cardinality(ps) \in Nat
         /\ \A i \in 1..Cardinality(ps) : Nth(ps, i) \in ps
         /\ \A i, j \in 1..Cardinality(ps) : i < j => Nth(ps, i) < Nth(ps, j)
         /\ \A p \in ps : \E i \in 1..Cardinality(ps) : p = Nth(ps, i)
<1> DEFINE n == Cardinality(ps)
           rank(p) == Cardinality(Before(ps, p))
           r == [p \in ps |-> rank(p)]
           T == 0..(n - 1)
<1>1. n \in Nat
  BY FS_CardinalityType
<1>2. \A p \in ps : rank(p) \in T
  <2> TAKE p \in ps
  <2>1. IsFiniteSet(ps \ {p}) /\ Cardinality(ps \ {p}) = n - 1
    BY FS_RemoveElement
  <2>2. Before(ps, p) \in SUBSET (ps \ {p})
    BY DEF Before
  <2>3. IsFiniteSet(Before(ps, p)) /\ rank(p) <= n - 1
    BY <2>1, <2>2, FS_Subset
  <2>4. rank(p) \in Nat
    BY <2>3, FS_CardinalityType
  <2> QED BY <1>1, <2>3, <2>4
<1>3. \A p, q \in ps : p < q => rank(p) < rank(q)
  BY LaterHasMore
<1>4. \A p, q \in ps : rank(p) = rank(q) => p = q
  <2> SUFFICES ASSUME NEW p \in ps, NEW q \in ps, rank(p) = rank(q) PROVE p = q
    OBVIOUS
  <2>1. p \in Int /\ q \in Int /\ rank(p) \in Int
    BY <1>2
  <2>2. ~(p < q) /\ ~(q < p)
    <3> HIDE DEF rank
    <3> QED BY <1>3, <2>1
  <2> QED BY <2>1, <2>2
<1>5. IsFiniteSet(T) /\ Cardinality(T) = n
  <2>1. 0 \in Int /\ n - 1 \in Int
    BY <1>1
  <2>2. IsFiniteSet(T)
    BY <2>1, FS_Interval
  <2>3. Cardinality(T) = IF 0 > n - 1 THEN 0 ELSE (n - 1) - 0 + 1
    BY <2>1, FS_Interval
  <2> QED BY <1>1, <2>2, <2>3
<1>6. r \in Injection(ps, T)
  BY <1>2, <1>4 DEF Injection, IsInjective
<1>7. r \in Surjection(ps, T)
  <2> HIDE DEF r, T, n
  <2>1. Cardinality(ps) = Cardinality(T) <=> r \in Surjection(ps, T)
    BY <1>5, <1>6, FS_Injection
  <2> QED BY <1>5, <2>1 DEF n
<1>8. \A i \in 1..n : \E p \in ps : rank(p) = i - 1
  <2> TAKE i \in 1..n
  <2>1. i - 1 \in T
    BY <1>1
  <2>2. \E p \in ps : r[p] = i - 1
    BY <1>7, <2>1 DEF Surjection
  <2> QED BY <2>2
<1>9. \A i \in 1..n : Nth(ps, i) \in ps /\ rank(Nth(ps, i)) = i - 1
  BY <1>8 DEF Nth
<1>10. \A i, j \in 1..n : i < j => Nth(ps, i) < Nth(ps, j)
  <2> SUFFICES ASSUME NEW i \in 1..n, NEW j \in 1..n, i < j PROVE Nth(ps, i) < Nth(ps, j)
    OBVIOUS
  <2> HIDE DEF rank
  <2>1. Nth(ps, j) \in ps /\ Nth(ps, i) \in ps
    BY <1>9
  <2>2. rank(Nth(ps, i)) = i - 1 /\ rank(Nth(ps, j)) = j - 1 /\ i \in Int /\ j \in Int
    BY <1>1, <1>9
  <2>3. Nth(ps, i) \in Int /\ Nth(ps, j) \in Int
    BY <2>1
  <2>4. ~(Nth(ps, j) < Nth(ps, i))
    <3> SUFFICES ASSUME Nth(ps, j) < Nth(ps, i) PROVE FALSE
      OBVIOUS
    <3>1. rank(Nth(ps, j)) < rank(Nth(ps, i))
      BY <1>3, <2>1
    <3> QED BY <2>2, <3>1
  <2>5. Nth(ps, j) # Nth(ps, i)
    BY <2>2
  <2> QED BY <2>3, <2>4, <2>5
<1>11. \A p \in ps : \E i \in 1..n : p = Nth(ps, i)
  <2> TAKE p \in ps
  <2>1. rank(p) + 1 \in 1..n
    BY <1>1, <1>2
  <2>2. Nth(ps, rank(p) + 1) \in ps /\ rank(Nth(ps, rank(p) + 1)) = rank(p)
    <3>1. rank(p) \in Int
      BY <1>2
    <3> HIDE DEF rank
    <3> QED BY <1>9, <2>1, <3>1
  <2> QED BY <1>4, <2>1, <2>2
<1> QED BY <1>1, <1>9, <1>10, <1>11

\* What is picked is what stands at those positions, in their order.
THEOREM PickedIs ==
  ASSUME NEW M, NEW s \in Seq(M), NEW ps \in SUBSET DOMAIN s
  PROVE  /\ IsFiniteSet(ps) /\ Cardinality(ps) \in Nat
         /\ Picked(s, ps) \in Seq(M) /\ Len(Picked(s, ps)) = Cardinality(ps) /\ Cardinality(ps) <= Len(s)
         /\ \A i \in 1..Cardinality(ps) : Nth(ps, i) \in ps /\ Picked(s, ps)[i] = s[Nth(ps, i)]
         /\ \A i, j \in 1..Cardinality(ps) : i < j => Nth(ps, i) < Nth(ps, j)
         /\ \A p \in ps : \E i \in 1..Cardinality(ps) : p = Nth(ps, i)
<1>1. Len(s) \in Nat /\ DOMAIN s = 1..Len(s)
  OBVIOUS
<1>2. IsFiniteSet(1..Len(s)) /\ Cardinality(1..Len(s)) = Len(s)
  <2>1. 1 \in Int /\ Len(s) \in Int
    BY <1>1
  <2>2. IsFiniteSet(1..Len(s))
    BY <2>1, FS_Interval
  <2>3. Cardinality(1..Len(s)) = IF 1 > Len(s) THEN 0 ELSE Len(s) - 1 + 1
    BY <2>1, FS_Interval
  <2> QED BY <1>1, <2>2, <2>3
<1>3. IsFiniteSet(ps) /\ Cardinality(ps) <= Len(s)
  BY <1>1, <1>2, FS_Subset
<1>4. ps \in SUBSET Int
  BY <1>1
<1>5. /\ Cardinality(ps) \in Nat
      /\ \A i \in 1..Cardinality(ps) : Nth(ps, i) \in ps
      /\ \A i, j \in 1..Cardinality(ps) : i < j => Nth(ps, i) < Nth(ps, j)
      /\ \A p \in ps : \E i \in 1..Cardinality(ps) : p = Nth(ps, i)
  BY <1>3, <1>4, NthIs
<1>6. \A i \in 1..Cardinality(ps) : s[Nth(ps, i)] \in M
  BY <1>5
<1>7. Picked(s, ps) \in Seq(M) /\ Len(Picked(s, ps)) = Cardinality(ps)
  BY <1>5, <1>6 DEF Picked
<1>8. \A i \in 1..Cardinality(ps) : Picked(s, ps)[i] = s[Nth(ps, i)]
  BY DEF Picked
<1> QED BY <1>3, <1>5, <1>7, <1>8

\* Picked where nothing stands twice, nothing stands twice.
THEOREM PickedOnce ==
  ASSUME NEW M, NEW s \in Seq(M), NEW ps \in SUBSET DOMAIN s, \A p, q \in ps : s[p] = s[q] => p = q
  PROVE  \A i, j \in DOMAIN Picked(s, ps) : Picked(s, ps)[i] = Picked(s, ps)[j] => i = j
<1> DEFINE n == Cardinality(ps)
           k == Picked(s, ps)
<1>1. /\ n \in Nat /\ k \in Seq(M) /\ Len(k) = n
      /\ \A i \in 1..n : Nth(ps, i) \in ps /\ k[i] = s[Nth(ps, i)]
      /\ \A i, j \in 1..n : i < j => Nth(ps, i) < Nth(ps, j)
  BY PickedIs
<1> HIDE DEF k, n
<1>2. DOMAIN s \in SUBSET Nat
  OBVIOUS
<1>3. \A i \in 1..n : Nth(ps, i) \in Nat
  BY <1>1, <1>2
<1>4. DOMAIN k = 1..n
  BY <1>1
<1>5. \A i, j \in 1..n : k[i] = k[j] => i = j
  <2> TAKE i, j \in 1..n
  <2> HAVE k[i] = k[j]
  <2>1. Nth(ps, i) = Nth(ps, j)
    BY <1>1
  <2>2. ~(i < j) /\ ~(j < i)
    BY <1>1, <1>3, <2>1
  <2> QED BY <1>1, <2>2
<1> QED BY <1>4, <1>5 DEF k

------------------------------------------------------------------------------
(* A sequence put in an order of its positions, as what a stable sort does: *)
(* the i-th place is taken by what has i - 1 others ahead of it.            *)
Ahead(ps, R, p) == {q \in ps : <<q, p>> \in R}
Placed(ps, R, i) == CHOOSE p \in ps : Cardinality(Ahead(ps, R, p)) = i - 1
Arranged(s, R) == [i \in 1..Len(s) |-> s[Placed(DOMAIN s, R, i)]]

\* R orders ps, each before or after every other.
StrictlyOrders(R, ps) ==
    /\ \A p \in ps : <<p, p>> \notin R
    /\ \A p, q \in ps : p # q => <<p, q>> \in R \/ <<q, p>> \in R
    /\ \A p, q, r \in ps : <<p, q>> \in R /\ <<q, r>> \in R => <<p, r>> \in R

\* L orders the positions by some key; where it has no preference the
\* earlier position goes first, as in Array.sort.
Stably(ps, L) == {pq \in ps \X ps : pq \in L \/ (<<pq[2], pq[1]>> \notin L /\ pq[1] < pq[2])}
OrdersByKey(L, ps) ==
    /\ \A p \in ps : <<p, p>> \notin L
    /\ \A p, q, r \in ps : <<p, q>> \in L /\ <<q, r>> \in L => <<p, r>> \in L
    /\ \A p, q, r \in ps : <<p, r>> \in L => <<p, q>> \in L \/ <<q, r>> \in L

\* A stable order has no ties.
LEMMA StablyOrders ==
  ASSUME NEW ps \in SUBSET Int, NEW L, OrdersByKey(L, ps)
  PROVE  StrictlyOrders(Stably(ps, L), ps)
<1> DEFINE R == Stably(ps, L)
<1>1. \A p, q \in ps : <<p, q>> \in R <=> <<p, q>> \in L \/ (<<q, p>> \notin L /\ p < q)
  BY DEF Stably
<1>2. \A p \in ps : p \in Int
  OBVIOUS
<1> HIDE DEF R
<1>3. \A p \in ps : <<p, p>> \notin R
  <2> TAKE p \in ps
  <2>1. ~(p < p)
    BY <1>2
  <2>2. <<p, p>> \notin L
    BY DEF OrdersByKey
  <2> QED BY <1>1, <2>1, <2>2
<1>4. \A p, q \in ps : p # q => <<p, q>> \in R \/ <<q, p>> \in R
  BY <1>1, <1>2
<1>5. ASSUME NEW p \in ps, NEW q \in ps, NEW r \in ps, <<p, q>> \in R, <<q, r>> \in R PROVE <<p, r>> \in R
  <2>1. CASE <<p, q>> \in L
    <3>1. <<p, r>> \in L
      BY <1>1, <1>5, <2>1 DEF OrdersByKey
    <3> QED BY <1>1, <3>1
  <2>2. CASE <<q, r>> \in L
    <3>1. <<p, r>> \in L
      BY <1>1, <1>5, <2>2 DEF OrdersByKey
    <3> QED BY <1>1, <3>1
  <2>3. CASE <<p, q>> \notin L /\ <<q, r>> \notin L
    <3>1. <<q, p>> \notin L /\ <<r, q>> \notin L /\ p < q /\ q < r
      BY <1>1, <1>5, <2>3
    <3>2. <<r, p>> \notin L
      BY <3>1 DEF OrdersByKey
    <3>3. p < r
      BY <1>2, <3>1
    <3> QED BY <1>1, <3>2, <3>3
  <2> QED BY <2>1, <2>2, <2>3
<1>6. \A p, q, r \in ps : <<p, q>> \in R /\ <<q, r>> \in R => <<p, r>> \in R
  BY <1>5
<1> QED BY <1>3, <1>4, <1>6 DEF R, StrictlyOrders

\* What comes later has more ahead of it.
LEMMA LaterHasMoreAhead ==
  ASSUME NEW ps, IsFiniteSet(ps), NEW R, StrictlyOrders(R, ps), NEW p \in ps, NEW q \in ps, <<p, q>> \in R
  PROVE  Cardinality(Ahead(ps, R, p)) < Cardinality(Ahead(ps, R, q))
<1>1. Ahead(ps, R, q) \in SUBSET ps /\ Ahead(ps, R, p) \in SUBSET ps
  BY DEF Ahead
<1>2. IsFiniteSet(Ahead(ps, R, q)) /\ IsFiniteSet(Ahead(ps, R, p))
  BY <1>1, FS_Subset
<1>3. Ahead(ps, R, p) \in SUBSET Ahead(ps, R, q) /\ Ahead(ps, R, p) # Ahead(ps, R, q)
  <2>1. \A x \in ps : <<x, p>> \in R => <<x, q>> \in R
    BY DEF StrictlyOrders
  <2>2. p \in Ahead(ps, R, q) /\ p \notin Ahead(ps, R, p)
    BY DEF Ahead, StrictlyOrders
  <2> QED BY <2>1, <2>2 DEF Ahead
<1>4. Cardinality(Ahead(ps, R, p)) \in Nat /\ Cardinality(Ahead(ps, R, q)) \in Nat
  BY <1>2, FS_CardinalityType
<1>5. Cardinality(Ahead(ps, R, p)) <= Cardinality(Ahead(ps, R, q))
  BY <1>2, <1>3, FS_Subset
<1>6. Cardinality(Ahead(ps, R, p)) # Cardinality(Ahead(ps, R, q))
  BY <1>2, <1>3, FS_Subset
<1> QED BY <1>4, <1>5, <1>6

\* Each place is taken, in the order, and everything has a place.
THEOREM PlacedIs ==
  ASSUME NEW ps, IsFiniteSet(ps), NEW R, StrictlyOrders(R, ps)
  PROVE  /\ Cardinality(ps) \in Nat
         /\ \A i \in 1..Cardinality(ps) : Placed(ps, R, i) \in ps
         /\ \A i, j \in 1..Cardinality(ps) : i < j => <<Placed(ps, R, i), Placed(ps, R, j)>> \in R
         /\ \A p \in ps : \E i \in 1..Cardinality(ps) : p = Placed(ps, R, i)
<1> DEFINE n == Cardinality(ps)
           rank(p) == Cardinality(Ahead(ps, R, p))
           r == [p \in ps |-> rank(p)]
           T == 0..(n - 1)
<1>1. n \in Nat
  BY FS_CardinalityType
<1>2. \A p \in ps : rank(p) \in T
  <2> TAKE p \in ps
  <2>1. IsFiniteSet(ps \ {p}) /\ Cardinality(ps \ {p}) = n - 1
    BY FS_RemoveElement
  <2>2. Ahead(ps, R, p) \in SUBSET (ps \ {p})
    BY DEF Ahead, StrictlyOrders
  <2>3. IsFiniteSet(Ahead(ps, R, p)) /\ rank(p) <= n - 1
    BY <2>1, <2>2, FS_Subset
  <2>4. rank(p) \in Nat
    BY <2>3, FS_CardinalityType
  <2> QED BY <1>1, <2>3, <2>4
<1>3. \A p, q \in ps : <<p, q>> \in R => rank(p) < rank(q)
  BY LaterHasMoreAhead
<1>4. \A p, q \in ps : rank(p) = rank(q) => p = q
  <2> SUFFICES ASSUME NEW p \in ps, NEW q \in ps, rank(p) = rank(q) PROVE p = q
    OBVIOUS
  <2>1. rank(p) \in Int /\ rank(q) \in Int
    BY <1>2
  <2>2. <<p, q>> \notin R /\ <<q, p>> \notin R
    <3> HIDE DEF rank
    <3> QED BY <1>3, <2>1
  <2> QED BY <2>2 DEF StrictlyOrders
<1>5. IsFiniteSet(T) /\ Cardinality(T) = n
  <2>1. 0 \in Int /\ n - 1 \in Int
    BY <1>1
  <2>2. IsFiniteSet(T)
    BY <2>1, FS_Interval
  <2>3. Cardinality(T) = IF 0 > n - 1 THEN 0 ELSE (n - 1) - 0 + 1
    BY <2>1, FS_Interval
  <2> QED BY <1>1, <2>2, <2>3
<1>6. r \in Injection(ps, T)
  BY <1>2, <1>4 DEF Injection, IsInjective
<1>7. r \in Surjection(ps, T)
  <2> HIDE DEF r, T, n
  <2>1. Cardinality(ps) = Cardinality(T) <=> r \in Surjection(ps, T)
    BY <1>5, <1>6, FS_Injection
  <2> QED BY <1>5, <2>1 DEF n
<1>8. \A i \in 1..n : \E p \in ps : rank(p) = i - 1
  <2> TAKE i \in 1..n
  <2>1. i - 1 \in T
    BY <1>1
  <2>2. \E p \in ps : r[p] = i - 1
    BY <1>7, <2>1 DEF Surjection
  <2> QED BY <2>2
<1>9. \A i \in 1..n : Placed(ps, R, i) \in ps /\ rank(Placed(ps, R, i)) = i - 1
  BY <1>8 DEF Placed
<1>10. \A i, j \in 1..n : i < j => <<Placed(ps, R, i), Placed(ps, R, j)>> \in R
  <2> SUFFICES ASSUME NEW i \in 1..n, NEW j \in 1..n, i < j PROVE <<Placed(ps, R, i), Placed(ps, R, j)>> \in R
    OBVIOUS
  <2> HIDE DEF rank
  <2>1. Placed(ps, R, j) \in ps /\ Placed(ps, R, i) \in ps
    BY <1>9
  <2>2. rank(Placed(ps, R, i)) = i - 1 /\ rank(Placed(ps, R, j)) = j - 1 /\ i \in Int /\ j \in Int
    BY <1>1, <1>9
  <2>3. <<Placed(ps, R, j), Placed(ps, R, i)>> \notin R
    <3> SUFFICES ASSUME <<Placed(ps, R, j), Placed(ps, R, i)>> \in R PROVE FALSE
      OBVIOUS
    <3>1. rank(Placed(ps, R, j)) < rank(Placed(ps, R, i))
      BY <1>3, <2>1
    <3> QED BY <2>2, <3>1
  <2>4. Placed(ps, R, j) # Placed(ps, R, i)
    BY <2>2
  <2> QED BY <2>1, <2>3, <2>4 DEF StrictlyOrders
<1>11. \A p \in ps : \E i \in 1..n : p = Placed(ps, R, i)
  <2> TAKE p \in ps
  <2>1. rank(p) + 1 \in 1..n
    BY <1>1, <1>2
  <2>2. Placed(ps, R, rank(p) + 1) \in ps /\ rank(Placed(ps, R, rank(p) + 1)) = rank(p)
    <3>1. rank(p) \in Int
      BY <1>2
    <3> HIDE DEF rank
    <3> QED BY <1>9, <2>1, <3>1
  <2> QED BY <1>4, <2>1, <2>2
<1> QED BY <1>1, <1>9, <1>10, <1>11

\* What is arranged has the members of s, each as often, in the order.
THEOREM ArrangedIs ==
  ASSUME NEW M, NEW s \in Seq(M), NEW R, StrictlyOrders(R, DOMAIN s)
  PROVE  /\ Arranged(s, R) \in Seq(M) /\ Len(Arranged(s, R)) = Len(s) /\ DOMAIN Arranged(s, R) = DOMAIN s
         /\ \A i \in DOMAIN s : Placed(DOMAIN s, R, i) \in DOMAIN s /\ Arranged(s, R)[i] = s[Placed(DOMAIN s, R, i)]
         /\ \A i, j \in DOMAIN s : i < j => <<Placed(DOMAIN s, R, i), Placed(DOMAIN s, R, j)>> \in R
         /\ \A p \in DOMAIN s : \E i \in DOMAIN s : p = Placed(DOMAIN s, R, i)
<1> DEFINE ps == DOMAIN s
<1>1. Len(s) \in Nat /\ ps = 1..Len(s)
  OBVIOUS
<1>2. IsFiniteSet(ps) /\ Cardinality(ps) = Len(s)
  <2>1. 1 \in Int /\ Len(s) \in Int
    BY <1>1
  <2>2. IsFiniteSet(1..Len(s))
    BY <2>1, FS_Interval
  <2>3. Cardinality(1..Len(s)) = IF 1 > Len(s) THEN 0 ELSE Len(s) - 1 + 1
    BY <2>1, FS_Interval
  <2> QED BY <1>1, <2>2, <2>3
<1>3. /\ \A i \in 1..Cardinality(ps) : Placed(ps, R, i) \in ps
      /\ \A i, j \in 1..Cardinality(ps) : i < j => <<Placed(ps, R, i), Placed(ps, R, j)>> \in R
      /\ \A p \in ps : \E i \in 1..Cardinality(ps) : p = Placed(ps, R, i)
  <2> HIDE DEF ps
  <2>1. StrictlyOrders(R, ps)
    BY DEF ps
  <2> QED BY <1>2, <2>1, PlacedIs
<1>4. \A i \in 1..Len(s) : s[Placed(ps, R, i)] \in M
  BY <1>2, <1>3
<1>5. Arranged(s, R) \in Seq(M) /\ Len(Arranged(s, R)) = Len(s) /\ DOMAIN Arranged(s, R) = 1..Len(s)
  <2> HIDE DEF ps
  <2>1. Arranged(s, R) = [i \in 1..Len(s) |-> s[Placed(ps, R, i)]]
    BY DEF Arranged, ps
  <2>2. Arranged(s, R) \in [1..Len(s) -> M]
    BY <1>4, <2>1
  <2> QED BY <1>1, <2>1, <2>2
<1>6. \A i \in 1..Len(s) : Arranged(s, R)[i] = s[Placed(ps, R, i)]
  BY DEF Arranged
<1> QED BY <1>1, <1>2, <1>3, <1>5, <1>6

------------------------------------------------------------------------------
\* Induction over the numbers, for any property: a set of them has a least.
THEOREM LeastNumber ==
  ASSUME NEW S \in SUBSET Nat, S # {}
  PROVE  \E m \in S : \A k \in S : m <= k
<1>1. PICK n \in S : TRUE
  OBVIOUS
<1> DEFINE ps == {k \in S : k <= n}
<1>2. n \in Nat /\ n \in ps /\ ps \in SUBSET (0..n)
  <2>1. n \in S /\ n \in Nat /\ \A k \in S : k \in Nat
    BY <1>1
  <2>2. n \in ps
    BY <2>1
  <2>3. \A k \in ps : k \in 0..n
    BY <2>1
  <2> QED BY <2>1, <2>2, <2>3
<1>3. IsFiniteSet(ps)
  <2>1. 0 \in Int /\ n \in Int
    BY <1>2
  <2>2. IsFiniteSet(0..n)
    BY <2>1, FS_Interval
  <2> QED BY <1>2, <2>2, FS_Subset
<1>4. ps \in SUBSET Int
  <2>1. \A k \in S : k \in Int
    OBVIOUS
  <2> QED BY <2>1
<1> HIDE DEF ps
<1>5. /\ Cardinality(ps) \in Nat
      /\ \A i \in 1..Cardinality(ps) : Nth(ps, i) \in ps
      /\ \A i, j \in 1..Cardinality(ps) : i < j => Nth(ps, i) < Nth(ps, j)
      /\ \A p \in ps : \E i \in 1..Cardinality(ps) : p = Nth(ps, i)
  BY <1>3, <1>4, NthIs
<1>6. 1 \in 1..Cardinality(ps)
  BY <1>2, <1>5
<1> DEFINE m == Nth(ps, 1)
<1>7. m \in ps /\ \A k \in ps : k = m \/ m < k
  <2>1. m \in ps
    BY <1>5, <1>6
  <2>2. ASSUME NEW k \in ps PROVE k = m \/ m < k
    <3>1. PICK i \in 1..Cardinality(ps) : k = Nth(ps, i)
      BY <1>5
    <3>2. i = 1 \/ 1 < i
      BY <1>5
    <3> QED BY <1>5, <1>6, <3>1, <3>2
  <2> QED BY <2>1, <2>2
<1> HIDE DEF m
<1>8. m \in S /\ m <= n /\ m \in Nat
  BY <1>7 DEF ps
<1>9. \A k \in S : m <= k
  <2> SUFFICES ASSUME NEW k \in S PROVE m <= k
    OBVIOUS
  <2>1. CASE k <= n
    <3>1. k \in ps
      BY <2>1 DEF ps
    <3> QED BY <1>7, <1>8, <3>1
  <2>2. CASE ~(k <= n)
    BY <1>2, <1>8, <2>2
  <2> QED BY <2>1, <2>2
<1> QED BY <1>8, <1>9
===============================================================================
