-------------------------- MODULE RouteTableProofs --------------------------
(***************************************************************************)
(* Theorems about RouteTable for every set of ids, keys, metrics, rtts and *)
(* receivers and every channel_num: the invariants and the action          *)
(* properties the TLC runs check on small instances.                       *)
(***************************************************************************)
EXTENDS RouteTable, FiniteSetTheorems, FunctionTheorems, WellFoundedInduction, TLAPS

LEMMA IntervalCardinality ==
    ASSUME NEW n \in Nat
    PROVE  IsFiniteSet(1 .. n) /\ Cardinality(1 .. n) = n
BY FS_Interval

(* A total order on I, as a set of pairs. *)
TotalOrderOn(I, le) ==
    /\ \A i \in I : <<i, i>> \in le
    /\ \A i, j \in I : <<i, j>> \in le \/ <<j, i>> \in le
    /\ \A i, j \in I : <<i, j>> \in le /\ <<j, i>> \in le => i = j
    /\ \A i, j, k \in I : <<i, j>> \in le /\ <<j, k>> \in le => <<i, k>> \in le

(* Different positions have different ranks. *)
LEMMA RankInjective ==
    ASSUME NEW I, IsFiniteSet(I), NEW le, TotalOrderOn(I, le)
    PROVE  /\ \A i \in I : Rank(I, le, i) \in 1 .. Cardinality(I)
           /\ \A i, k \in I : Rank(I, le, i) = Rank(I, le, k) => i = k
<1> DEFINE B(i) == {j \in I : <<j, i>> \in le}
           N == Cardinality(I)
<1>1. \A i \in I : /\ IsFiniteSet(B(i)) /\ Cardinality(B(i)) <= N
                   /\ Cardinality(B(i)) \in Nat
  BY FS_Subset, FS_CardinalityType
<1>2. \A i \in I : Cardinality(B(i)) # 0
  <2>1. \A i \in I : i \in B(i)
    BY DEF TotalOrderOn
  <2> QED
    BY <2>1, <1>1, FS_EmptySet
<1>3. N \in Nat
  BY FS_CardinalityType
<1>4. \A i \in I : Rank(I, le, i) \in 1 .. N
  BY <1>1, <1>2, <1>3 DEF Rank
<1>5. ASSUME NEW i \in I, NEW k \in I, <<i, k>> \in le, i # k
      PROVE  Rank(I, le, i) # Rank(I, le, k)
  <2>1. B(i) \subseteq B(k)
    BY <1>5 DEF TotalOrderOn
  <2>2. k \in B(k) /\ k \notin B(i)
    BY <1>5 DEF TotalOrderOn
  <2>3. Cardinality(B(i)) = Cardinality(B(k)) => B(i) = B(k)
    BY <2>1, <1>1, FS_Subset
  <2> QED
    BY <2>2, <2>3 DEF Rank
<1>6. ASSUME NEW i \in I, NEW k \in I, Rank(I, le, i) = Rank(I, le, k)
      PROVE  i = k
  <2>1. CASE <<i, k>> \in le
    BY <2>1, <1>5, <1>6
  <2>2. CASE <<k, i>> \in le
    BY <2>2, <1>5, <1>6
  <2> QED
    BY <2>1, <2>2 DEF TotalOrderOn
<1> QED
  BY <1>4, <1>6

(* So ranks are a bijection from I to 1 .. Cardinality(I): every index of  *)
(* the sorted or filtered Vec is some element's.                           *)
LEMMA RankOnto ==
    ASSUME NEW I, IsFiniteSet(I), NEW le, TotalOrderOn(I, le)
    PROVE  \A n \in 1 .. Cardinality(I) : \E i \in I : Rank(I, le, i) = n
<1> DEFINE f == [i \in I |-> Rank(I, le, i)]
           N == Cardinality(I)
<1>1. f \in Injection(I, 1 .. N)
  <2>1. f \in [I -> 1 .. N]
    BY RankInjective
  <2>2. \A a, b \in I : f[a] = f[b] => a = b
    BY RankInjective
  <2> QED
    BY <2>1, <2>2, Fun_IsInj
<1>2. N \in Nat
  BY FS_CardinalityType
<1>3. IsFiniteSet(1 .. N) /\ Cardinality(1 .. N) = N
  BY <1>2, FS_Interval
<1>4. f \in Surjection(I, 1 .. N)
  BY <1>1, <1>3, FS_Injection
<1>5. \A n \in 1 .. N : \E i \in I : f[i] = n
  BY <1>4 DEF Surjection
<1> QED
  BY <1>5

(* A is the elements of s at the positions I, each exactly once. *)
IsArrangement(A, s, I) ==
    /\ Cardinality(I) \in Nat
    /\ Cardinality(I) <= Len(s)
    /\ Len(A) = Cardinality(I)
    /\ \E pos \in [1 .. Cardinality(I) -> I] :
          /\ \A m, n \in 1 .. Cardinality(I) : pos[m] = pos[n] => m = n
          /\ \A i \in I : \E n \in 1 .. Cardinality(I) : pos[n] = i
          /\ \A n \in 1 .. Cardinality(I) : A[n] = s[pos[n]]

(* What sort_by_key and retain return. *)
LEMMA ArrangeProperties ==
    ASSUME NEW S, NEW s \in Seq(S), NEW I \in SUBSET DOMAIN s,
           NEW le, TotalOrderOn(I, le)
    PROVE  Arrange(s, I, le) \in Seq(S) /\ IsArrangement(Arrange(s, I, le), s, I)
<1> DEFINE N == Cardinality(I)
           p == [n \in 1 .. N |-> CHOOSE i \in I : Rank(I, le, i) = n]
<1>1. IsFiniteSet(DOMAIN s) /\ Cardinality(DOMAIN s) = Len(s) /\ DOMAIN s = 1 .. Len(s)
  <2>1. Len(s) \in Nat /\ DOMAIN s = 1 .. Len(s)
    OBVIOUS
  <2>2. IsFiniteSet(1 .. Len(s)) /\ Cardinality(1 .. Len(s)) = Len(s)
    BY <2>1, IntervalCardinality
  <2> QED
    BY <2>1, <2>2
<1>2. IsFiniteSet(I) /\ N <= Len(s)
  BY <1>1, FS_Subset
<1>3. N \in Nat
  BY <1>2, FS_CardinalityType
<1>4. /\ \A i \in I : Rank(I, le, i) \in 1 .. N
      /\ \A n \in 1 .. N : \E i \in I : Rank(I, le, i) = n
  BY <1>2, RankOnto, RankInjective
<1>5. \A n \in 1 .. N : p[n] \in I /\ Rank(I, le, p[n]) = n
  BY <1>4
<1>6. p \in [1 .. N -> I]
  BY <1>5
<1>7. \A m, n \in 1 .. N : p[m] = p[n] => m = n
  BY <1>5
<1>8. \A i \in I : \E n \in 1 .. N : p[n] = i
  <2> SUFFICES ASSUME NEW i \in I PROVE p[Rank(I, le, i)] = i
    BY <1>4
  <2>1. TotalOrderOn(I, le) /\ Rank(I, le, i) \in 1 .. N
    BY <1>4
  <2> DEFINE k == p[Rank(I, le, i)]
  <2>2. k \in I /\ Rank(I, le, k) = Rank(I, le, i)
    BY <2>1, <1>5
  <2> QED
    BY <2>2, <1>2, RankInjective
<1>9. \A n \in 1 .. N : Arrange(s, I, le)[n] = s[p[n]]
  BY DEF Arrange
<1>10. Arrange(s, I, le) \in [1 .. N -> S]
  <2>1. \A n \in 1 .. N : s[p[n]] \in S
    BY <1>5, <1>1
  <2> QED
    BY <2>1 DEF Arrange
<1>11. Arrange(s, I, le) \in Seq(S) /\ Len(Arrange(s, I, le)) = N
  BY <1>10, <1>3
<1> HIDE DEF p
<1> QED
  BY <1>2, <1>3, <1>6, <1>7, <1>8, <1>9, <1>11 DEF IsArrangement

-----------------------------------------------------------------------------
(* t is made of elements of s, each used at most once. *)
PartOf(t, s) ==
    \E pos \in [DOMAIN t -> DOMAIN s] :
        /\ \A m, n \in DOMAIN t : pos[m] = pos[n] => m = n
        /\ \A n \in DOMAIN t : t[n] = s[pos[n]]

(* No two routes of the list share a RouteKey. *)
Distinct(s) == \A i, j \in DOMAIN s : s[i].key = s[j].key => i = j

HasP2p(s) == P2pPositions(s) # {}

(* The parts of a duplicate-free list are duplicate-free. *)
LEMMA PartOfDistinct ==
    ASSUME NEW t, NEW s, PartOf(t, s), Distinct(s)
    PROVE  Distinct(t)
BY DEF PartOf, Distinct

LEMMA PartOfTransitive ==
    ASSUME NEW t, NEW s, NEW u, PartOf(t, s), PartOf(s, u)
    PROVE  PartOf(t, u)
<1>1. PICK p \in [DOMAIN t -> DOMAIN s] :
        /\ \A m, n \in DOMAIN t : p[m] = p[n] => m = n
        /\ \A n \in DOMAIN t : t[n] = s[p[n]]
  BY DEF PartOf
<1>2. PICK q \in [DOMAIN s -> DOMAIN u] :
        /\ \A m, n \in DOMAIN s : q[m] = q[n] => m = n
        /\ \A n \in DOMAIN s : s[n] = u[q[n]]
  BY DEF PartOf
<1> DEFINE r == [n \in DOMAIN t |-> q[p[n]]]
<1>3. r \in [DOMAIN t -> DOMAIN u]
  BY <1>1, <1>2
<1>4. \A m, n \in DOMAIN t : r[m] = r[n] => m = n
  BY <1>1, <1>2
<1>5. \A n \in DOMAIN t : t[n] = u[r[n]]
  BY <1>1, <1>2
<1> HIDE DEF r
<1> QED
  BY <1>3, <1>4, <1>5 DEF PartOf

(* Every element of s at a position of I is in A. *)
Covers(A, s, I) == \A i \in I : \E n \in DOMAIN A : A[n] = s[i]

(* An arrangement is a part of the list; it has every element at I. *)
LEMMA ArrangePart ==
    ASSUME NEW S, NEW s \in Seq(S), NEW I \in SUBSET DOMAIN s,
           NEW le, TotalOrderOn(I, le)
    PROVE  /\ Arrange(s, I, le) \in Seq(S)
           /\ Len(Arrange(s, I, le)) = Cardinality(I)
           /\ Len(Arrange(s, I, le)) <= Len(s)
           /\ PartOf(Arrange(s, I, le), s)
           /\ Covers(Arrange(s, I, le), s, I)
<1> DEFINE A == Arrange(s, I, le)
           N == Cardinality(I)
<1>1. A \in Seq(S) /\ IsArrangement(A, s, I)
  BY ArrangeProperties
<1> HIDE DEF A
<1>2. N \in Nat /\ Len(A) = N /\ N <= Len(s) /\ DOMAIN A = 1 .. N
  BY <1>1 DEF IsArrangement
<1>3. PICK pos \in [1 .. N -> I] :
                /\ \A m, n \in 1 .. N : pos[m] = pos[n] => m = n
                /\ \A i \in I : \E n \in 1 .. N : pos[n] = i
                /\ \A n \in 1 .. N : A[n] = s[pos[n]]
  BY <1>1 DEF IsArrangement
<1> HIDE DEF N
<1>4. pos \in [DOMAIN A -> DOMAIN s]
  BY <1>2, <1>3
<1>5. PartOf(A, s)
  <2>1. \A m, n \in DOMAIN A : pos[m] = pos[n] => m = n
    BY <1>2, <1>3
  <2>2. \A n \in DOMAIN A : A[n] = s[pos[n]]
    BY <1>2, <1>3
  <2> QED
    BY <1>4, <2>1, <2>2 DEF PartOf
<1>6. Covers(A, s, I)
  BY <1>2, <1>3 DEF Covers
<1> QED
  BY <1>1, <1>2, <1>5, <1>6 DEF A, N

(* sort_by_key reorders the list and loses nothing. *)
LEMMA SortByRtProperties ==
    ASSUME NEW s \in Seq(Route)
    PROVE  /\ SortByRt(s) \in Seq(Route)
           /\ Len(SortByRt(s)) = Len(s)
           /\ PartOf(SortByRt(s), s)
           /\ HasP2p(s) => HasP2p(SortByRt(s))
<1>1. DOMAIN s = 1 .. Len(s) /\ Len(s) \in Nat /\ \A i \in DOMAIN s : s[i] \in Route
  OBVIOUS
<1>2. \A i \in DOMAIN s : s[i].rt \in Int
  BY <1>1, RtsAssumption DEF Route
<1>3. TotalOrderOn(DOMAIN s, ByRt(s))
  BY <1>1, <1>2 DEF TotalOrderOn, ByRt
<1>4. Cardinality(DOMAIN s) = Len(s)
  <2>1. Cardinality(1 .. Len(s)) = Len(s)
    BY <1>1, IntervalCardinality
  <2> QED
    BY <1>1, <2>1
<1> DEFINE A == Arrange(s, DOMAIN s, ByRt(s))
<1>5. /\ A \in Seq(Route) /\ Len(A) = Cardinality(DOMAIN s) /\ PartOf(A, s)
      /\ Covers(A, s, DOMAIN s)
  BY <1>3, ArrangePart
<1>6. HasP2p(s) => HasP2p(A)
  BY <1>5 DEF HasP2p, P2pPositions, Covers
<1> QED
  BY <1>4, <1>5, <1>6 DEF SortByRt

LEMMA InPlaceTotal ==
    ASSUME NEW s \in Seq(Route), NEW I \in SUBSET DOMAIN s
    PROVE  TotalOrderOn(I, InPlace(s))
BY DEF TotalOrderOn, InPlace

(* retain(is_p2p) keeps every direct route and nothing else. *)
LEMMA RetainP2pProperties ==
    ASSUME NEW s \in Seq(Route)
    PROVE  /\ RetainP2p(s) \in Seq(Route)
           /\ Len(RetainP2p(s)) <= Len(s)
           /\ PartOf(RetainP2p(s), s)
           /\ HasP2p(s) => HasP2p(RetainP2p(s))
<1> DEFINE I == {i \in DOMAIN s : IsP2p(s[i])}
           A == Arrange(s, I, InPlace(s))
<1>0. I \in SUBSET DOMAIN s /\ TotalOrderOn(I, InPlace(s))
  BY InPlaceTotal
<1>1. /\ A \in Seq(Route) /\ Len(A) <= Len(s) /\ PartOf(A, s)
      /\ Covers(A, s, I)
  <2> HIDE DEF I
  <2> QED
    BY <1>0, ArrangePart
<1>2. HasP2p(s) => HasP2p(A)
  BY <1>1 DEF HasP2p, P2pPositions, Covers
<1> QED
  BY <1>1, <1>2 DEF RetainP2p

(* remove_route's retain drops the key and nothing else. *)
LEMMA RetainOtherProperties ==
    ASSUME NEW s \in Seq(Route), NEW k
    PROVE  /\ RetainOther(s, k) \in Seq(Route)
           /\ Len(RetainOther(s, k)) <= Len(s)
           /\ PartOf(RetainOther(s, k), s)
<1> DEFINE I == {i \in DOMAIN s : s[i].key # k}
           A == Arrange(s, I, InPlace(s))
<1>0. I \in SUBSET DOMAIN s /\ TotalOrderOn(I, InPlace(s))
  BY InPlaceTotal
<1>1. /\ A \in Seq(Route) /\ Len(A) <= Len(s) /\ PartOf(A, s)
  <2> HIDE DEF I
  <2> QED
    BY <1>0, ArrangePart
<1> QED
  BY <1>1 DEF RetainOther

(* A non-empty set of positions has a first one. *)
LEMMA MinExists ==
    ASSUME NEW P \in SUBSET Nat, P # {}
    PROVE  \E i \in P : \A j \in P : i <= j
<1>1. PICK i \in P : \A j \in P : ~ (<<j, i>> \in OpToRel(<, Nat))
  BY NatLessThanWellFounded, WFMin
<1>2. \A j \in P : ~ (j < i)
  BY <1>1 DEF OpToRel
<1> QED
  BY <1>2

(* truncate_ bounds the list, and keeps a direct route if there is one and *)
(* latency comes first.                                                    *)
LEMMA TruncateProperties ==
    ASSUME NEW s \in Seq(Route), NEW n \in Nat \ {0}
    PROVE  /\ Truncate(s, n) \in Seq(Route)
           /\ Len(Truncate(s, n)) = IF Len(s) <= n THEN Len(s) ELSE n
           /\ PartOf(Truncate(s, n), s)
           /\ (HasP2p(s) /\ FIRST_LATENCY) => HasP2p(Truncate(s, n))
<1>1. CASE Len(s) <= n
  <2>1. Truncate(s, n) = s
    BY <1>1 DEF Truncate
  <2>2. PartOf(s, s)
    <3> DEFINE id == [i \in DOMAIN s |-> i]
    <3>1. id \in [DOMAIN s -> DOMAIN s] /\ \A i \in DOMAIN s : id[i] = i
      OBVIOUS
    <3> HIDE DEF id
    <3> QED
      BY <3>1 DEF PartOf
  <2> QED
    BY <1>1, <2>1, <2>2
<1>2. CASE ~(Len(s) <= n) /\ FIRST_LATENCY /\ P2pPositions(s) # {}
                          /\ \A i \in P2pPositions(s) : i > n
  <2> DEFINE P == P2pPositions(s)
             first == CHOOSE i \in P : \A j \in P : i <= j
             t == Append(SubSeq(s, 1, n - 1), s[first])
             pos == [m \in 1 .. n |-> IF m < n THEN m ELSE first]
  <2>1. Truncate(s, n) = t
    BY <1>2 DEF Truncate
  <2>2. P \subseteq 1 .. Len(s) /\ P # {}
    BY <1>2 DEF P2pPositions
  <2>3. \E i \in P : \A j \in P : i <= j
    BY <2>2, MinExists
  <2>4. first \in P
    BY <2>3
  <2>5. first \in 1 .. Len(s) /\ first > n /\ IsP2p(s[first])
    BY <2>4, <2>2, <1>2 DEF P2pPositions
  <2> HIDE DEF first
  <2>6. /\ SubSeq(s, 1, n - 1) \in Seq(Route) /\ Len(SubSeq(s, 1, n - 1)) = n - 1
        /\ \A m \in 1 .. n - 1 : SubSeq(s, 1, n - 1)[m] = s[m]
    BY <1>2
  <2>7. /\ t \in Seq(Route) /\ Len(t) = n
        /\ \A m \in 1 .. n : t[m] = IF m < n THEN s[m] ELSE s[first]
    BY <2>5, <2>6
  <2> HIDE DEF t
  <2>8. DOMAIN t = 1 .. n
    BY <2>7
  <2>9. PartOf(t, s)
    <3>1. pos \in [DOMAIN t -> DOMAIN s]
      BY <2>8, <2>5, <1>2
    <3>2. \A m, k \in DOMAIN t : pos[m] = pos[k] => m = k
      BY <2>8, <2>5
    <3>3. \A m \in DOMAIN t : t[m] = s[pos[m]]
      BY <2>8, <2>7
    <3> HIDE DEF pos
    <3> QED
      BY <3>1, <3>2, <3>3 DEF PartOf
  <2>10. HasP2p(t)
    <3>1. n \in DOMAIN t /\ IsP2p(t[n])
      BY <2>5, <2>7, <2>8
    <3> QED
      BY <3>1 DEF HasP2p, P2pPositions
  <2> QED
    BY <1>2, <2>1, <2>7, <2>9, <2>10
<1>3. CASE ~(Len(s) <= n) /\ ~(FIRST_LATENCY /\ P2pPositions(s) # {}
                          /\ \A i \in P2pPositions(s) : i > n)
  <2> DEFINE t == SubSeq(s, 1, n)
             pos == [m \in 1 .. n |-> m]
  <2>1. Truncate(s, n) = t
    BY <1>3 DEF Truncate
  <2>2. t \in Seq(Route) /\ Len(t) = n /\ \A m \in 1 .. n : t[m] = s[m]
    BY <1>3
  <2> HIDE DEF t
  <2>3. DOMAIN t = 1 .. n
    BY <2>2
  <2>4. PartOf(t, s)
    <3>1. pos \in [DOMAIN t -> DOMAIN s]
      BY <2>3, <1>3
    <3>2. \A m \in DOMAIN t : pos[m] = m
      BY <2>3
    <3> HIDE DEF pos
    <3> QED
      BY <3>1, <3>2, <2>2, <2>3 DEF PartOf
  <2>5. (HasP2p(s) /\ FIRST_LATENCY) => HasP2p(t)
    <3> SUFFICES ASSUME HasP2p(s), FIRST_LATENCY PROVE HasP2p(t)
      OBVIOUS
    <3>1. PICK i \in P2pPositions(s) : ~(i > n)
      BY <1>3 DEF HasP2p
    <3>2. i \in DOMAIN t /\ IsP2p(t[i])
      BY <3>1, <2>2, <2>3 DEF P2pPositions
    <3> QED
      BY <3>2 DEF HasP2p, P2pPositions
  <2> QED
    BY <1>3, <2>1, <2>2, <2>4, <2>5
<1> QED
  BY <1>1, <1>2, <1>3

-----------------------------------------------------------------------------
(* The new list consists of routes of the old one and of r. *)
MadeOf(t, s, r) ==
    \A n \in DOMAIN t : t[n] = r \/ \E i \in DOMAIN s : t[n] = s[i]

GoodList(s) ==
    /\ s \in Seq(Route)
    /\ Distinct(s)
    /\ Len(s) <= MaxLen

LEMMA MaxLenType == MaxLen \in Nat \ {0} /\ CHANNEL_NUM <= MaxLen
BY ChannelNumAssumption DEF MaxLen

(* The branch "exist" of add_route_. *)
LEMMA UpdateExistingProperties ==
    ASSUME NEW s, GoodList(s), NEW r \in Route, s # << >>
    PROVE  /\ GoodList(UpdateExisting(s, r))
           /\ UpdateExisting(s, r) # << >>
           /\ MadeOf(UpdateExisting(s, r), s, r)
<1> DEFINE updated == [i \in DOMAIN s |-> IF s[i].key = r.key THEN r ELSE s[i]]
           sorted == SortByRt(updated)
           limit == IF FIRST_LATENCY THEN CHANNEL_NUM + 2 ELSE CHANNEL_NUM
           t == UpdateExisting(s, r)
<1>1. s \in Seq(Route) /\ Distinct(s) /\ Len(s) <= MaxLen /\ Len(s) \in Nat \ {0}
  BY DEF GoodList
<1>2. limit \in Nat \ {0}
  BY ChannelNumAssumption
<1>3. /\ updated \in Seq(Route) /\ Len(updated) = Len(s)
      /\ DOMAIN updated = DOMAIN s
      /\ \A i \in DOMAIN s : updated[i].key = s[i].key
      /\ \A i \in DOMAIN s : updated[i] = r \/ updated[i] = s[i]
  BY <1>1
<1>4. Distinct(updated)
  BY <1>1, <1>3 DEF Distinct
<1> HIDE DEF updated, limit
<1>5. /\ sorted \in Seq(Route) /\ Len(sorted) = Len(s) /\ PartOf(sorted, updated)
  BY <1>3, SortByRtProperties
<1> HIDE DEF sorted
<1>6. t = IF \E i \in DOMAIN sorted : sorted[i].rt = DEFAULT_RT
          THEN sorted ELSE Truncate(sorted, limit)
  BY DEF UpdateExisting, sorted, updated, limit
<1> HIDE DEF t
<1>7. /\ t \in Seq(Route) /\ Len(t) <= Len(s) /\ Len(t) # 0 /\ PartOf(t, updated)
  <2>1. CASE t = sorted
    BY <2>1, <1>1, <1>5
  <2>2. CASE t = Truncate(sorted, limit)
    <3>1. /\ t \in Seq(Route) /\ PartOf(t, sorted)
          /\ Len(t) = IF Len(sorted) <= limit THEN Len(sorted) ELSE limit
      BY <2>2, <1>2, <1>5, TruncateProperties
    <3>2. PartOf(t, updated)
      BY <3>1, <1>5, PartOfTransitive
    <3> QED
      BY <3>1, <3>2, <1>1, <1>2, <1>5
  <2> QED
    BY <1>6, <2>1, <2>2
<1>8. Distinct(t)
  BY <1>4, <1>7, PartOfDistinct
<1>9. Len(t) <= MaxLen /\ t # << >>
  BY <1>7, <1>1, MaxLenType
<1>10. MadeOf(t, s, r)
  BY <1>7, <1>3 DEF PartOf, MadeOf
<1> QED
  BY <1>7, <1>8, <1>9, <1>10 DEF GoodList, t

(* The branch of add_route_ for a new key. *)
LEMMA AddNewProperties ==
    ASSUME NEW s, GoodList(s), NEW r \in Route, PositionsOf(s, r.key) = {}
    PROVE  /\ GoodList(AddNew(s, r))
           /\ AddNew(s, r) # << >>
           /\ MadeOf(AddNew(s, r), s, r)
<1> DEFINE kept == IF ~ FIRST_LATENCY /\ IsP2p(r) THEN RetainP2p(s) ELSE s
           cut == Truncate(SortByRt(kept), CHANNEL_NUM * 2)
           t == AddNew(s, r)
<1>1. s \in Seq(Route) /\ Distinct(s) /\ Len(s) <= MaxLen /\ Len(s) \in Nat
  BY DEF GoodList
<1>2. PartOf(s, s)
  BY <1>1, TruncateProperties, MaxLenType DEF Truncate
<1>3. kept \in Seq(Route) /\ Len(kept) <= Len(s) /\ PartOf(kept, s)
  BY <1>1, <1>2, RetainP2pProperties
<1> HIDE DEF kept
<1>4. /\ SortByRt(kept) \in Seq(Route) /\ Len(SortByRt(kept)) = Len(kept)
      /\ PartOf(SortByRt(kept), kept)
  BY <1>3, SortByRtProperties
<1>5. CHANNEL_NUM * 2 \in Nat \ {0}
  BY ChannelNumAssumption
<1>6. /\ cut \in Seq(Route) /\ PartOf(cut, SortByRt(kept))
      /\ Len(cut) = IF Len(kept) <= CHANNEL_NUM * 2 THEN Len(kept) ELSE CHANNEL_NUM * 2
  BY <1>4, <1>5, TruncateProperties
<1>7. PartOf(cut, s)
  BY <1>3, <1>4, <1>6, PartOfTransitive
<1>8. t = IF ~ FIRST_LATENCY /\ CHANNEL_NUM <= Len(kept) THEN kept ELSE Append(cut, r)
  BY DEF AddNew, kept
<1> HIDE DEF cut, t
<1>9. CASE ~ FIRST_LATENCY /\ CHANNEL_NUM <= Len(kept)
  <2>1. t = kept
    BY <1>8, <1>9
  <2>2. Distinct(t)
    BY <2>1, <1>1, <1>3, PartOfDistinct
  <2>3. t # << >> /\ Len(t) <= MaxLen
    BY <2>1, <1>1, <1>3, <1>9, ChannelNumAssumption, MaxLenType
  <2>4. MadeOf(t, s, r)
    BY <2>1, <1>3 DEF PartOf, MadeOf
  <2> QED
    BY <2>1, <2>2, <2>3, <2>4, <1>3 DEF GoodList, t
<1>10. CASE ~ (~ FIRST_LATENCY /\ CHANNEL_NUM <= Len(kept))
  <2>1. t = Append(cut, r)
    BY <1>8, <1>10
  <2>2. /\ t \in Seq(Route) /\ Len(t) = Len(cut) + 1 /\ DOMAIN t = 1 .. Len(cut) + 1
        /\ \A n \in 1 .. Len(cut) : t[n] = cut[n]
        /\ t[Len(cut) + 1] = r
    BY <2>1, <1>6
  <2>3. Len(t) <= MaxLen
    BY <2>2, <1>3, <1>6, <1>10, ChannelNumAssumption, ModeAssumption DEF MaxLen
  <2>4. Distinct(cut)
    BY <1>1, <1>7, PartOfDistinct
  <2>5. DOMAIN cut = 1 .. Len(cut) /\ Len(cut) \in Nat
    BY <1>6
  <2>6. \A n \in DOMAIN cut : \E i \in DOMAIN s : cut[n] = s[i]
    BY <1>7 DEF PartOf
  <2>7. \A n \in DOMAIN cut : cut[n].key # r.key
    BY <2>6 DEF PositionsOf
  <2>8. Distinct(t)
    BY <2>2, <2>4, <2>5, <2>7 DEF Distinct
  <2>9. MadeOf(t, s, r)
    BY <2>2, <2>5, <2>6 DEF MadeOf
  <2>10. t # << >>
    BY <2>2, <2>5
  <2> QED
    BY <2>2, <2>3, <2>8, <2>9, <2>10 DEF GoodList, t
<1> QED
  BY <1>9, <1>10

(* The write-locked part of add_route_ as a whole. *)
LEMMA WriteRouteProperties ==
    ASSUME NEW s, GoodList(s), NEW r \in Route, NEW absent \in BOOLEAN
    PROVE  /\ GoodList(WriteRoute(s, r, absent))
           /\ WriteRoute(s, r, absent) # << >>
           /\ MadeOf(WriteRoute(s, r, absent), s, r)
<1>1. MadeOf(s, s, r)
  BY DEF MadeOf
<1>2. s \in Seq(Route)
  BY DEF GoodList
<1>3. CASE ScanRejects(s, r)
  <2>1. s # << >>
    BY <1>2, <1>3 DEF ScanRejects
  <2> QED
    BY <1>1, <1>3, <2>1 DEF WriteRoute
<1>4. CASE ~ ScanRejects(s, r) /\ PositionsOf(s, r.key) # {}
  <2>1. s # << >>
    BY <1>2, <1>4 DEF PositionsOf
  <2> QED
    BY <1>1, <1>4, <2>1, UpdateExistingProperties DEF WriteRoute
<1>5. CASE ~ ScanRejects(s, r) /\ PositionsOf(s, r.key) = {}
  BY <1>5, AddNewProperties DEF WriteRoute
<1> QED
  BY <1>3, <1>4, <1>5

-----------------------------------------------------------------------------
(* The inductive invariant: every list in the map is a good one, and what  *)
(* a receiver carries from the read lock to the write lock passed the      *)
(* channel-type test (without it OnlyDirectInP2pMode is not inductive).    *)
AllP2p(s) == \A i \in DOMAIN s : IsP2p(s[i])
SoundList(s) == GoodList(s) /\ s # << >> /\ (ONLY_P2P => AllP2p(s))
Carried == [id : Ids, route : Route] \cup {NONE}

IInv ==
    /\ DOMAIN table \subseteq Ids
    /\ table = [id \in DOMAIN table |-> table[id]]
    /\ \A id \in DOMAIN table : SoundList(table[id])
    /\ adding \in [Receivers -> Carried]
    /\ \A w \in Receivers : adding[w] # NONE => ChannelAllowed(adding[w].route)
    /\ reaping \in [id : Ids, key : Keys] \cup {NONE}

LEMMA NewRouteType ==
    ASSUME NEW k \in Keys, NEW m \in Metrics, NEW t \in Rts \cup {DEFAULT_RT}
    PROVE  NewRoute(k, m, t) \in Route
BY ReadIdleAssumption DEF NewRoute, Route

(* The list add_route_ works on is good: the entry's, or the empty Vec     *)
(* that or_insert_with creates.                                            *)
LEMMA ListOfGood ==
    ASSUME IInv, NEW id \in Ids
    PROVE  GoodList(ListOf(id)) /\ (ONLY_P2P => AllP2p(ListOf(id)))
<1>1. CASE id \in DOMAIN table
  BY <1>1 DEF IInv, SoundList, ListOf
<1>2. CASE id \notin DOMAIN table
  <2>1. << >> \in Seq(Route) /\ Len(<< >>) = 0 /\ DOMAIN << >> = {}
    OBVIOUS
  <2> QED
    BY <1>2, <2>1, MaxLenType DEF ListOf, GoodList, Distinct, AllP2p
<1> QED
  BY <1>1, <1>2

(* Storing the result of add_route_ keeps every list sound. *)
LEMMA WriteSound ==
    ASSUME IInv, NEW id \in Ids, NEW r \in Route, NEW absent \in BOOLEAN,
           ChannelAllowed(r), PutList(id, WriteRoute(ListOf(id), r, absent))
    PROVE  /\ DOMAIN table' \subseteq Ids
           /\ table' = [x \in DOMAIN table' |-> table'[x]]
           /\ \A x \in DOMAIN table' : SoundList(table'[x])
<1> DEFINE t == WriteRoute(ListOf(id), r, absent)
<1>1. GoodList(ListOf(id)) /\ (ONLY_P2P => AllP2p(ListOf(id)))
  BY ListOfGood
<1>2. GoodList(t) /\ t # << >> /\ MadeOf(t, ListOf(id), r)
  BY <1>1, WriteRouteProperties
<1>3. ONLY_P2P => AllP2p(t)
  BY <1>1, <1>2 DEF MadeOf, AllP2p, ChannelAllowed
<1>4. SoundList(t)
  BY <1>2, <1>3 DEF SoundList
<1> HIDE DEF t
<1>5. table' = [x \in DOMAIN table \cup {id} |-> IF x = id THEN t ELSE table[x]]
  BY DEF PutList, t
<1>6. \A x \in DOMAIN table : SoundList(table[x])
  BY DEF IInv
<1>7. DOMAIN table' = DOMAIN table \cup {id}
  BY <1>5
<1>8. \A x \in DOMAIN table' : table'[x] = IF x = id THEN t ELSE table[x]
  BY <1>5
<1> QED
  BY <1>4, <1>5, <1>6, <1>7, <1>8 DEF IInv

(* Changing only the ages of a list keeps it sound. *)
LEMMA AgesSound ==
    ASSUME NEW s, SoundList(s), NEW t \in Seq(Route), Len(t) = Len(s),
           \A i \in DOMAIN s : t[i].key = s[i].key /\ t[i].metric = s[i].metric
    PROVE  SoundList(t)
<1>1. s \in Seq(Route)
  BY DEF SoundList, GoodList
<1>2. DOMAIN s = DOMAIN t /\ (s # << >> => t # << >>)
  BY <1>1
<1>3. Distinct(t)
  BY <1>2 DEF SoundList, GoodList, Distinct
<1>4. ONLY_P2P => AllP2p(t)
  BY <1>2 DEF SoundList, AllP2p, IsP2p
<1> QED
  BY <1>2, <1>3, <1>4 DEF SoundList, GoodList

(* Init and every action establish the inductive invariant. *)
LEMMA InitIInv == Init => IInv
BY DEF Init, IInv, Carried

LEMMA NextIInv == IInv /\ [Next]_vars => IInv'
<1> SUFFICES ASSUME IInv, [Next]_vars PROVE IInv'
  OBVIOUS
<1>1. ASSUME NEW id \in Ids, NEW k \in Keys, NEW m \in Metrics, NEW t \in Rts,
             AddRoute(id, k, m, t)
      PROVE  IInv'
  <2> DEFINE r == NewRoute(k, m, t)
  <2>1. r \in Route
    BY NewRouteType
  <2> HIDE DEF r
  <2>2. ChannelAllowed(r) /\ PutList(id, WriteRoute(ListOf(id), r, FALSE))
        /\ UNCHANGED <<adding, reaping>>
    BY <1>1 DEF AddRoute, r
  <2>3. /\ DOMAIN table' \subseteq Ids
        /\ table' = [x \in DOMAIN table' |-> table'[x]]
        /\ \A x \in DOMAIN table' : SoundList(table'[x])
    BY <2>1, <2>2, WriteSound
  <2> QED
    BY <2>2, <2>3 DEF IInv
<1>2. ASSUME NEW w \in Receivers, NEW id \in Ids, NEW k \in Keys, NEW m \in Metrics,
             AddIfAbsentCheck(w, id, k, m)
      PROVE  IInv'
  <2> DEFINE r == NewRoute(k, m, DEFAULT_RT)
  <2>1. r \in Route
    BY NewRouteType
  <2> HIDE DEF r
  <2>2. /\ ChannelAllowed(r) /\ UNCHANGED <<table, reaping>>
        /\ adding' = [adding EXCEPT ![w] = [id |-> id, route |-> r]]
    BY <1>2 DEF AddIfAbsentCheck, r
  <2>3. adding \in [Receivers -> Carried]
    BY DEF IInv
  <2>4. [id |-> id, route |-> r] \in Carried
    BY <2>1 DEF Carried
  <2>5. adding' \in [Receivers -> Carried]
    BY <2>2, <2>3, <2>4
  <2>6. \A v \in Receivers : adding'[v] # NONE => ChannelAllowed(adding'[v].route)
    <3> SUFFICES ASSUME NEW v \in Receivers, adding'[v] # NONE
                 PROVE  ChannelAllowed(adding'[v].route)
      OBVIOUS
    <3>1. CASE v = w
      <4>1. adding'[v].route = r
        BY <3>1, <2>2, <2>3
      <4> QED
        BY <4>1, <2>2
    <3>2. CASE v # w
      <4>1. adding'[v] = adding[v]
        BY <3>2, <2>2, <2>3
      <4> QED
        BY <4>1 DEF IInv
    <3> QED
      BY <3>1, <3>2
  <2> QED
    BY <2>2, <2>5, <2>6 DEF IInv
<1>3. ASSUME NEW w \in Receivers, AddIfAbsentWrite(w)
      PROVE  IInv'
  <2>1. adding[w] \in [id : Ids, route : Route] /\ ChannelAllowed(adding[w].route)
    BY <1>3 DEF AddIfAbsentWrite, IInv, Carried
  <2>2. adding[w].id \in Ids /\ adding[w].route \in Route
    BY <2>1
  <2>3. /\ PutList(adding[w].id, WriteRoute(ListOf(adding[w].id), adding[w].route, TRUE))
        /\ adding' = [adding EXCEPT ![w] = NONE] /\ UNCHANGED reaping
    BY <1>3 DEF AddIfAbsentWrite
  <2>4. /\ DOMAIN table' \subseteq Ids
        /\ table' = [x \in DOMAIN table' |-> table'[x]]
        /\ \A x \in DOMAIN table' : SoundList(table'[x])
    BY <2>1, <2>2, <2>3, WriteSound
  <2>5. adding' \in [Receivers -> Carried]
    BY <2>3 DEF IInv, Carried
  <2>6. \A v \in Receivers : adding'[v] # NONE => adding'[v] = adding[v]
    BY <2>3 DEF IInv
  <2> QED
    BY <2>3, <2>4, <2>5, <2>6 DEF IInv
<1>4. ASSUME NEW id \in Ids, NEW k \in Keys, UpdateReadTime(id, k)
      PROVE  IInv'
  <2> DEFINE s == table[id]
             t == [i \in DOMAIN s |-> IF s[i].key = k THEN [s[i] EXCEPT !.age = 0] ELSE s[i]]
  <2>1. id \in DOMAIN table /\ table' = [table EXCEPT ![id] = t] /\ UNCHANGED <<adding, reaping>>
    BY <1>4 DEF UpdateReadTime
  <2>2. SoundList(s) /\ s \in Seq(Route)
    BY <2>1 DEF IInv, SoundList, GoodList
  <2> HIDE DEF s
  <2>3. \A i \in DOMAIN s : s[i] \in Route
    BY <2>2
  <2>4. /\ \A i \in DOMAIN s : /\ t[i] \in Route /\ t[i].key = s[i].key
                              /\ t[i].metric = s[i].metric
    BY <2>3, ReadIdleAssumption DEF Route
  <2>5. t \in Seq(Route) /\ Len(t) = Len(s)
    BY <2>2, <2>4
  <2> HIDE DEF t
  <2>6. SoundList(t)
    BY <2>2, <2>4, <2>5, AgesSound
  <2>7. DOMAIN table' = DOMAIN table /\ table' = [x \in DOMAIN table' |-> table'[x]]
        /\ \A x \in DOMAIN table' : table'[x] = IF x = id THEN t ELSE table[x]
    BY <2>1 DEF IInv
  <2>8. \A x \in DOMAIN table' : SoundList(table'[x])
    BY <2>6, <2>7 DEF IInv
  <2> QED
    BY <2>1, <2>7, <2>8 DEF IInv
<1>5. ASSUME NEW id \in DOMAIN table, NEW i \in DOMAIN table[id], NextIdle(id, i)
      PROVE  IInv'
  <2>1. id \in Ids /\ table[id] \in Seq(Route)
    BY DEF IInv, SoundList, GoodList
  <2>2. table[id][i] \in Route
    BY <2>1
  <2>3. table[id][i].key \in Keys
    BY <2>2 DEF Route
  <2> QED
    BY <1>5, <2>1, <2>3 DEF NextIdle, IInv
<1>6. CASE RemoveRoute
  <2> DEFINE id == reaping.id
             k == reaping.key
             t == RetainOther(table[id], k)
  <2>1. table' = WithoutRoute(table, id, k) /\ reaping' = NONE /\ UNCHANGED adding
    BY <1>6 DEF RemoveRoute
  <2> HIDE DEF id, k
  <2>2. CASE id \notin DOMAIN table
    BY <2>1, <2>2 DEF WithoutRoute, IInv
  <2>3. CASE id \in DOMAIN table /\ t = << >>
    <3>1. table' = [x \in DOMAIN table \ {id} |-> table[x]]
      BY <2>1, <2>3 DEF WithoutRoute
    <3>2. DOMAIN table' = DOMAIN table \ {id} /\ \A x \in DOMAIN table' : table'[x] = table[x]
      BY <3>1
    <3> QED
      BY <2>1, <3>1, <3>2 DEF IInv
  <2>4. CASE id \in DOMAIN table /\ t # << >>
    <3>1. table' = [table EXCEPT ![id] = t]
      BY <2>1, <2>4 DEF WithoutRoute
    <3>2. SoundList(table[id])
      BY <2>4 DEF IInv
    <3>3. /\ t \in Seq(Route) /\ Len(t) <= Len(table[id]) /\ PartOf(t, table[id])
      BY <3>2, RetainOtherProperties DEF SoundList, GoodList
    <3>4. Distinct(t)
      BY <3>2, <3>3, PartOfDistinct DEF SoundList, GoodList
    <3>5. ONLY_P2P => AllP2p(t)
      BY <3>2, <3>3 DEF SoundList, AllP2p, PartOf
    <3>6. Len(t) <= MaxLen
      BY <3>2, <3>3, MaxLenType DEF SoundList, GoodList
    <3>7. SoundList(t)
      BY <2>4, <3>3, <3>4, <3>5, <3>6 DEF SoundList, GoodList
    <3> HIDE DEF t
    <3>8. DOMAIN table' = DOMAIN table /\ table' = [x \in DOMAIN table' |-> table'[x]]
          /\ \A x \in DOMAIN table' : table'[x] = IF x = id THEN t ELSE table[x]
      BY <3>1 DEF IInv
    <3>9. \A x \in DOMAIN table' : SoundList(table'[x])
      BY <3>7, <3>8 DEF IInv
    <3> QED
      BY <2>1, <3>8, <3>9 DEF IInv
  <2> QED
    BY <2>2, <2>3, <2>4
<1>7. CASE Tick
  <2> DEFINE older(x) == [x EXCEPT !.age = IF @ < READ_IDLE THEN @ + 1 ELSE @]
  <2>1. table' = [id \in DOMAIN table |-> [i \in DOMAIN table[id] |-> older(table[id][i])]]
        /\ UNCHANGED <<adding, reaping>>
    BY <1>7 DEF Tick
  <2>2. ASSUME NEW id \in DOMAIN table
        PROVE  SoundList(table'[id])
    <3> DEFINE s == table[id]
               t == [i \in DOMAIN s |-> older(s[i])]
    <3>1. SoundList(s) /\ s \in Seq(Route)
      BY DEF IInv, SoundList, GoodList
    <3>2. table'[id] = t
      BY <2>1
    <3> HIDE DEF s
    <3>3. \A i \in DOMAIN s : s[i] \in Route
      BY <3>1
    <3>4. \A i \in DOMAIN s : /\ t[i] \in Route /\ t[i].key = s[i].key
                             /\ t[i].metric = s[i].metric
      BY <3>3, ReadIdleAssumption DEF Route
    <3>5. t \in Seq(Route) /\ Len(t) = Len(s)
      BY <3>1, <3>4
    <3> HIDE DEF t
    <3> QED
      BY <3>1, <3>2, <3>4, <3>5, AgesSound
  <2>3. DOMAIN table' = DOMAIN table /\ table' = [x \in DOMAIN table' |-> table'[x]]
    BY <2>1
  <2> QED
    BY <2>1, <2>2, <2>3 DEF IInv
<1>8. CASE UNCHANGED vars
  BY <1>8 DEF vars, IInv
<1> QED
  BY <1>1, <1>2, <1>3, <1>4, <1>5, <1>6, <1>7, <1>8 DEF Next

(* The inductive invariant holds in every reachable state. *)
THEOREM Invariance == Spec => []IInv
BY InitIInv, NextIInv, PTL DEF Spec

(* The route table and what the threads carry are well typed, whatever the *)
(* number of ids, keys and receivers.                                      *)
THEOREM TypeCorrect == Spec => []TypeOK
<1>1. IInv => TypeOK
  BY DEF IInv, TypeOK, SoundList, GoodList, Carried
<1> QED
  BY <1>1, Invariance, PTL

(* No list ever holds two routes with one RouteKey, for any number of      *)
(* receivers racing between the read lock and the write lock.              *)
THEOREM KeysUnique == Spec => []UniqueKeys
<1>1. IInv => UniqueKeys
  BY DEF IInv, UniqueKeys, SoundList, GoodList, Distinct
<1> QED
  BY <1>1, Invariance, PTL

(* The lists stay within the bound, for every channel_num. *)
THEOREM LengthsBounded == Spec => []LengthBounded
<1>1. IInv => LengthBounded
  BY DEF IInv, LengthBounded, SoundList, GoodList
<1> QED
  BY <1>1, Invariance, PTL

(* The map never keeps an id without a route. *)
THEOREM NoEntryEmpty == Spec => []NoEmptyEntry
<1>1. IInv => NoEmptyEntry
  BY DEF IInv, NoEmptyEntry, SoundList
<1> QED
  BY <1>1, Invariance, PTL

(* In p2p mode only direct routes are ever in the table. *)
THEOREM OnlyDirect == Spec => []OnlyDirectInP2pMode
<1>1. IInv => OnlyDirectInP2pMode
  BY DEF IInv, OnlyDirectInP2pMode, SoundList, AllP2p
<1> QED
  BY <1>1, Invariance, PTL

(* ListsSound for any number of ids, keys and receivers: no interleaving   *)
(* of the locked sections of the route table breaks a list.                *)
THEOREM ListsAreSound == Spec => []ListsSound
BY TypeCorrect, KeysUnique, LengthsBounded, NoEntryEmpty, PTL DEF ListsSound

-----------------------------------------------------------------------------
(* What a step does to the paths of one id, t the list after it, s before: *)
(* the body of NeverLonger.                                                *)
NoLonger(t, s) ==
    \A i \in DOMAIN t : \A j \in DOMAIN s :
        (s[j].key = t[i].key \/ PositionsOf(s, t[i].key) = {})
            => t[i].metric <= s[j].metric

LEMMA MetricType ==
    ASSUME NEW x \in Route
    PROVE  x.metric \in Nat
<1>1. x.metric \in Metrics
  BY DEF Route
<1> QED
  BY <1>1, MetricsAssumption

(* A list with only keys and metrics of the old one has no longer path. *)
LEMMA NothingNewNoLonger ==
    ASSUME NEW s \in Seq(Route), Distinct(s), NEW t,
           \A n \in DOMAIN t : \E i \in DOMAIN s :
               t[n].key = s[i].key /\ t[n].metric = s[i].metric
    PROVE  NoLonger(t, s)
<1> SUFFICES ASSUME NEW n \in DOMAIN t, NEW j \in DOMAIN s,
                    s[j].key = t[n].key \/ PositionsOf(s, t[n].key) = {}
             PROVE  t[n].metric <= s[j].metric
  BY DEF NoLonger
<1>1. PICK i \in DOMAIN s : t[n].key = s[i].key /\ t[n].metric = s[i].metric
  OBVIOUS
<1>2. i = j
  BY <1>1 DEF PositionsOf, Distinct
<1>3. s[j] \in Route
  OBVIOUS
<1>4. s[j].metric \in Nat
  BY <1>3, MetricType
<1> QED
  BY <1>1, <1>2, <1>4

(* add_route_ adds no longer path: its scan, which stops at the position   *)
(* of the key, has compared the metric with every route that matters.      *)
LEMMA WriteNoLonger ==
    ASSUME NEW s, GoodList(s), NEW r \in Route, NEW absent \in BOOLEAN,
           ~ FIRST_LATENCY
    PROVE  NoLonger(WriteRoute(s, r, absent), s)
<1> DEFINE t == WriteRoute(s, r, absent)
<1>1. s \in Seq(Route) /\ Distinct(s) /\ MadeOf(t, s, r)
  BY WriteRouteProperties DEF GoodList
<1>2. CASE ScanRejects(s, r)
  <2>1. t = s
    BY <1>2 DEF WriteRoute
  <2> QED
    BY <2>1, <1>1, NothingNewNoLonger
<1>3. CASE ~ ScanRejects(s, r)
  <2> HIDE DEF t
  <2> SUFFICES ASSUME NEW n \in DOMAIN t, NEW j \in DOMAIN s,
                      s[j].key = t[n].key \/ PositionsOf(s, t[n].key) = {}
               PROVE  t[n].metric <= s[j].metric
    BY DEF NoLonger, t
  <2>1. s[j] \in Route
    BY <1>1
  <2>2. s[j].metric \in Nat /\ r.metric \in Nat
    BY <2>1, MetricType
  <2>3. CASE \E i \in DOMAIN s : t[n] = s[i]
    <3>1. PICK i \in DOMAIN s : t[n] = s[i]
      BY <2>3
    <3>2. i = j
      BY <3>1, <1>1 DEF PositionsOf, Distinct
    <3> QED
      BY <3>1, <3>2, <2>2
  <2>4. CASE t[n] = r
    <3>1. \A p \in PositionsOf(s, r.key) : p = j
      BY <2>4, <1>1 DEF PositionsOf, Distinct
    <3>2. j \in Nat
      BY <1>1
    <3>3. ~ (s[j].metric < r.metric)
      BY <3>1, <3>2, <1>3 DEF ScanRejects
    <3> QED
      BY <2>2, <2>4, <3>3
  <2> QED
    BY <1>1, <2>3, <2>4 DEF MadeOf
<1> QED
  BY <1>2, <1>3

(* Replacing the list of one id leaves the paths of the others alone. *)
LEMMA PutNoLonger ==
    ASSUME IInv, NEW id \in Ids, NEW r \in Route, NEW absent \in BOOLEAN,
           PutList(id, WriteRoute(ListOf(id), r, absent)), ~ FIRST_LATENCY
    PROVE  \A x \in DOMAIN table' : NoLonger(table'[x], ListOf(x))
<1> DEFINE t == WriteRoute(ListOf(id), r, absent)
<1>1. NoLonger(t, ListOf(id))
  BY ListOfGood, WriteNoLonger
<1> HIDE DEF t
<1>2. table' = [x \in DOMAIN table \cup {id} |-> IF x = id THEN t ELSE table[x]]
  BY DEF PutList, t
<1>3. ASSUME NEW x \in DOMAIN table', x # id
      PROVE  NoLonger(table'[x], ListOf(x))
  <2>1. x \in DOMAIN table /\ table'[x] = table[x] /\ ListOf(x) = table[x]
    BY <1>2, <1>3 DEF ListOf
  <2>2. table[x] \in Seq(Route) /\ Distinct(table[x])
    BY <2>1 DEF IInv, SoundList, GoodList
  <2> QED
    BY <2>1, <2>2, NothingNewNoLonger
<1>4. id \in DOMAIN table' => table'[id] = t
  BY <1>2
<1> QED
  BY <1>1, <1>3, <1>4

(* In hop-count mode no step of any thread lengthens a path. *)
LEMMA NextNoLonger ==
    ASSUME IInv, Next, ~ FIRST_LATENCY
    PROVE  \A x \in DOMAIN table' : NoLonger(table'[x], ListOf(x))
<1>1. ASSUME NEW id \in Ids, NEW k \in Keys, NEW m \in Metrics, NEW t \in Rts,
             AddRoute(id, k, m, t)
      PROVE  \A x \in DOMAIN table' : NoLonger(table'[x], ListOf(x))
  <2>1. NewRoute(k, m, t) \in Route
    BY NewRouteType
  <2>2. PutList(id, WriteRoute(ListOf(id), NewRoute(k, m, t), FALSE))
    BY <1>1 DEF AddRoute
  <2> QED
    BY <2>1, <2>2, PutNoLonger
<1>2. ASSUME NEW w \in Receivers, AddIfAbsentWrite(w)
      PROVE  \A x \in DOMAIN table' : NoLonger(table'[x], ListOf(x))
  <2>1. adding[w] \in [id : Ids, route : Route]
    BY <1>2 DEF AddIfAbsentWrite, IInv, Carried
  <2>2. adding[w].id \in Ids /\ adding[w].route \in Route
    BY <2>1
  <2>3. PutList(adding[w].id, WriteRoute(ListOf(adding[w].id), adding[w].route, TRUE))
    BY <1>2 DEF AddIfAbsentWrite
  <2> QED
    BY <2>2, <2>3, PutNoLonger
<1>3. ASSUME \A x \in DOMAIN table' :
                /\ x \in DOMAIN table
                /\ \A n \in DOMAIN table'[x] : \E i \in DOMAIN table[x] :
                      /\ table'[x][n].key = table[x][i].key
                      /\ table'[x][n].metric = table[x][i].metric
      PROVE  \A x \in DOMAIN table' : NoLonger(table'[x], ListOf(x))
  <2> SUFFICES ASSUME NEW x \in DOMAIN table' PROVE NoLonger(table'[x], ListOf(x))
    OBVIOUS
  <2>1. x \in DOMAIN table /\ ListOf(x) = table[x]
    BY <1>3 DEF ListOf
  <2>2. table[x] \in Seq(Route) /\ Distinct(table[x])
    BY <2>1 DEF IInv, SoundList, GoodList
  <2> QED
    BY <1>3, <2>1, <2>2, NothingNewNoLonger
<1>4. CASE UNCHANGED table
  BY <1>3, <1>4
<1>5. ASSUME NEW id \in Ids, NEW k \in Keys, UpdateReadTime(id, k)
      PROVE  \A x \in DOMAIN table' : NoLonger(table'[x], ListOf(x))
  <2> DEFINE s == table[id]
             t == [i \in DOMAIN s |-> IF s[i].key = k THEN [s[i] EXCEPT !.age = 0] ELSE s[i]]
  <2>1. id \in DOMAIN table /\ table' = [table EXCEPT ![id] = t]
    BY <1>5 DEF UpdateReadTime
  <2>2. s \in Seq(Route)
    BY <2>1 DEF IInv, SoundList, GoodList
  <2> HIDE DEF s
  <2>3. \A i \in DOMAIN s : s[i] \in Route
    BY <2>2
  <2>4. DOMAIN t = DOMAIN s
        /\ \A i \in DOMAIN s : t[i].key = s[i].key /\ t[i].metric = s[i].metric
    BY <2>3 DEF Route
  <2> HIDE DEF t
  <2>5. DOMAIN table' = DOMAIN table
        /\ \A x \in DOMAIN table' : table'[x] = IF x = id THEN t ELSE table[x]
    BY <2>1 DEF IInv
  <2> QED
    BY <2>4, <2>5, <1>3 DEF s
<1>6. CASE RemoveRoute
  <2> DEFINE id == reaping.id
             k == reaping.key
             t == RetainOther(table[id], k)
  <2>1. table' = WithoutRoute(table, id, k)
    BY <1>6 DEF RemoveRoute
  <2> HIDE DEF id, k
  <2>2. CASE id \notin DOMAIN table
    BY <2>1, <2>2, <1>4 DEF WithoutRoute
  <2>3. CASE id \in DOMAIN table
    <3>1. table[id] \in Seq(Route)
      BY <2>3 DEF IInv, SoundList, GoodList
    <3>2. PartOf(t, table[id])
      BY <3>1, RetainOtherProperties
    <3> HIDE DEF t
    <3>3. /\ DOMAIN table' \subseteq DOMAIN table
          /\ \A x \in DOMAIN table' : table'[x] = IF x = id THEN t ELSE table[x]
      BY <2>1, <2>3 DEF WithoutRoute, t, IInv
    <3>4. \A n \in DOMAIN t : \E i \in DOMAIN table[id] : t[n] = table[id][i]
      BY <3>2 DEF PartOf
    <3> QED
      BY <3>3, <3>4, <1>3
  <2> QED
    BY <2>2, <2>3
<1>7. CASE Tick
  <2> DEFINE older(x) == [x EXCEPT !.age = IF @ < READ_IDLE THEN @ + 1 ELSE @]
  <2>1. table' = [id \in DOMAIN table |-> [i \in DOMAIN table[id] |-> older(table[id][i])]]
    BY <1>7 DEF Tick
  <2>2. \A x \in DOMAIN table : \A i \in DOMAIN table[x] : table[x][i] \in Route
    BY DEF IInv, SoundList, GoodList
  <2>3. ASSUME NEW x \in DOMAIN table, NEW i \in DOMAIN table[x]
        PROVE  /\ older(table[x][i]).key = table[x][i].key
               /\ older(table[x][i]).metric = table[x][i].metric
    BY <2>2 DEF Route
  <2> HIDE DEF older
  <2> QED
    BY <2>1, <2>3, <1>3
<1>8. ASSUME NEW w \in Receivers, NEW id \in Ids, NEW k \in Keys, NEW m \in Metrics,
             AddIfAbsentCheck(w, id, k, m)
      PROVE  UNCHANGED table
  BY <1>8 DEF AddIfAbsentCheck
<1>9. ASSUME NEW id \in DOMAIN table, NEW i \in DOMAIN table[id], NextIdle(id, i)
      PROVE  UNCHANGED table
  BY <1>9 DEF NextIdle
<1> QED
  BY <1>1, <1>2, <1>4, <1>5, <1>6, <1>7, <1>8, <1>9 DEF Next

(* Unless latency comes first, no step of any number of receivers and of   *)
(* the idle task makes a path longer.                                      *)
THEOREM PathsNeverLonger == Spec => NeverLonger
<1> DEFINE A == ~ FIRST_LATENCY =>
                  \A id \in DOMAIN table' : \A i \in DOMAIN table'[id] :
                     \A j \in DOMAIN ListOf(id) :
                        LET new == table'[id][i]
                            old == ListOf(id)[j]
                        IN  (old.key = new.key \/ PositionsOf(ListOf(id), new.key) = {})
                               => new.metric <= old.metric
<1>1. IInv /\ [Next]_vars => [A]_vars
  <2> SUFFICES ASSUME IInv, Next, ~ FIRST_LATENCY PROVE A
    OBVIOUS
  <2>1. \A x \in DOMAIN table' : NoLonger(table'[x], ListOf(x))
    BY NextNoLonger
  <2> QED
    BY <2>1 DEF NoLonger
<1>2. Spec => [][A]_vars
  <2> HIDE DEF A
  <2> QED
    BY <1>1, Invariance, PTL DEF Spec
<1> QED
  BY <1>2 DEF NeverLonger

-----------------------------------------------------------------------------
(* add_route_ keeps a direct route on another key than the one written. *)
LEMMA WriteKeepsDirect ==
    ASSUME NEW s, GoodList(s), NEW r \in Route, NEW absent \in BOOLEAN,
           NEW d \in P2pPositions(s), s[d].key # r.key
    PROVE  HasP2p(WriteRoute(s, r, absent))
<1>1. s \in Seq(Route) /\ Len(s) <= MaxLen /\ Len(s) \in Nat /\ d \in DOMAIN s
  BY DEF GoodList, P2pPositions
<1>2. HasP2p(s)
  BY DEF HasP2p
<1>3. HasP2p(UpdateExisting(s, r))
  <2> DEFINE updated == [i \in DOMAIN s |-> IF s[i].key = r.key THEN r ELSE s[i]]
             sorted == SortByRt(updated)
             limit == IF FIRST_LATENCY THEN CHANNEL_NUM + 2 ELSE CHANNEL_NUM
  <2>1. /\ updated \in Seq(Route) /\ Len(updated) = Len(s)
        /\ DOMAIN updated = DOMAIN s /\ updated[d] = s[d]
    BY <1>1
  <2>2. HasP2p(updated)
    BY <2>1, <1>1 DEF HasP2p, P2pPositions
  <2>3. limit \in Nat \ {0} /\ (~ FIRST_LATENCY => Len(s) <= limit)
    BY <1>1, ChannelNumAssumption DEF MaxLen
  <2>4. UpdateExisting(s, r) = IF \E i \in DOMAIN sorted : sorted[i].rt = DEFAULT_RT
                               THEN sorted ELSE Truncate(sorted, limit)
    BY DEF UpdateExisting
  <2> HIDE DEF updated, limit
  <2>5. sorted \in Seq(Route) /\ Len(sorted) = Len(s) /\ HasP2p(sorted)
    BY <2>1, <2>2, SortByRtProperties
  <2> HIDE DEF sorted
  <2>6. HasP2p(Truncate(sorted, limit))
    <3>1. CASE FIRST_LATENCY
      BY <3>1, <2>3, <2>5, TruncateProperties
    <3>2. CASE ~ FIRST_LATENCY
      BY <3>2, <2>3, <2>5 DEF Truncate
    <3> QED
      BY <3>1, <3>2
  <2> QED
    BY <2>4, <2>5, <2>6
<1>4. HasP2p(AddNew(s, r))
  <2> DEFINE kept == IF ~ FIRST_LATENCY /\ IsP2p(r) THEN RetainP2p(s) ELSE s
             sorted == SortByRt(kept)
             cut == Truncate(sorted, CHANNEL_NUM * 2)
  <2>1. kept \in Seq(Route) /\ Len(kept) <= Len(s) /\ HasP2p(kept)
    BY <1>1, <1>2, RetainP2pProperties
  <2>2. AddNew(s, r) = IF ~ FIRST_LATENCY /\ CHANNEL_NUM <= Len(kept)
                       THEN kept ELSE Append(cut, r)
    BY DEF AddNew
  <2> HIDE DEF kept
  <2>3. sorted \in Seq(Route) /\ Len(sorted) = Len(kept) /\ HasP2p(sorted)
    BY <2>1, SortByRtProperties
  <2> HIDE DEF sorted
  <2>4. CHANNEL_NUM * 2 \in Nat \ {0}
    BY ChannelNumAssumption
  <2>5. cut \in Seq(Route)
    BY <2>3, <2>4, TruncateProperties
  <2>6. HasP2p(cut)
    <3>1. CASE FIRST_LATENCY
      BY <3>1, <2>3, <2>4, TruncateProperties
    <3>2. CASE ~ FIRST_LATENCY
      <4>1. Len(sorted) <= CHANNEL_NUM * 2
        BY <3>2, <1>1, <2>1, <2>3, ChannelNumAssumption DEF MaxLen
      <4> QED
        BY <4>1, <2>3 DEF Truncate
    <3> QED
      BY <3>1, <3>2
  <2> HIDE DEF cut
  <2>7. HasP2p(Append(cut, r))
    <3>1. PICK i \in DOMAIN cut : IsP2p(cut[i])
      BY <2>6 DEF HasP2p, P2pPositions
    <3>2. i \in DOMAIN Append(cut, r) /\ Append(cut, r)[i] = cut[i]
      BY <2>5
    <3> QED
      BY <3>1, <3>2 DEF HasP2p, P2pPositions
  <2> QED
    BY <2>1, <2>2, <2>7
<1> QED
  BY <1>2, <1>3, <1>4 DEF WriteRoute

(* So storing what add_route_ computed keeps one. *)
LEMMA PutKeepsDirect ==
    ASSUME IInv, NEW id \in Ids, NEW r \in Route, NEW absent \in BOOLEAN,
           PutList(id, WriteRoute(ListOf(id), r, absent))
    PROVE  KeepsDirect(id, r.key)
<1> SUFFICES ASSUME NEW d \in P2pPositions(ListOf(id)), ListOf(id)[d].key # r.key
             PROVE  P2pPositions(table'[id]) # {}
  BY DEF KeepsDirect
<1>1. HasP2p(WriteRoute(ListOf(id), r, absent))
  BY ListOfGood, WriteKeepsDirect
<1>2. table'[id] = WriteRoute(ListOf(id), r, absent)
  BY DEF PutList
<1> QED
  BY <1>1, <1>2 DEF HasP2p

(* Recording a route never costs a peer its last direct route on another   *)
(* key, for every channel_num and in both modes.                           *)
THEOREM DirectRoutesKept == Spec => DirectRouteKept
<1> DEFINE A == /\ \A id \in Ids, k \in Keys, m \in Metrics, t \in Rts :
                      AddRoute(id, k, m, t) => KeepsDirect(id, k)
                /\ \A w \in Receivers :
                      AddIfAbsentWrite(w) => KeepsDirect(adding[w].id, adding[w].route.key)
<1>1. IInv => A
  <2> SUFFICES ASSUME IInv PROVE A
    OBVIOUS
  <2>1. ASSUME NEW id \in Ids, NEW k \in Keys, NEW m \in Metrics, NEW t \in Rts,
               AddRoute(id, k, m, t)
        PROVE  KeepsDirect(id, k)
    <3>1. NewRoute(k, m, t) \in Route /\ NewRoute(k, m, t).key = k
      BY NewRouteType DEF NewRoute
    <3>2. PutList(id, WriteRoute(ListOf(id), NewRoute(k, m, t), FALSE))
      BY <2>1 DEF AddRoute
    <3>3. KeepsDirect(id, NewRoute(k, m, t).key)
      BY <3>1, <3>2, PutKeepsDirect
    <3> QED
      BY <3>1, <3>3
  <2>2. ASSUME NEW w \in Receivers, AddIfAbsentWrite(w)
        PROVE  KeepsDirect(adding[w].id, adding[w].route.key)
    <3>1. adding[w] \in [id : Ids, route : Route]
      BY <2>2 DEF AddIfAbsentWrite, IInv, Carried
    <3>2. adding[w].id \in Ids /\ adding[w].route \in Route
      BY <3>1
    <3>3. PutList(adding[w].id, WriteRoute(ListOf(adding[w].id), adding[w].route, TRUE))
      BY <2>2 DEF AddIfAbsentWrite
    <3> QED
      BY <3>2, <3>3, PutKeepsDirect
  <2> QED
    BY <2>1, <2>2
<1>2. Spec => [][A]_vars
  <2> HIDE DEF A
  <2>1. IInv => [A]_vars
    BY <1>1
  <2> QED
    BY <2>1, Invariance, PTL
<1> QED
  BY <1>2 DEF DirectRouteKept
=============================================================================
