---------------------------- MODULE MempoolProofs ----------------------------
(***************************************************************************)
(* What the moves of references do to the number of references a place     *)
(* holds, for every finite set of buffers.  A place holds as many as there *)
(* are pairs of a buffer and a number up to its count, so that a reference *)
(* more or less is an element more or less of a finite set.                *)
(***************************************************************************)
EXTENDS Mempool, FiniteSetTheorems, FunctionTheorems, TLAPS

(* The pairs that a place stands for.                                      *)
LEMMA RefsAre ==
  ASSUME NEW place
  PROVE  \A r : r \in Refs(place) <=> \E m \in Mbufs : \E i \in 1 .. place[m] : r = <<m, i>>
  BY DEF Refs

LEMMA TotalType ==
  ASSUME NEW place \in Places
  PROVE  IsFiniteSet(Refs(place)) /\ Total(place) \in Nat
  <1> DEFINE Of(m) == {m} \X (1 .. place[m])
             Parts == {Of(m) : m \in Mbufs}
             f == [m \in Mbufs |-> Of(m)]
  <1>1. f \in Surjection(Mbufs, Parts)
    BY Fun_IsSurj
  <1>2. IsFiniteSet(Parts)
    BY <1>1, MempoolAssumption, FS_Surjection
  <1>3. ASSUME NEW m \in Mbufs PROVE IsFiniteSet(Of(m))
    <2>1. place[m] \in Int
      BY DEF Places
    <2>2. IsFiniteSet(1 .. place[m])
      BY <2>1, FS_Interval
    <2>3. IsFiniteSet({m})
      BY FS_Singleton
    <2> QED
      BY <2>2, <2>3, FS_Product
  <1>4. IsFiniteSet(UNION Parts)
    BY <1>2, <1>3, FS_UNION
  <1> QED
    BY <1>4, FS_CardinalityType DEF Refs, Total

(* A place that gains one reference to each buffer of a set.               *)
LEMMA TotalMore ==
  ASSUME NEW p \in Places, NEW q \in Places, NEW S \in SUBSET Mbufs,
         \A m \in Mbufs : q[m] = IF m \in S THEN p[m] + 1 ELSE p[m]
  PROVE  Total(q) = Total(p) + Cardinality(S)
  <1> DEFINE New == {<<m, p[m] + 1>> : m \in S}
             f == [m \in S |-> <<m, p[m] + 1>>]
  <1>1. IsFiniteSet(S)
    BY MempoolAssumption, FS_Subset
  <1>2. f \in Bijection(S, New)
    <2>1. f \in [S -> New]
      OBVIOUS
    <2>2. \A a, b \in S : f[a] = f[b] => a = b
      OBVIOUS
    <2>3. \A t \in New : \E s \in S : f[s] = t
      OBVIOUS
    <2> QED
      BY <2>1, <2>2, <2>3, Fun_IsBij
  <1>3. IsFiniteSet(New) /\ Cardinality(New) = Cardinality(S) /\ Cardinality(S) \in Nat
    <2>1. ExistsBijection(S, New)
      BY <1>2 DEF ExistsBijection
    <2> QED
      BY <1>1, <2>1, FS_Bijection, FS_CardinalityType
  <1>4. \A m \in Mbufs : p[m] \in Nat /\ q[m] \in Nat
    BY DEF Places
  <1>5. Refs(q) = Refs(p) \cup New
    <2>1. ASSUME NEW r \in Refs(q) PROVE r \in Refs(p) \cup New
      <3>0. PICK m \in Mbufs : \E i \in 1 .. q[m] : r = <<m, i>>
        BY <2>1, RefsAre
      <3>1. PICK i \in 1 .. q[m] : r = <<m, i>>
        BY <3>0
      <3>2. CASE i <= p[m]
        <4>1. i \in 1 .. p[m]
          BY <1>4, <3>2
        <4> QED
          BY <3>1, <4>1, RefsAre
      <3>3. CASE i > p[m]
        <4>1. m \in S /\ i = p[m] + 1
          BY <1>4, <3>3
        <4> QED
          BY <3>1, <4>1
      <3> QED
        BY <1>4, <3>2, <3>3
    <2>2. ASSUME NEW r \in Refs(p) PROVE r \in Refs(q)
      <3>0. PICK m \in Mbufs : \E i \in 1 .. p[m] : r = <<m, i>>
        BY <2>2, RefsAre
      <3>1. PICK i \in 1 .. p[m] : r = <<m, i>>
        BY <3>0
      <3>2. i \in 1 .. q[m]
        BY <1>4
      <3> QED
        BY <3>1, <3>2, RefsAre
    <2>3. ASSUME NEW r \in New PROVE r \in Refs(q)
      <3>1. PICK m \in S : r = <<m, p[m] + 1>>
        BY <2>3
      <3>2. p[m] + 1 \in 1 .. q[m]
        BY <1>4
      <3> QED
        BY <3>1, <3>2, RefsAre
    <2> QED
      BY <2>1, <2>2, <2>3
  <1>6. Refs(p) \cap New = {}
    <2> SUFFICES ASSUME NEW m \in S, <<m, p[m] + 1>> \in Refs(p) PROVE FALSE
      OBVIOUS
    <2>1. PICK n \in Mbufs : \E i \in 1 .. p[n] : <<m, p[m] + 1>> = <<n, i>>
      BY RefsAre
    <2> QED
      BY <1>4, <2>1
  <1>7. IsFiniteSet(Refs(p)) /\ Cardinality(Refs(p)) \in Nat
    BY TotalType DEF Total
  <1> HIDE DEF New, f
  <1>8. /\ Cardinality(Refs(p) \cap New) = 0
        /\ Cardinality(Refs(p) \cup New)
             = Cardinality(Refs(p)) + Cardinality(New) - Cardinality(Refs(p) \cap New)
    BY <1>3, <1>6, <1>7, FS_Union, FS_EmptySet
  <1> QED
    BY <1>3, <1>5, <1>7, <1>8 DEF Total

(* The empty place, and the places that hold nothing.                      *)
LEMMA TotalNowhere == Nowhere \in Places /\ Total(Nowhere) = 0
  <1>1. Refs(Nowhere) = {}
    BY RefsAre DEF Nowhere
  <1> QED
    BY <1>1, FS_EmptySet DEF Nowhere, Places, Total

LEMMA TotalIsZero ==
  ASSUME NEW place \in Places
  PROVE  Total(place) = 0 <=> Exhausted(place)
  <1>1. Total(place) = 0 <=> Refs(place) = {}
    BY TotalType, FS_EmptySet DEF Total
  <1>2. ASSUME NEW m \in Mbufs, place[m] # 0 PROVE <<m, 1>> \in Refs(place)
    <2>1. 1 \in 1 .. place[m]
      BY <1>2 DEF Places
    <2> QED
      BY <2>1, RefsAre
  <1>3. Exhausted(place) => Refs(place) = {}
    BY RefsAre DEF Exhausted
  <1> QED
    BY <1>1, <1>2, <1>3 DEF Exhausted

(* A set of buffers, as a place.                                           *)
LEMMA TotalOfSet ==
  ASSUME NEW S \in SUBSET Mbufs
  PROVE  LET place == [m \in Mbufs |-> IF m \in S THEN 1 ELSE 0]
         IN  place \in Places /\ Total(place) = Cardinality(S)
  <1> DEFINE place == [m \in Mbufs |-> IF m \in S THEN 1 ELSE 0]
  <1>1. place \in Places
    BY DEF Places
  <1>2. \A m \in Mbufs : place[m] = IF m \in S THEN Nowhere[m] + 1 ELSE Nowhere[m]
    BY DEF Nowhere
  <1>3. Cardinality(S) \in Nat
    BY MempoolAssumption, FS_Subset, FS_CardinalityType
  <1> HIDE DEF place
  <1>4. Total(place) = Total(Nowhere) + Cardinality(S)
    BY <1>1, <1>2, TotalNowhere, TotalMore
  <1> QED
    BY <1>1, <1>3, <1>4, TotalNowhere DEF place

(* The moves of one reference.                                             *)
LEMMA PutType ==
  ASSUME NEW place \in Places, NEW m \in Mbufs
  PROVE  /\ Put(place, m) \in Places
         /\ Put(place, m)[m] = place[m] + 1
         /\ \A x \in Mbufs : x # m => Put(place, m)[x] = place[x]
  BY DEF Put, Places

LEMMA TakeType ==
  ASSUME NEW place \in Places, NEW m \in Mbufs, place[m] > 0
  PROVE  /\ Take(place, m) \in Places
         /\ Take(place, m)[m] = place[m] - 1
         /\ \A x \in Mbufs : x # m => Take(place, m)[x] = place[x]
  <1>1. place[m] - 1 \in Nat
    BY DEF Places
  <1> QED
    BY <1>1 DEF Take, Places

LEMMA TotalPut ==
  ASSUME NEW place \in Places, NEW m \in Mbufs
  PROVE  Total(Put(place, m)) = Total(place) + 1
  <1>1. \A x \in Mbufs : Put(place, m)[x] = IF x \in {m} THEN place[x] + 1 ELSE place[x]
    BY PutType
  <1>2. Put(place, m) \in Places
    BY PutType
  <1>3. Total(Put(place, m)) = Total(place) + Cardinality({m})
    BY <1>1, <1>2, TotalMore
  <1> QED
    BY <1>3, FS_Singleton

LEMMA TotalTake ==
  ASSUME NEW place \in Places, NEW m \in Mbufs, place[m] > 0
  PROVE  Total(Take(place, m)) = Total(place) - 1 /\ Total(place) > 0
  <1> DEFINE less == Take(place, m)
  <1>1. less \in Places
    BY TakeType
  <1>2. \A x \in Mbufs : place[x] = IF x \in {m} THEN less[x] + 1 ELSE less[x]
    <2>1. place[m] \in Nat
      BY DEF Places
    <2> QED
      BY <2>1, TakeType
  <1> HIDE DEF less
  <1>3. Total(place) = Total(less) + Cardinality({m})
    BY <1>1, <1>2, TotalMore
  <1>4. Total(less) \in Nat /\ Cardinality({m}) = 1
    BY <1>1, TotalType, FS_Singleton
  <1>5. Total(less) = Total(place) - 1 /\ Total(place) > 0
    BY <1>3, <1>4
  <1> QED
    BY <1>5 DEF less

(* A move of one reference leaves every buffer with as many as before.     *)
LEMMA MoveSum ==
  ASSUME NEW from \in Places, NEW to \in Places, NEW m \in Mbufs, from[m] > 0,
         NEW x \in Mbufs
  PROVE  /\ Take(from, m)[x] \in Nat /\ Put(to, m)[x] \in Nat
         /\ Take(from, m)[x] + Put(to, m)[x] = from[x] + to[x]
  <1>1. /\ Take(from, m) \in Places /\ Put(to, m) \in Places
        /\ Take(from, m)[m] = from[m] - 1 /\ Put(to, m)[m] = to[m] + 1
        /\ x # m => Take(from, m)[x] = from[x] /\ Put(to, m)[x] = to[x]
    BY TakeType, PutType
  <1>2. /\ Take(from, m)[x] \in Nat /\ Put(to, m)[x] \in Nat
        /\ from[x] \in Nat /\ to[x] \in Nat
    BY <1>1 DEF Places
  <1>3. CASE x = m
    BY <1>1, <1>2, <1>3
  <1>4. CASE x # m
    BY <1>1, <1>2, <1>4
  <1> QED
    BY <1>3, <1>4

=============================================================================
