---------------------------- MODULE DeparturesProofs ---------------------------
(***************************************************************************)
(* A feed's timetable and what a board shows of it, proved for every       *)
(* timetable, every answer of the other services, every request and every  *)
(* clock of the types in TypeOK.                                           *)
(*                                                                         *)
(* First post-processing, of trips of any length, whatever times,          *)
(* departures and distances the agency left out.  Interpolation is a sum   *)
(* of a timed stop's arrival and a share of a duration, rounded down; the  *)
(* share grows along the span and is at most the whole, so a trip that     *)
(* runs forwards still does.  A stop that is left empty has no timed stop  *)
(* on a side, or none that helps: a stop that has been filled lies between *)
(* timed ones of before.                                                   *)
(*                                                                         *)
(* Then the boards.  The invariant is that an answer that is there is a    *)
(* board (Board) of the candidates of the present state.  The rest is      *)
(* about what one state's candidates are: lemmas on sorting, folding and   *)
(* filtering, then one section for each kind of provider.                  *)
(***************************************************************************)
EXTENDS Departures, FiniteSetTheorems, WellFoundedInduction, TLAPS

-----------------------------------------------------------------------------
(* Least and greatest numbers. *)

(* A set of natural numbers that is not empty has a least element. *)
LEMMA LeastNatural ==
  ASSUME NEW S \in SUBSET Nat, S # {}
  PROVE  \E m \in S : \A x \in S : m <= x
<1>1. PICK m \in S : \A x \in S : ~ (<<x, m>> \in OpToRel(<, Nat))
  BY NatLessThanWellFounded, WFMin
<1>2. ASSUME NEW x \in S PROVE m <= x
  <2>1. x \in Nat /\ m \in Nat
    OBVIOUS
  <2>2. <<x, m>> \in Nat \X Nat /\ <<x, m>>[1] = x /\ <<x, m>>[2] = m
    BY <2>1
  <2>3. ~ (<<x, m>>[1] < <<x, m>>[2])
    BY <1>1, <2>2 DEF OpToRel
  <2> QED
    BY <2>1, <2>2, <2>3
<1> QED
  BY <1>2

(* The CHOOSE of Min finds it. *)
LEMMA MinIsLeast ==
  ASSUME NEW S \in SUBSET Nat, S # {}
  PROVE  Min(S) \in S /\ \A x \in S : Min(S) <= x
BY LeastNatural DEF Min

(* A set of natural numbers that is not empty and has a bound has a greatest
   element, and Max finds it. *)
LEMMA MaxIsGreatest ==
  ASSUME NEW S \in SUBSET Nat, S # {}, NEW n \in Nat, \A x \in S : x <= n
  PROVE  Max(S) \in S /\ \A x \in S : Max(S) >= x
<1> DEFINE T == {n - x : x \in S}
<1>1. T \in SUBSET Nat /\ T # {}
  <2>1. ASSUME NEW x \in S PROVE n - x \in Nat
    <3>1. x \in Nat /\ x <= n
      OBVIOUS
    <3> QED
      BY <3>1
  <2> QED
    BY <2>1
<1> HIDE DEF T
<1>2. PICK m \in T : \A y \in T : m <= y
  BY <1>1, LeastNatural
<1> USE DEF T
<1>3. PICK g \in S : m = n - g
  BY <1>2
<1>4. \A x \in S : g >= x
  <2> SUFFICES ASSUME NEW x \in S PROVE g >= x
    OBVIOUS
  <2>1. n - x \in T
    OBVIOUS
  <2>2. n - g <= n - x
    BY <1>2, <1>3, <2>1
  <2> QED
    BY <2>2
<1> QED
  BY <1>3, <1>4 DEF Max

-----------------------------------------------------------------------------
(* Array.prototype.filter. *)

(* The elements below i. *)
Below(S, i) == {j \in S : j < i}

(* The index that the k-th element of a filtered sequence comes from. *)
Source(S, k) == CHOOSE i \in S : Cardinality(Below(S, i)) = k - 1

(* The number of elements below one grows along a finite set. *)
LEMMA BelowFinite ==
  ASSUME NEW S \in SUBSET Nat, IsFiniteSet(S), NEW i \in S
  PROVE  /\ IsFiniteSet(Below(S, i)) /\ Cardinality(Below(S, i)) \in Nat
         /\ Cardinality(S) \in Nat /\ Cardinality(Below(S, i)) < Cardinality(S)
         /\ \A j \in S : i < j => Cardinality(Below(S, i)) < Cardinality(Below(S, j))
<1>1. ASSUME NEW T \in SUBSET S, Below(S, i) \subseteq T, i \in T
      PROVE  Cardinality(Below(S, i)) < Cardinality(T)
  <2>1. Below(S, i) # T
    BY <1>1 DEF Below
  <2>2. IsFiniteSet(T)
    BY FS_Subset
  <2> QED
    BY <1>1, <2>1, <2>2, FS_Subset, FS_CardinalityType
<1>2. Below(S, i) \in SUBSET S
  BY DEF Below
<1>3. IsFiniteSet(Below(S, i))
  BY <1>2, FS_Subset
<1>4. Cardinality(Below(S, i)) < Cardinality(S)
  BY <1>1, <1>2
<1>5. \A j \in S : i < j => Cardinality(Below(S, i)) < Cardinality(Below(S, j))
  <2> SUFFICES ASSUME NEW j \in S, i < j PROVE Cardinality(Below(S, i)) < Cardinality(Below(S, j))
    OBVIOUS
  <2>0. \A x \in S : x \in Nat
    OBVIOUS
  <2>1. Below(S, j) \in SUBSET S /\ Below(S, i) \subseteq Below(S, j) /\ i \in Below(S, j)
    <3>1. i \in Nat /\ j \in Nat
      BY <2>0
    <3>2. ASSUME NEW x \in S, x < i PROVE x < j
      BY <2>0, <3>1, <3>2
    <3> QED
      BY <3>2 DEF Below
  <2> QED
    BY <1>1, <2>1
<1> QED
  BY <1>3, <1>4, <1>5, FS_CardinalityType

(* Every number up to the size of the set is reached. *)
LEMMA EveryRank ==
  ASSUME NEW S \in SUBSET Nat, IsFiniteSet(S), NEW k \in 1..Cardinality(S)
  PROVE  \E i \in S : Cardinality(Below(S, i)) = k - 1
<1> DEFINE Missing == {m \in Nat : m < Cardinality(S) /\ \A i \in S : Cardinality(Below(S, i)) # m}
<1>1. CASE Missing = {}
  <2>1. k - 1 \in Nat /\ k - 1 < Cardinality(S) /\ k - 1 \notin Missing
    BY <1>1, FS_CardinalityType
  <2> QED
    BY <2>1
<1>2. CASE Missing # {}
  <2>0. Missing \in SUBSET Nat
    OBVIOUS
  <2>1. PICK m \in Missing : \A x \in Missing : m <= x
    <3> HIDE DEF Missing
    <3> QED
      BY <1>2, <2>0, LeastNatural
  <2>2. m \in Nat /\ m < Cardinality(S) /\ \A i \in S : Cardinality(Below(S, i)) # m
    BY <2>1
  <2>3. S # {} /\ \A x \in S : x \in Nat
    BY <2>2, FS_EmptySet
  <2>4. CASE m = 0
    <3>1. Min(S) \in S /\ Below(S, Min(S)) = {}
      <4>1. Min(S) \in S /\ \A x \in S : Min(S) <= x
        BY <2>3, MinIsLeast
      <4>2. ASSUME NEW x \in S PROVE ~ (x < Min(S))
        <5>1. x \in Nat /\ Min(S) \in Nat /\ Min(S) <= x
          BY <4>1, <2>3
        <5> QED
          BY <5>1
      <4> QED
        BY <4>1, <4>2 DEF Below
    <3> QED
      BY <2>2, <2>4, <3>1, FS_EmptySet
  <2>5. CASE m # 0
    <3>1. m - 1 \in Nat /\ m - 1 < Cardinality(S) /\ m - 1 \notin Missing
      BY <2>1, <2>2, <2>5, FS_CardinalityType
    <3>2. PICK i \in S : Cardinality(Below(S, i)) = m - 1
      BY <3>1
    <3> DEFINE upTo == Below(S, i) \cup {i}
               above == {j \in S : i < j}
    <3>3. Cardinality(upTo) = m
      <4>1. IsFiniteSet(Below(S, i)) /\ i \notin Below(S, i)
        BY <2>3, BelowFinite DEF Below
      <4>2. Cardinality(upTo) = Cardinality(Below(S, i)) + 1
        BY <4>1, FS_AddElement
      <4> QED
        BY <4>2, <3>2, <2>2
    <3>4. above # {}
      <4> SUFFICES ASSUME above = {} PROVE FALSE
        OBVIOUS
      <4>1. S = upTo
        <5>1. \A x \in S : x <= i
          BY <2>3
        <5>2. \A x \in S : x < i \/ x = i
          BY <2>3, <5>1
        <5> QED
          BY <5>2 DEF Below
      <4> QED
        BY <4>1, <3>3, <2>2
    <3>5. Min(above) \in above /\ \A x \in above : Min(above) <= x
      <4>1. above \in SUBSET Nat
        OBVIOUS
      <4> HIDE DEF above
      <4> QED
        BY <4>1, <3>4, MinIsLeast
    <3> DEFINE j == Min(above)
    <3>6. j \in S /\ Below(S, j) = upTo
      <4> HIDE DEF j
      <4>1. j \in S /\ i < j /\ \A x \in S : i < x => j <= x
        BY <3>5 DEF j
      <4>2. ASSUME NEW x \in S PROVE x < j <=> (x < i \/ x = i)
        BY <4>1, <4>2, <2>3
      <4> QED
        BY <4>1, <4>2 DEF Below
    <3> QED
      BY <2>2, <3>3, <3>6
  <2> QED
    BY <2>4, <2>5
<1> QED
  BY <1>1, <1>2

(* The k-th element comes from one index, the indices increase with k, and
   none is left out. *)
LEMMA SourceIs ==
  ASSUME NEW S \in SUBSET Nat, IsFiniteSet(S)
  PROVE  /\ Cardinality(S) \in Nat
         /\ \A k \in 1..Cardinality(S) : Source(S, k) \in S
         /\ \A k, l \in 1..Cardinality(S) : k < l => Source(S, k) < Source(S, l)
         /\ \A i \in S : \E k \in 1..Cardinality(S) : Source(S, k) = i
<1>1. Cardinality(S) \in Nat
  BY FS_CardinalityType
<1>2. \A k \in 1..Cardinality(S) : /\ Source(S, k) \in S
                                  /\ Cardinality(Below(S, Source(S, k))) = k - 1
  BY EveryRank DEF Source
<1>3. ASSUME NEW k \in 1..Cardinality(S), NEW l \in 1..Cardinality(S), k < l
      PROVE  Source(S, k) < Source(S, l)
  <2> DEFINE i == Source(S, k)
             j == Source(S, l)
  <2>1. i \in S /\ j \in S /\ Cardinality(Below(S, i)) = k - 1 /\ Cardinality(Below(S, j)) = l - 1
    BY <1>2
  <2> HIDE DEF i, j
  <2>2. j < i => l - 1 < k - 1
    BY <2>1, BelowFinite
  <2>3. j = i => l = k
    BY <2>1, <1>1
  <2>4. i \in Nat /\ j \in Nat
    BY <2>1
  <2> QED
    BY <1>1, <1>3, <2>2, <2>3, <2>4 DEF i, j
<1>4. ASSUME NEW i \in S PROVE \E k \in 1..Cardinality(S) : Source(S, k) = i
  <2> DEFINE k == Cardinality(Below(S, i)) + 1
  <2>1. k \in 1..Cardinality(S) /\ Cardinality(Below(S, i)) = k - 1
    BY BelowFinite
  <2> HIDE DEF k
  <2> DEFINE j == Source(S, k)
  <2>2. j \in S /\ Cardinality(Below(S, j)) = k - 1
    BY <1>2, <2>1
  <2> HIDE DEF j
  <2>3. j = i
    <3>1. /\ j < i => Cardinality(Below(S, j)) < Cardinality(Below(S, i))
          /\ i < j => Cardinality(Below(S, i)) < Cardinality(Below(S, j))
          /\ Cardinality(Below(S, i)) \in Nat
      BY <2>2, BelowFinite
    <3> QED
      BY <2>1, <2>2, <3>1
  <2> QED
    BY <2>1, <2>3 DEF j
<1> QED
  BY <1>1, <1>2, <1>3, <1>4

(* What is filtered is a sequence of the elements that pass, in their order. *)
LEMMA FilteredIs ==
  ASSUME NEW seq, NEW n \in Nat, NEW S \in SUBSET (1..n)
  PROVE  LET m == Cardinality(S) IN
         /\ IsFiniteSet(S) /\ m \in Nat
         /\ DOMAIN Filtered(seq, S) = 1..m /\ Len(Filtered(seq, S)) = m
         /\ Filtered(seq, S) = [k \in 1..m |-> seq[Source(S, k)]]
         /\ \A k \in 1..m : Source(S, k) \in S /\ Filtered(seq, S)[k] = seq[Source(S, k)]
         /\ \A k, l \in 1..m : k < l => Source(S, k) < Source(S, l)
         /\ \A i \in S : \E k \in 1..m : Source(S, k) = i
<1> DEFINE m == Cardinality(S)
<1>1. IsFiniteSet(S) /\ S \in SUBSET Nat
  <2>1. IsFiniteSet(1..n)
    BY FS_Interval
  <2>2. \A x \in S : x \in Nat
    OBVIOUS
  <2> QED
    BY <2>1, <2>2, FS_Subset
<1>2. Filtered(seq, S) = [k \in 1..m |-> seq[Source(S, k)]]
  BY DEF Filtered, Source, Below
<1>3. /\ m \in Nat
      /\ \A k \in 1..m : Source(S, k) \in S
      /\ \A k, l \in 1..m : k < l => Source(S, k) < Source(S, l)
      /\ \A i \in S : \E k \in 1..m : Source(S, k) = i
  BY <1>1, SourceIs
<1> HIDE DEF m
<1>4. DOMAIN Filtered(seq, S) = 1..m /\ Len(Filtered(seq, S)) = m
  BY <1>2, <1>3
<1> QED
  BY <1>1, <1>2, <1>3, <1>4 DEF m

(* What is filtered from a sequence over T is one over T. *)
LEMMA FilteredSeq ==
  ASSUME NEW T, NEW seq \in Seq(T), NEW S \in SUBSET (DOMAIN seq)
  PROVE  /\ Filtered(seq, S) \in Seq(T)
         /\ \A x : x \in ToSet(Filtered(seq, S)) <=> \E i \in S : x = seq[i]
<1> DEFINE m == Cardinality(S)
<1>1. Len(seq) \in Nat /\ DOMAIN seq = 1..Len(seq) /\ S \in SUBSET (1..Len(seq))
  OBVIOUS
<1>2. /\ m \in Nat
      /\ Filtered(seq, S) = [k \in 1..m |-> seq[Source(S, k)]]
      /\ DOMAIN Filtered(seq, S) = 1..m
      /\ \A k \in 1..m : Source(S, k) \in S /\ Filtered(seq, S)[k] = seq[Source(S, k)]
      /\ \A i \in S : \E k \in 1..m : Source(S, k) = i
  BY <1>1, FilteredIs
<1> HIDE DEF m
<1>3. \A k \in 1..m : seq[Source(S, k)] \in T
  BY <1>2
<1>4. Filtered(seq, S) \in Seq(T)
  BY <1>2, <1>3
<1>5. ASSUME NEW x PROVE x \in ToSet(Filtered(seq, S)) <=> \E i \in S : x = seq[i]
  <2>1. x \in ToSet(Filtered(seq, S)) <=> \E k \in 1..m : x = Filtered(seq, S)[k]
    BY <1>2 DEF ToSet
  <2>2. ASSUME NEW k \in 1..m, x = Filtered(seq, S)[k] PROVE \E i \in S : x = seq[i]
    BY <1>2, <2>2
  <2>3. ASSUME NEW i \in S, x = seq[i] PROVE \E k \in 1..m : x = Filtered(seq, S)[k]
    <3>1. PICK k \in 1..m : Source(S, k) = i
      BY <1>2
    <3>2. Filtered(seq, S)[k] = seq[i]
      BY <1>2, <3>1
    <3> QED
      BY <2>3, <3>2
  <2> QED
    BY <2>1, <2>2, <2>3
<1> QED
  BY <1>4, <1>5

(* No row is interpolated along a span of no length. *)
Divisible(rows) == \A i \in Empty(rows) : Computable(rows, i) => Span(rows, i) # 0

-----------------------------------------------------------------------------
(* Integer division rounds down. *)
LEMMA Quotient ==
  ASSUME NEW a \in Int, NEW s \in Int, s > 0
  PROVE  /\ a \div s \in Int
         /\ \A m \in Int : m * s <= a => m <= a \div s
         /\ \A m \in Int : a <= m * s => a \div s <= m
<1>1. a \div s \in Int
  OBVIOUS
<1>2. ASSUME NEW q \in Int, q = a \div s PROVE q * s <= a /\ a < q * s + s
  BY <1>2
<1> DEFINE q == a \div s
<1>3. q \in Int /\ q * s <= a /\ a < q * s + s
  BY <1>1, <1>2
<1> HIDE DEF q
<1>4. ASSUME NEW m \in Int, m * s <= a PROVE m <= q
  <2>1. (q - m + 1) * s > 0
    <3>1. (q - m + 1) * s = q * s - m * s + s
      BY <1>3
    <3>2. m * s \in Int /\ q * s \in Int
      BY <1>3
    <3> QED
      BY <1>3, <1>4, <3>1, <3>2
  <2>2. ASSUME NEW d \in Int, d * s > 0 PROVE d > 0
    BY <2>2
  <2>3. q - m + 1 > 0
    BY <1>3, <2>1, <2>2
  <2> QED
    BY <1>3, <2>3
<1>5. ASSUME NEW m \in Int, a <= m * s PROVE q <= m
  <2>1. (m - q) * s >= 0
    <3>1. (m - q) * s = m * s - q * s
      BY <1>3
    <3>2. m * s \in Int /\ q * s \in Int
      BY <1>3
    <3> QED
      BY <1>3, <1>5, <3>1, <3>2
  <2>2. ASSUME NEW d \in Int, d * s >= 0 PROVE d >= 0
    BY <2>2
  <2>3. m - q >= 0
    BY <1>3, <2>1, <2>2
  <2> QED
    BY <1>3, <2>3
<1> QED
  BY <1>1, <1>4, <1>5 DEF q

(* A share of a duration, rounded down. *)
LEMMA Share ==
  ASSUME NEW a \in Nat, NEW s \in Nat \ {0}, NEW x \in 0..s
  PROVE  /\ (a * x) \div s \in 0..a
         /\ \A y \in x..s : (a * x) \div s <= (a * y) \div s
<1>1. ASSUME NEW y \in Int, x <= y PROVE a * x <= a * y
  BY <1>1
<1>2. a * x \in Int /\ a * x >= 0 /\ a * x <= a * s /\ s > 0 /\ s \in Int
  BY <1>1
<1>3. (a * x) \div s \in Int
  BY <1>2, Quotient
<1>4. 0 <= (a * x) \div s
  BY <1>2, Quotient
<1>5. (a * x) \div s <= a
  BY <1>2, Quotient
<1>6. ASSUME NEW y \in x..s PROVE (a * x) \div s <= (a * y) \div s
  <2> DEFINE q == (a * x) \div s
             c == a * x
             b == a * y
  <2>1. c \in Int /\ b \in Int /\ c <= b
    BY <1>1, <1>6
  <2>2. q \in Int /\ q * s <= c
    <3>1. ASSUME NEW p \in Int, p = c \div s PROVE p * s <= c
      <4> HIDE DEF c
      <4> QED
        BY <3>1, <1>2, <2>1
    <3> QED
      BY <1>3, <3>1
  <2> HIDE DEF q, c, b
  <2>3. q * s <= b
    <3>1. q * s \in Int
      BY <2>2
    <3> QED
      BY <2>1, <2>2, <3>1
  <2>4. q <= b \div s
    BY <1>2, <2>1, <2>2, <2>3, Quotient
  <2> QED
    BY <2>4 DEF q, b
<1> QED
  BY <1>3, <1>4, <1>5, <1>6

-----------------------------------------------------------------------------
(* The timed stops around a stop. *)

(* The stops of a trip have numbers, the timed ones times, the measured ones
   distances. *)
LEMMA TimedIn ==
  ASSUME NEW rows, TripOK(rows)
  PROVE  /\ \A i \in DOMAIN rows : i \in Nat
         /\ \A i \in Timed(rows) : i \in DOMAIN rows /\ i \in Nat /\ i # None /\ rows[i].arr \in Int
         /\ \A i \in Measured(rows) : i \in DOMAIN rows /\ rows[i].dist \in Int
         /\ \A i \in Empty(rows) : i \in DOMAIN rows /\ i \in Nat /\ i \notin Timed(rows)
<1>1. PICK n \in Nat : DOMAIN rows = 1..n
  BY FS_CardinalityType DEF TripOK
<1>2. \A i \in DOMAIN rows : i \in Nat /\ StopTimeOK(rows[i])
  BY <1>1 DEF TripOK
<1> QED
  BY <1>2, NoneAssumption DEF StopTimeOK, Timed, Measured, Empty, Optional

(* A stop is between two timed stops if Previous and Following are such
   stops, and then no timed stop is nearer. *)
LEMMA Neighbours ==
  ASSUME NEW rows, TripOK(rows), NEW i \in DOMAIN rows
  PROVE  LET p == Previous(rows, i)
             q == Following(rows, i)
         IN  /\ Between(rows, i) <=> \E j, k \in Timed(rows) : j < i /\ i < k
             /\ Between(rows, i) =>
                  /\ p \in Timed(rows) /\ q \in Timed(rows) /\ p < i /\ i < q
                  /\ \A j \in Timed(rows) : j < i => j <= p
                  /\ \A j \in Timed(rows) : i < j => q <= j
<1> DEFINE before == {j \in Timed(rows) : j < i}
           after == {j \in Timed(rows) : j > i}
           p == Previous(rows, i)
           q == Following(rows, i)
<1>1. PICK n \in Nat : DOMAIN rows = 1..n
  BY FS_CardinalityType DEF TripOK
<1>2. before \in SUBSET Nat /\ after \in SUBSET Nat /\ \A x \in before : x <= n
  BY <1>1 DEF Timed
<1>3. i \in Nat /\ \A j \in Timed(rows) : j \in Nat /\ j # None
  BY TimedIn
<1>4. CASE before # {}
  <2>1. p = Max(before)
    BY <1>4 DEF Previous
  <2>2. Max(before) \in before /\ \A x \in before : Max(before) >= x
    <3> HIDE DEF before
    <3> QED
      BY <1>2, <1>4, MaxIsGreatest
  <2>3. p # None /\ p \in Timed(rows) /\ p < i /\ \A j \in Timed(rows) : j < i => j <= p
    <3>1. ASSUME NEW j \in Timed(rows), j < i PROVE j <= p
      <4>1. j \in before
        BY <3>1
      <4>2. p >= j /\ p \in Timed(rows)
        BY <2>1, <2>2, <4>1
      <4> QED
        BY <4>2, <1>3
    <3> QED
      BY <2>1, <2>2, <1>3, <3>1
  <2>4. CASE after # {}
    <3>1. q = Min(after)
      BY <2>4 DEF Following
    <3>2. Min(after) \in after /\ \A x \in after : Min(after) <= x
      <4> HIDE DEF after
      <4> QED
        BY <1>2, <2>4, MinIsLeast
    <3>3. q # None /\ q \in Timed(rows) /\ i < q /\ \A j \in Timed(rows) : i < j => q <= j
      <4>1. ASSUME NEW j \in Timed(rows), i < j PROVE q <= j
        <5>1. j \in after
          BY <4>1, <1>3
        <5> QED
          BY <3>1, <3>2, <5>1
      <4>2. q \in Timed(rows) /\ q > i
        BY <3>1, <3>2
      <4> QED
        BY <1>3, <4>1, <4>2
    <3> QED
      BY <2>3, <3>3 DEF Between
  <2>5. CASE after = {}
    <3>1. q = None
      BY <2>5 DEF Following
    <3>2. ~ \E k \in Timed(rows) : i < k
      BY <2>5, <1>3
    <3> QED
      BY <3>1, <3>2 DEF Between
  <2> QED
    BY <2>4, <2>5
<1>5. CASE before = {}
  <2>1. p = None
    BY <1>5 DEF Previous
  <2>2. ~ \E j \in Timed(rows) : j < i
    BY <1>5
  <2> QED
    BY <2>1, <2>2 DEF Between
<1> QED
  BY <1>4, <1>5

(* Empty stops with no timed one between them have the same neighbours. *)
LEMMA SameNeighbours ==
  ASSUME NEW rows, TripOK(rows), NEW i \in Empty(rows), NEW j \in Empty(rows), i < j,
         ~ \E k \in Timed(rows) : i < k /\ k < j
  PROVE  Previous(rows, i) = Previous(rows, j) /\ Following(rows, i) = Following(rows, j)
<1>1. /\ i \in Nat /\ j \in Nat /\ i \notin Timed(rows) /\ j \notin Timed(rows)
      /\ \A k \in Timed(rows) : k \in Nat
  BY TimedIn
<1>2. ASSUME NEW k \in Timed(rows) PROVE (k < i <=> k < j) /\ (k > i <=> k > j)
  <2>1. k \in Nat /\ k # i /\ k # j /\ ~(i < k /\ k < j)
    BY <1>1
  <2> QED
    BY <1>1, <2>1
<1>3. /\ {k \in Timed(rows) : k < i} = {k \in Timed(rows) : k < j}
      /\ {k \in Timed(rows) : k > i} = {k \in Timed(rows) : k > j}
  BY <1>2
<1> QED
  BY <1>3 DEF Previous, Following

(* How far a stop is from the timed one before it. *)
Along(rows, i) ==
  IF ByShape(rows, i) THEN rows[i].dist - rows[Previous(rows, i)].dist
                      ELSE i - Previous(rows, i)

(* The time that the span takes. *)
Duration(rows, i) == rows[Following(rows, i)].arr - rows[Previous(rows, i)].arr

(* What the statement computes, in these terms. *)
LEMMA InterpolatedIs ==
  ASSUME NEW rows, NEW i
  PROVE  InterpolatedArrival(rows, i) =
           rows[Previous(rows, i)].arr + (Duration(rows, i) * Along(rows, i)) \div Span(rows, i)
BY DEF InterpolatedArrival, Along, Duration

(* A stop is within the span between its neighbours, and a later stop of the
   same span is no nearer to its beginning. *)
LEMMA AlongTheSpan ==
  ASSUME NEW rows, TripOK(rows), Forwards(rows), Onwards(rows),
         NEW i \in Empty(rows), Computable(rows, i), Span(rows, i) # 0
  PROVE  /\ Duration(rows, i) \in Nat /\ Span(rows, i) \in Nat \ {0}
         /\ Along(rows, i) \in 0..Span(rows, i)
         /\ \A j \in Empty(rows) :
              /\ i < j /\ Computable(rows, j)
              /\ Previous(rows, i) = Previous(rows, j) /\ Following(rows, i) = Following(rows, j)
              => Along(rows, i) <= Along(rows, j)
<1> DEFINE p == Previous(rows, i)
           q == Following(rows, i)
<1>1. /\ i \in DOMAIN rows /\ i \in Nat /\ Between(rows, i)
      /\ (ByShape(rows, i) => i \in Measured(rows))
  BY TimedIn DEF Computable, Measured
<1>2. p \in Timed(rows) /\ q \in Timed(rows) /\ p < i /\ i < q
  BY <1>1, Neighbours
<1>3. /\ p \in Nat /\ q \in Nat /\ rows[p].arr \in Int /\ rows[q].arr \in Int
      /\ p \in DOMAIN rows /\ q \in DOMAIN rows
  BY <1>2, TimedIn
<1>4. Duration(rows, i) \in Nat
  <2>1. rows[p].arr <= rows[q].arr
    BY <1>1, <1>2, <1>3 DEF Forwards
  <2> QED
    BY <2>1, <1>3 DEF Duration
<1>5. CASE ByShape(rows, i)
  <2>1. p \in Measured(rows) /\ q \in Measured(rows)
    BY <1>3, <1>5 DEF ByShape, Measured
  <2>2. /\ rows[p].dist \in Int /\ rows[q].dist \in Int /\ rows[i].dist \in Int
        /\ rows[p].dist <= rows[i].dist /\ rows[i].dist <= rows[q].dist
    BY <2>1, <1>1, <1>2, <1>5, TimedIn DEF Onwards
  <2>3. /\ Span(rows, i) = rows[q].dist - rows[p].dist
        /\ Along(rows, i) = rows[i].dist - rows[p].dist
    BY <1>5 DEF Span, Along
  <2>4. ASSUME NEW j \in Empty(rows), i < j, Computable(rows, j),
               Previous(rows, i) = Previous(rows, j), Following(rows, i) = Following(rows, j)
        PROVE  Along(rows, i) <= Along(rows, j)
    <3>1. ByShape(rows, j)
      BY <1>5, <2>4 DEF ByShape
    <3>2. j \in Measured(rows) /\ rows[j].dist \in Int
      BY <2>4, <3>1, TimedIn DEF Computable, Measured
    <3>3. rows[i].dist <= rows[j].dist
      BY <1>1, <1>5, <2>4, <3>2 DEF Onwards
    <3>4. Along(rows, j) = rows[j].dist - rows[p].dist
      BY <2>4, <3>1 DEF Along
    <3> QED
      BY <2>2, <2>3, <3>2, <3>3, <3>4
  <2>5. Span(rows, i) \in Nat \ {0} /\ Along(rows, i) \in 0..Span(rows, i)
    BY <2>2, <2>3
  <2> QED
    BY <1>4, <2>4, <2>5
<1>6. CASE ~ByShape(rows, i)
  <2>1. Span(rows, i) = q - p /\ Along(rows, i) = i - p
    BY <1>6 DEF Span, Along
  <2>2. ASSUME NEW j \in Empty(rows), i < j, Computable(rows, j),
               Previous(rows, i) = Previous(rows, j), Following(rows, i) = Following(rows, j)
        PROVE  Along(rows, i) <= Along(rows, j)
    <3>1. ~ByShape(rows, j)
      BY <1>6, <2>2 DEF ByShape
    <3>2. Along(rows, j) = j - p /\ j \in Nat
      BY <2>2, <3>1, TimedIn DEF Along
    <3> QED
      BY <1>1, <1>3, <2>1, <2>2, <3>2
  <2>3. Span(rows, i) \in Nat \ {0} /\ Along(rows, i) \in 0..Span(rows, i)
    BY <1>1, <1>2, <1>3, <2>1
  <2> QED
    BY <1>4, <2>2, <2>3
<1> QED
  BY <1>5, <1>6

(* An interpolated arrival is between those of the stop's neighbours. *)
LEMMA InterpolationBetween ==
  ASSUME NEW rows, TripOK(rows), Forwards(rows), Onwards(rows),
         NEW i \in Empty(rows), Computable(rows, i), Span(rows, i) # 0
  PROVE  /\ InterpolatedArrival(rows, i) \in Int
         /\ rows[Previous(rows, i)].arr <= InterpolatedArrival(rows, i)
         /\ InterpolatedArrival(rows, i) <= rows[Following(rows, i)].arr
<1> DEFINE p == Previous(rows, i)
           q == Following(rows, i)
           share == (Duration(rows, i) * Along(rows, i)) \div Span(rows, i)
<1>1. i \in DOMAIN rows /\ Between(rows, i)
  BY TimedIn DEF Computable
<1>2. p \in Timed(rows) /\ q \in Timed(rows)
  BY <1>1, Neighbours
<1>3. rows[p].arr \in Int /\ rows[q].arr \in Int
  BY <1>2, TimedIn
<1>4. share \in 0..Duration(rows, i)
  BY AlongTheSpan, Share
<1>5. InterpolatedArrival(rows, i) = rows[p].arr + share
  BY InterpolatedIs
<1>6. Duration(rows, i) = rows[q].arr - rows[p].arr
  BY DEF Duration
<1> HIDE DEF share, p, q
<1>7. share \in Int /\ 0 <= share /\ share <= rows[q].arr - rows[p].arr
  BY <1>3, <1>4, <1>6
<1> QED
  BY <1>3, <1>5, <1>7 DEF p, q

(* Two stops without a timed one between them are interpolated in order. *)
LEMMA InterpolationMonotone ==
  ASSUME NEW rows, TripOK(rows), Forwards(rows), Onwards(rows), Divisible(rows),
         NEW i \in Empty(rows), NEW j \in Empty(rows), i < j,
         Computable(rows, i), Computable(rows, j),
         ~ \E k \in Timed(rows) : i < k /\ k < j
  PROVE  InterpolatedArrival(rows, i) <= InterpolatedArrival(rows, j)
<1>1. Previous(rows, i) = Previous(rows, j) /\ Following(rows, i) = Following(rows, j)
  BY SameNeighbours
<1>2. Span(rows, i) = Span(rows, j) /\ Duration(rows, i) = Duration(rows, j)
  BY <1>1 DEF Span, Duration, ByShape
<1> DEFINE a == Duration(rows, i)
           s == Span(rows, i)
           x == Along(rows, i)
           y == Along(rows, j)
           from == rows[Previous(rows, i)].arr
<1>3. Span(rows, i) # 0 /\ Span(rows, j) # 0
  BY DEF Divisible
<1>4. a \in Nat /\ s \in Nat \ {0} /\ x \in 0..s /\ x <= y
  BY <1>1, <1>3, AlongTheSpan
<1>5. y \in 0..s
  BY <1>2, <1>3, AlongTheSpan
<1>6. from \in Int
  BY TimedIn, Neighbours DEF Computable
<1>7. /\ InterpolatedArrival(rows, i) = from + (a * x) \div s
      /\ InterpolatedArrival(rows, j) = from + (a * y) \div s
  BY <1>1, <1>2, InterpolatedIs
<1> HIDE DEF a, s, x, y, from
<1>8. y \in x..s
  BY <1>4, <1>5
<1>9. (a * x) \div s <= (a * y) \div s /\ (a * x) \div s \in Int
  BY <1>4, <1>8, Share
<1>10. (a * y) \div s \in Int
  BY <1>4, <1>5, Share
<1> DEFINE u == (a * x) \div s
           v == (a * y) \div s
<1> HIDE DEF u, v
<1>11. u \in Int /\ v \in Int /\ u <= v
  BY <1>9, <1>10 DEF u, v
<1>12. from + u <= from + v
  BY <1>6, <1>11
<1> QED
  BY <1>7, <1>12 DEF u, v

-----------------------------------------------------------------------------
(* interpolateEmptyArrivalTimes. *)

(* The rows that get an arrival. *)
Fillable(rows) == {i \in Empty(rows) : Computable(rows, i)}

(* The statement gives an arrival to the rows it can compute one for, and
   leaves the others as they are. *)
LEMMA FilledRows ==
  ASSUME NEW rows, TripOK(rows), Forwards(rows), Onwards(rows), Divisible(rows)
  PROVE  LET new == FillArrivals(rows) IN
         /\ TripOK(new) /\ DOMAIN new = DOMAIN rows
         /\ Timed(new) = Timed(rows) \cup Fillable(rows)
         /\ \A i \in Timed(rows) : new[i].arr = rows[i].arr
         /\ \A i \in Fillable(rows) : new[i].arr = InterpolatedArrival(rows, i)
         /\ \A i \in DOMAIN rows : new[i].dist = rows[i].dist
<1> DEFINE new == FillArrivals(rows)
<1>1. DOMAIN new = DOMAIN rows
  BY DEF FillArrivals
<1>2. ASSUME NEW i \in Fillable(rows)
      PROVE  /\ new[i] = [rows[i] EXCEPT !.arr = InterpolatedArrival(rows, i)]
             /\ InterpolatedArrival(rows, i) \in Int /\ rows[i].arr = None
  <2>1. i \in Empty(rows) /\ Computable(rows, i) /\ Span(rows, i) # 0 /\ i \in DOMAIN rows
    BY DEF Fillable, Divisible, Empty
  <2>2. InterpolatedArrival(rows, i) \in Int
    BY <2>1, InterpolationBetween
  <2> QED
    BY <2>1, <2>2 DEF FillArrivals, Empty, Timed
<1>3. ASSUME NEW i \in DOMAIN rows, i \notin Fillable(rows)
      PROVE  new[i] = rows[i]
  BY <1>3 DEF FillArrivals, Fillable
<1>4. Timed(rows) \cap Fillable(rows) = {} /\ Fillable(rows) \subseteq DOMAIN rows
  BY DEF Fillable, Empty
<1>5. ASSUME NEW i \in Fillable(rows)
      PROVE  /\ StopTimeOK(new[i]) /\ new[i].arr = InterpolatedArrival(rows, i)
             /\ new[i].dist = rows[i].dist /\ new[i].arr # None
  <2>1. StopTimeOK(rows[i]) /\ i \in DOMAIN rows
    BY <1>4 DEF TripOK
  <2> DEFINE row == rows[i]
             a == InterpolatedArrival(rows, i)
  <2>2. new[i] = [row EXCEPT !.arr = a] /\ a \in Int /\ row.arr = None /\ StopTimeOK(row)
    BY <1>2, <2>1
  <2> HIDE DEF row, a, new
  <2>3. new[i] = [stop |-> row.stop, arr |-> a, dep |-> row.dep, dist |-> row.dist,
                  given |-> row.given]
    BY <2>2 DEF StopTimeOK
  <2> QED
    BY <2>2, <2>3, NoneAssumption DEF StopTimeOK, Optional, row, a
<1>6. TripOK(new)
  <2>1. ASSUME NEW i \in DOMAIN rows PROVE StopTimeOK(new[i])
    BY <1>3, <1>5 DEF TripOK
  <2> QED
    BY <1>1, <2>1 DEF TripOK
<1>7. Timed(new) = Timed(rows) \cup Fillable(rows)
  <2>1. ASSUME NEW i \in DOMAIN rows PROVE new[i].arr # None <=> i \in Timed(rows) \cup Fillable(rows)
    BY <1>3, <1>5 DEF Timed
  <2> HIDE DEF new
  <2> QED
    BY <1>1, <1>4, <2>1 DEF Timed
<1>8. \A i \in Timed(rows) : new[i].arr = rows[i].arr
  BY <1>3, <1>4 DEF Timed
<1>9. \A i \in DOMAIN rows : new[i].dist = rows[i].dist
  BY <1>3, <1>5
<1> QED
  BY <1>1, <1>5, <1>6, <1>7, <1>8, <1>9

(* A trip runs forwards after it if it did before. *)
LEMMA FilledForwards ==
  ASSUME NEW rows, TripOK(rows), Forwards(rows), Onwards(rows), Divisible(rows)
  PROVE  Forwards(FillArrivals(rows))
<1> DEFINE new == FillArrivals(rows)
<1>1. /\ Timed(new) = Timed(rows) \cup Fillable(rows)
      /\ \A i \in Timed(rows) : new[i].arr = rows[i].arr
      /\ \A i \in Fillable(rows) : new[i].arr = InterpolatedArrival(rows, i)
      /\ \A i \in Timed(new) : new[i].arr \in Int
  <2>1. TripOK(new)
    BY FilledRows
  <2> QED
    BY <2>1, FilledRows, TimedIn
<1> HIDE DEF new
<1>2. ASSUME NEW i \in Fillable(rows)
      PROVE  LET p == Previous(rows, i)
                 q == Following(rows, i)
             IN  /\ p \in Timed(rows) /\ q \in Timed(rows) /\ p < i /\ i < q
                 /\ \A j \in Timed(rows) : j < i => j <= p
                 /\ \A j \in Timed(rows) : i < j => q <= j
                 /\ rows[p].arr <= new[i].arr /\ new[i].arr <= rows[q].arr
  <2>1. i \in Empty(rows) /\ Computable(rows, i) /\ Span(rows, i) # 0 /\ i \in DOMAIN rows
        /\ Between(rows, i)
    BY DEF Fillable, Divisible, Empty, Computable
  <2>2. new[i].arr = InterpolatedArrival(rows, i)
    BY <1>1
  <2> QED
    BY <2>1, <2>2, InterpolationBetween, Neighbours
<1>3. ASSUME NEW j \in Timed(rows), NEW k \in Timed(rows), j <= k
      PROVE  rows[j].arr <= rows[k].arr
  BY <1>3, TimedIn DEF Forwards
<1>4. \A i \in Timed(rows) \cup Fillable(rows) : i \in Nat
  BY TimedIn DEF Fillable
<1>5. ASSUME NEW i \in Timed(rows), NEW j \in Fillable(rows)
      PROVE  /\ i < j => new[i].arr <= new[j].arr
             /\ j < i => new[j].arr <= new[i].arr
  <2> DEFINE p == Previous(rows, j)
             q == Following(rows, j)
  <2>1. p \in Timed(rows) /\ q \in Timed(rows) /\ (i < j => i <= p) /\ (j < i => q <= i)
        /\ rows[p].arr <= new[j].arr /\ new[j].arr <= rows[q].arr
    BY <1>2
  <2>2. /\ rows[p].arr \in Int /\ rows[q].arr \in Int /\ rows[i].arr \in Int /\ new[j].arr \in Int
        /\ new[i].arr = rows[i].arr
    BY <1>1, <2>1, TimedIn
  <2> HIDE DEF p, q
  <2>3. /\ i < j => rows[i].arr <= rows[p].arr
        /\ j < i => rows[q].arr <= rows[i].arr
    BY <1>3, <2>1
  <2> QED
    BY <2>1, <2>2, <2>3
<1>6. ASSUME NEW i \in Fillable(rows), NEW j \in Fillable(rows), i < j
      PROVE  new[i].arr <= new[j].arr
  <2>1. CASE \E k \in Timed(rows) : i < k /\ k < j
    <3>1. PICK k \in Timed(rows) : i < k /\ k < j
      BY <2>1
    <3>2. new[i].arr <= new[k].arr /\ new[k].arr <= new[j].arr
      BY <1>5, <3>1
    <3>3. new[i].arr \in Int /\ new[j].arr \in Int /\ new[k].arr \in Int
      BY <1>1
    <3> QED
      BY <3>2, <3>3
  <2>2. CASE ~ \E k \in Timed(rows) : i < k /\ k < j
    <3>1. InterpolatedArrival(rows, i) <= InterpolatedArrival(rows, j)
      BY <1>6, <2>2, InterpolationMonotone DEF Fillable
    <3> QED
      BY <1>1, <3>1
  <2> QED
    BY <2>1, <2>2
<1>7. ASSUME NEW i \in Timed(new), NEW j \in Timed(new), i < j
      PROVE  new[i].arr <= new[j].arr
  BY <1>1, <1>5, <1>6, <1>7 DEF Forwards
<1> QED
  BY <1>7 DEF Forwards, new

(* What interpolation leaves empty cannot be placed, also between stops
   that it has filled. *)
LEMMA FilledPlaced ==
  ASSUME NEW rows, TripOK(rows), Forwards(rows), Onwards(rows), Divisible(rows)
  PROVE  Placed(FillArrivals(rows))
<1> DEFINE new == FillArrivals(rows)
<1>1. /\ TripOK(new) /\ DOMAIN new = DOMAIN rows
      /\ Timed(new) = Timed(rows) \cup Fillable(rows)
      /\ \A i \in DOMAIN rows : new[i].dist = rows[i].dist
  BY FilledRows
<1> HIDE DEF new
<1> SUFFICES ASSUME NEW i \in Empty(new), Between(new, i)
             PROVE  ByShape(new, i) /\ new[i].dist = None
  BY DEF Placed, Unplaced, new
<1>2. /\ i \in DOMAIN rows /\ i \in DOMAIN new /\ i \in Empty(rows) /\ ~Computable(rows, i)
      /\ i \in Nat
  <2>1. i \in DOMAIN new /\ i \notin Timed(new)
    BY DEF Empty
  <2> QED
    BY <1>1, <2>1, TimedIn DEF Empty, Fillable
(* A timed stop on either side was there before. *)
<1>3. ASSUME NEW j \in Timed(new)
      PROVE  /\ j < i => \E k \in Timed(rows) : k < i
             /\ i < j => \E k \in Timed(rows) : i < k
             /\ j \in Nat
  <2>1. CASE j \in Timed(rows)
    BY <2>1, TimedIn
  <2>2. CASE j \in Fillable(rows)
    <3>1. j \in DOMAIN rows /\ Between(rows, j) /\ j \in Nat
      BY <2>2, TimedIn DEF Fillable, Empty, Computable
    <3>2. PICK k \in Timed(rows), l \in Timed(rows) : k < j /\ j < l
      BY <3>1, Neighbours
    <3>3. k \in Nat /\ l \in Nat
      BY TimedIn
    <3> QED
      BY <1>2, <3>1, <3>2, <3>3
  <2> QED
    BY <1>1, <2>1, <2>2
<1>4. Between(rows, i)
  <2>1. PICK j \in Timed(new), l \in Timed(new) : j < i /\ i < l
    BY <1>1, <1>2, Neighbours
  <2> QED
    BY <1>2, <1>3, <2>1, Neighbours
<1>5. ByShape(rows, i) /\ rows[i].dist = None
  BY <1>2, <1>4 DEF Computable
<1> DEFINE p == Previous(rows, i)
           q == Following(rows, i)
<1>6. /\ p \in Timed(rows) /\ q \in Timed(rows) /\ p < i /\ i < q
      /\ \A j \in Timed(rows) : j < i => j <= p
      /\ \A j \in Timed(rows) : i < j => q <= j
  BY <1>2, <1>4, Neighbours
<1>7. p \in Nat /\ q \in Nat /\ p \in DOMAIN rows /\ q \in DOMAIN rows
      /\ rows[p].dist # None /\ rows[q].dist # None
  BY <1>5, <1>6, TimedIn DEF ByShape
(* What is filled between the same two has a distance. *)
<1>8. ASSUME NEW j \in Timed(new), p <= j, j <= q
      PROVE  j \in DOMAIN new /\ new[j].dist # None
  <2>1. CASE j \in Timed(rows)
    <3>1. j = p \/ j = q
      <4>1. j \in Nat /\ j # i
        BY <2>1, <1>2, TimedIn
      <4>2. j < i => j <= p
        BY <2>1, <1>6
      <4>3. i < j => q <= j
        BY <2>1, <1>6
      <4> QED
        BY <1>2, <1>7, <1>8, <4>1, <4>2, <4>3
    <3> QED
      BY <1>1, <1>7, <3>1
  <2>2. CASE j \in Fillable(rows)
    <3>1. j \in Empty(rows) /\ j \in DOMAIN rows /\ Computable(rows, j) /\ j \in Nat /\ j # i
          /\ j \notin Timed(rows)
      BY <2>2, <1>2, TimedIn DEF Fillable
    <3>2. Previous(rows, j) = p /\ Following(rows, j) = q
      <4>1. ASSUME NEW k \in Timed(rows)
            PROVE  ~(i < k /\ k < j) /\ ~(j < k /\ k < i)
        <5>1. k \in Nat /\ (k < i => k <= p) /\ (i < k => q <= k)
          BY <1>6, TimedIn
        <5> QED
          BY <1>2, <1>7, <1>8, <3>1, <5>1
      <4>2. CASE i < j
        BY <1>2, <3>1, <4>1, <4>2, SameNeighbours
      <4>3. CASE j < i
        BY <1>2, <3>1, <4>1, <4>3, SameNeighbours
      <4> QED
        BY <1>2, <3>1, <4>2, <4>3
    <3>3. ByShape(rows, j)
      BY <1>7, <3>2 DEF ByShape
    <3>4. rows[j].dist # None
      BY <3>1, <3>3 DEF Computable
    <3> QED
      BY <1>1, <3>1, <3>4
  <2> QED
    BY <1>1, <2>1, <2>2
<1> DEFINE pp == Previous(new, i)
           qq == Following(new, i)
<1>9. /\ pp \in Timed(new) /\ qq \in Timed(new) /\ pp < i /\ i < qq
      /\ \A j \in Timed(new) : j < i => j <= pp
      /\ \A j \in Timed(new) : i < j => qq <= j
  BY <1>1, <1>2, Neighbours
<1>10. p \in Timed(new) /\ q \in Timed(new)
  BY <1>1, <1>6
<1>11. pp \in Nat /\ qq \in Nat
  BY <1>1, <1>9, TimedIn
<1>12. p <= pp /\ pp <= q /\ p <= qq /\ qq <= q
  <2>1. p <= pp /\ qq <= q
    BY <1>6, <1>9, <1>10
  <2> HIDE DEF p, q, pp, qq
  <2> QED
    BY <1>2, <1>6, <1>7, <1>9, <1>11, <2>1
<1>13. ByShape(new, i)
  BY <1>8, <1>9, <1>12 DEF ByShape
<1>14. new[i].dist = None
  BY <1>1, <1>2, <1>5
<1> QED
  BY <1>13, <1>14

-----------------------------------------------------------------------------
(* updateEmptyDepartureTimes. *)

(* The statement gives a departure to every row with an arrival, and leaves
   arrivals and distances as they are. *)
LEMMA DepartedRows ==
  ASSUME NEW rows, TripOK(rows)
  PROVE  LET new == FillDepartures(rows) IN
         /\ TripOK(new) /\ DOMAIN new = DOMAIN rows
         /\ \A i \in DOMAIN rows : new[i].arr = rows[i].arr /\ new[i].dist = rows[i].dist
         /\ Timed(new) = Timed(rows) /\ Measured(new) = Measured(rows)
         /\ \A i \in Timed(new) : new[i].dep # None
<1> DEFINE new == FillDepartures(rows)
<1>1. DOMAIN new = DOMAIN rows
  BY DEF FillDepartures
<1>2. ASSUME NEW i \in DOMAIN rows
      PROVE  /\ StopTimeOK(new[i]) /\ new[i].arr = rows[i].arr /\ new[i].dist = rows[i].dist
             /\ rows[i].arr # None => new[i].dep # None
  <2>1. CASE rows[i].dep # None
    <3>1. new[i] = rows[i]
      BY <2>1 DEF FillDepartures
    <3> QED
      BY <2>1, <3>1 DEF TripOK
  <2>2. CASE rows[i].dep = None
    <3> DEFINE row == rows[i]
    <3>1. new[i] = [row EXCEPT !.dep = row.arr] /\ StopTimeOK(row) /\ row.dep = None
      BY <2>2 DEF FillDepartures, TripOK
    <3> HIDE DEF row, new
    <3>2. new[i] = [stop |-> row.stop, arr |-> row.arr, dep |-> row.arr, dist |-> row.dist,
                    given |-> row.given]
      BY <3>1 DEF StopTimeOK
    <3> QED
      BY <3>1, <3>2, NoneAssumption DEF StopTimeOK, Optional, row
  <2> QED
    BY <2>1, <2>2
<1> HIDE DEF new
<1>3. TripOK(new)
  BY <1>1, <1>2 DEF TripOK
<1>4. Timed(new) = Timed(rows) /\ Measured(new) = Measured(rows)
  BY <1>1, <1>2 DEF Timed, Measured
<1>5. \A i \in Timed(new) : new[i].dep # None
  BY <1>1, <1>2 DEF Timed
<1> QED
  BY <1>1, <1>2, <1>3, <1>4, <1>5 DEF new

(* So a trip still runs forwards. *)
LEMMA DepartedForwards ==
  ASSUME NEW rows, TripOK(rows), Forwards(rows)
  PROVE  Forwards(FillDepartures(rows))
<1> DEFINE new == FillDepartures(rows)
<1>1. Timed(new) = Timed(rows) /\ \A i \in DOMAIN rows : new[i].arr = rows[i].arr
  BY DepartedRows
<1> HIDE DEF new
<1> QED
  BY <1>1 DEF Forwards, Timed, new

(* Distances are as they were, and so is where they are used. *)
LEMMA SameDistances ==
  ASSUME NEW rows, NEW new, DOMAIN new = DOMAIN rows,
         \A i \in DOMAIN rows : new[i].dist = rows[i].dist
  PROVE  Onwards(rows) => Onwards(new)
BY DEF Onwards, Measured

(* And what is empty still cannot be placed. *)
LEMMA DepartedPlaced ==
  ASSUME NEW rows, TripOK(rows), Placed(rows)
  PROVE  Placed(FillDepartures(rows))
<1> DEFINE new == FillDepartures(rows)
<1>1. /\ DOMAIN new = DOMAIN rows /\ Timed(new) = Timed(rows) /\ TripOK(new)
      /\ \A i \in DOMAIN rows : new[i].dist = rows[i].dist
  BY DepartedRows
<1> HIDE DEF new
<1> SUFFICES ASSUME NEW i \in Empty(new), Between(new, i)
             PROVE  ByShape(new, i) /\ new[i].dist = None
  BY DEF Placed, Unplaced, new
<1>2. i \in Empty(rows) /\ i \in DOMAIN rows
  BY <1>1 DEF Empty
<1>3. Previous(new, i) = Previous(rows, i) /\ Following(new, i) = Following(rows, i)
  BY <1>1 DEF Previous, Following
<1>4. Between(rows, i)
  BY <1>3 DEF Between
<1>5. ByShape(rows, i) /\ rows[i].dist = None
  BY <1>2, <1>4 DEF Placed, Unplaced
<1>6. Previous(rows, i) \in DOMAIN rows /\ Following(rows, i) \in DOMAIN rows
  BY <1>2, <1>4, Neighbours, TimedIn
<1> QED
  BY <1>1, <1>2, <1>3, <1>5, <1>6 DEF ByShape

-----------------------------------------------------------------------------
(* The invariant of post-processing. *)

(* Every step of post-processing keeps the types and the order of the
   table, and leaves empty what cannot be placed only. *)
LEMMA PostProcessKeeps ==
  ASSUME TableOK, Filling, PostProcess
  PROVE  TableOK' /\ Filling'
<1>1. CASE CheckEmptyArrivals \/ FailPostProcessing
  <2>1. UNCHANGED table /\ processing' \notin {"departures", "done"}
    BY <1>1 DEF CheckEmptyArrivals, FailPostProcessing
  <2> QED
    BY <2>1 DEF TableOK, Filling
<1>2. CASE InterpolateEmptyArrivalTimes
  <2>1. CASE DividesByZero(table.stopTimes)
    <3>1. UNCHANGED table /\ processing' = "failed"
      BY <1>2, <2>1 DEF InterpolateEmptyArrivalTimes
    <3> QED
      BY <3>1 DEF TableOK, Filling
  <2>2. CASE ~DividesByZero(table.stopTimes)
    <3> DEFINE old == table.stopTimes
    <3>1. ASSUME NEW t \in DOMAIN table.stopTimes
          PROVE  LET new == FillArrivals(old[t]) IN
                 TripOK(new) /\ Forwards(new) /\ Onwards(new) /\ Placed(new)
      <4>1. TripOK(old[t]) /\ Forwards(old[t]) /\ Onwards(old[t]) /\ Divisible(old[t])
        BY <2>2 DEF TableOK, DividesByZero, Divisible
      <4> HIDE DEF old
      <4> QED
        BY <4>1, FilledRows, FilledForwards, FilledPlaced, SameDistances
    <3>2. /\ table'.stopTimes = [t \in DOMAIN old |-> FillArrivals(old[t])]
          /\ table'.trips = table.trips /\ table'.calendar = table.calendar
          /\ table' = [stopTimes |-> table'.stopTimes, trips |-> table'.trips,
                       calendar |-> table'.calendar]
          /\ processing' = "departures"
      BY <1>2, <2>2 DEF InterpolateEmptyArrivalTimes, TableOK
    <3> HIDE DEF old
    <3>3. TableOK'
      BY <3>1, <3>2 DEF TableOK, old
    <3>4. Filling'
      BY <3>1, <3>2 DEF Filling, old
    <3> QED
      BY <3>3, <3>4
  <2> QED
    BY <2>1, <2>2
<1>3. CASE UpdateEmptyDepartureTimes
  <2> DEFINE old == table.stopTimes
  <2>1. ASSUME NEW t \in DOMAIN table.stopTimes
        PROVE  LET new == FillDepartures(old[t]) IN
               /\ TripOK(new) /\ Forwards(new) /\ Onwards(new) /\ Placed(new)
               /\ \A i \in Timed(new) : new[i].dep # None
    <3>1. TripOK(old[t]) /\ Forwards(old[t]) /\ Onwards(old[t]) /\ Placed(old[t])
      BY <1>3 DEF UpdateEmptyDepartureTimes, TableOK, Filling
    <3> HIDE DEF old
    <3> QED
      BY <3>1, DepartedRows, DepartedForwards, DepartedPlaced, SameDistances
  <2>2. /\ table'.stopTimes = [t \in DOMAIN old |-> FillDepartures(old[t])]
        /\ table'.trips = table.trips /\ table'.calendar = table.calendar
        /\ table' = [stopTimes |-> table'.stopTimes, trips |-> table'.trips,
                     calendar |-> table'.calendar]
        /\ processing' = "done"
    BY <1>3 DEF UpdateEmptyDepartureTimes, TableOK
  <2> HIDE DEF old
  <2>3. TableOK'
    BY <2>1, <2>2 DEF TableOK, old
  <2>4. Filling'
    BY <2>1, <2>2 DEF Filling, old
  <2> QED
    BY <2>3, <2>4
<1> QED
  BY <1>1, <1>2, <1>3 DEF PostProcess

(* The order of the table is what riders see of it. *)
LEMMA TableInOrder == TableOK => TimesInOrder
BY DEF TableOK, TimesInOrder, Forwards

(* What is still empty when it is done cannot be placed. *)
LEMMA TableFilled == TableOK /\ Filling => GapsFilled
<1> SUFFICES ASSUME TableOK, Filling, processing = "done",
                    NEW t \in DOMAIN table.stopTimes, NEW i \in DOMAIN table.stopTimes[t]
             PROVE  LET rows == table.stopTimes[t] IN
                    IF i \in Empty(rows) THEN Between(rows, i) => ByShape(rows, i) /\ rows[i].dist = None
                    ELSE rows[i].dep # None /\ (rows[i].given => rows[i].dep > rows[i].arr)
  BY DEF GapsFilled
<1> DEFINE rows == table.stopTimes[t]
<1>1. Placed(rows) /\ TripOK(rows) /\ \A j \in Timed(rows) : rows[j].dep # None
  BY DEF TableOK, Filling
<1> HIDE DEF rows
<1>2. i \in DOMAIN rows
  BY DEF rows
<1>3. CASE i \in Empty(rows)
  BY <1>1, <1>3 DEF Placed, Unplaced, rows
<1>4. CASE i \notin Empty(rows)
  BY <1>1, <1>2, <1>4 DEF Empty, TripOK, StopTimeOK, rows
<1> QED
  BY <1>3, <1>4

-----------------------------------------------------------------------------
(* Times of day. *)

(* Filling in arrivals leaves departures after arrivals, and trips within
   two days. *)
LEMMA FilledTimely ==
  ASSUME NEW rows, TripOK(rows), Forwards(rows), Onwards(rows), Divisible(rows),
         Calls(rows), WithinTwoDays(rows)
  PROVE  Calls(FillArrivals(rows)) /\ WithinTwoDays(FillArrivals(rows))
<1> DEFINE new == FillArrivals(rows)
<1>1. /\ DOMAIN new = DOMAIN rows /\ Timed(new) = Timed(rows) \cup Fillable(rows)
      /\ \A i \in Timed(rows) : new[i].arr = rows[i].arr
      /\ \A i \in Fillable(rows) : new[i].arr = InterpolatedArrival(rows, i)
  BY FilledRows
<1>2. ASSUME NEW i \in DOMAIN rows PROVE new[i].dep = rows[i].dep
  <2>1. StopTimeOK(rows[i])
    BY DEF TripOK
  <2> DEFINE row == rows[i]
             a == InterpolatedArrival(rows, i)
  <2>2. new[i] = row \/ new[i] = [row EXCEPT !.arr = a]
    BY DEF FillArrivals
  <2> HIDE DEF row, a, new
  <2>3. StopTimeOK(row)
    BY <2>1 DEF row
  <2>4. [row EXCEPT !.arr = a].dep = row.dep
    BY <2>3 DEF StopTimeOK
  <2> QED
    BY <2>2, <2>4 DEF row
<1> HIDE DEF new
<1>3. ASSUME NEW i \in DOMAIN new, new[i].dep # None
      PROVE  new[i].arr # None /\ new[i].arr <= new[i].dep
  <2>1. rows[i].dep # None /\ rows[i].arr # None /\ rows[i].arr <= rows[i].dep /\ i \in Timed(rows)
    BY <1>1, <1>2, <1>3 DEF Calls, Timed
  <2> QED
    BY <1>1, <1>2, <2>1
<1>4. ASSUME NEW i \in Timed(new) PROVE new[i].arr \in 0..(2 * Day)
  <2>1. CASE i \in Timed(rows)
    BY <1>1, <2>1 DEF WithinTwoDays
  <2>2. CASE i \in Fillable(rows)
    <3> DEFINE p == Previous(rows, i)
               q == Following(rows, i)
    <3>1. i \in Empty(rows) /\ Computable(rows, i) /\ Span(rows, i) # 0 /\ i \in DOMAIN rows
          /\ Between(rows, i)
      BY <2>2 DEF Fillable, Divisible, Empty, Computable
    <3>2. /\ InterpolatedArrival(rows, i) \in Int /\ rows[p].arr <= InterpolatedArrival(rows, i)
          /\ InterpolatedArrival(rows, i) <= rows[q].arr
      BY <3>1, InterpolationBetween
    <3>3. p \in Timed(rows) /\ q \in Timed(rows)
      BY <3>1, Neighbours
    <3> HIDE DEF p, q
    <3>4. rows[p].arr \in 0..(2 * Day) /\ rows[q].arr \in 0..(2 * Day)
      BY <3>3 DEF WithinTwoDays
    <3>5. new[i].arr = InterpolatedArrival(rows, i)
      BY <1>1, <2>2
    <3> QED
      BY <3>2, <3>4, <3>5, DayAssumption
  <2> QED
    BY <1>1, <2>1, <2>2
<1> QED
  BY <1>3, <1>4 DEF Calls, WithinTwoDays, new

(* Filling in departures does too. *)
LEMMA DepartedTimely ==
  ASSUME NEW rows, TripOK(rows), Calls(rows), WithinTwoDays(rows)
  PROVE  Calls(FillDepartures(rows)) /\ WithinTwoDays(FillDepartures(rows))
<1> DEFINE new == FillDepartures(rows)
<1>1. /\ DOMAIN new = DOMAIN rows /\ Timed(new) = Timed(rows)
      /\ \A i \in DOMAIN rows : new[i].arr = rows[i].arr
  BY DepartedRows
<1>2. ASSUME NEW i \in DOMAIN rows
      PROVE  new[i].dep = IF rows[i].dep = None THEN rows[i].arr ELSE rows[i].dep
  <2> DEFINE row == rows[i]
  <2>1. StopTimeOK(row)
    BY DEF TripOK
  <2>2. new[i] = IF row.dep = None THEN [row EXCEPT !.dep = row.arr] ELSE row
    BY DEF FillDepartures
  <2> HIDE DEF row, new
  <2>3. [row EXCEPT !.dep = row.arr].dep = row.arr
    BY <2>1 DEF StopTimeOK
  <2> QED
    BY <2>2, <2>3 DEF row
<1> HIDE DEF new
<1>3. ASSUME NEW i \in DOMAIN new, new[i].dep # None
      PROVE  new[i].arr # None /\ new[i].arr <= new[i].dep
  <2>1. CASE rows[i].dep = None
    <3>1. new[i].dep = rows[i].arr /\ new[i].arr = rows[i].arr /\ rows[i].arr # None
      BY <1>1, <1>2, <1>3, <2>1
    <3>2. i \in Timed(rows)
      BY <1>1, <3>1 DEF Timed
    <3> QED
      BY <3>1, <3>2, TimedIn
  <2>2. CASE rows[i].dep # None
    BY <1>1, <1>2, <2>2 DEF Calls
  <2> QED
    BY <2>1, <2>2
<1>4. ASSUME NEW i \in Timed(new) PROVE new[i].arr \in 0..(2 * Day)
  BY <1>1 DEF WithinTwoDays, Timed
<1> QED
  BY <1>3, <1>4 DEF Calls, WithinTwoDays, new

(* So does every step of post-processing. *)
LEMMA PostProcessTimely ==
  ASSUME TableOK, Timely, PostProcess
  PROVE  Timely'
<1>1. CASE UNCHANGED table
  BY <1>1 DEF Timely
<1> DEFINE old == table.stopTimes
<1>2. CASE InterpolateEmptyArrivalTimes /\ ~DividesByZero(table.stopTimes)
  <2>1. table'.stopTimes = [t \in DOMAIN old |-> FillArrivals(old[t])]
    BY <1>2 DEF InterpolateEmptyArrivalTimes, TableOK
  <2>2. ASSUME NEW t \in DOMAIN old
        PROVE  Calls(FillArrivals(old[t])) /\ WithinTwoDays(FillArrivals(old[t]))
    <3>1. /\ TripOK(old[t]) /\ Forwards(old[t]) /\ Onwards(old[t]) /\ Divisible(old[t])
          /\ Calls(old[t]) /\ WithinTwoDays(old[t])
      BY <1>2 DEF TableOK, DividesByZero, Divisible, Timely
    <3> HIDE DEF old
    <3> QED
      BY <3>1, FilledTimely
  <2> HIDE DEF old
  <2> QED
    BY <2>1, <2>2 DEF Timely
<1>3. CASE UpdateEmptyDepartureTimes
  <2>1. table'.stopTimes = [t \in DOMAIN old |-> FillDepartures(old[t])]
    BY <1>3 DEF UpdateEmptyDepartureTimes, TableOK
  <2>2. ASSUME NEW t \in DOMAIN old
        PROVE  Calls(FillDepartures(old[t])) /\ WithinTwoDays(FillDepartures(old[t]))
    <3>1. TripOK(old[t]) /\ Calls(old[t]) /\ WithinTwoDays(old[t])
      BY <1>3 DEF TableOK, Timely
    <3> HIDE DEF old
    <3> QED
      BY <3>1, DepartedTimely
  <2> HIDE DEF old
  <2> QED
    BY <2>1, <2>2 DEF Timely
<1> QED
  BY <1>1, <1>2, <1>3 DEF PostProcess, CheckEmptyArrivals, FailPostProcessing,
                          InterpolateEmptyArrivalTimes

-----------------------------------------------------------------------------
(* The theorems. *)

(* The invariant of post-processing. *)
LEMMA TimetableInvariant == TimetableSpec => [](TableOK /\ Filling)
<1>1. TableOK /\ Filling /\ [PostProcess]_timetableVars => (TableOK /\ Filling)'
  <2>1. CASE PostProcess
    BY <2>1, PostProcessKeeps
  <2>2. CASE UNCHANGED timetableVars
    BY <2>2 DEF timetableVars, TableOK, Filling
  <2> QED
    BY <2>1, <2>2
<1> QED
  BY <1>1, PTL DEF TimetableSpec

(***************************************************************************)
(* No trip runs backwards, after any part of the post-processing of any    *)
(* table in which the given times and distances do not decrease.           *)
(***************************************************************************)
THEOREM TripsRunForwards == TimetableSpec => []TimesInOrder
BY TimetableInvariant, TableInOrder, PTL

(***************************************************************************)
(* What is without times when post-processing is done cannot be placed,    *)
(* and a departure that the agency gave stays.                             *)
(***************************************************************************)
THEOREM GapsAreFilled == TimetableSpec => []GapsFilled
BY TimetableInvariant, TableFilled, PTL

-----------------------------------------------------------------------------
(* What does not change what is answered. *)

(* A step that leaves what an answer is made of. *)
Same == UNCHANGED <<table, processing, feeds, request, now>>

(* The schedule is read from the table. *)
LEMMA SameSchedule ==
  ASSUME Same, NEW r, NEW s, NEW day
  PROVE  ScheduleForRouteAtStop(r, s, day)' = ScheduleForRouteAtStop(r, s, day)
<1>1. ActiveServices(day)' = ActiveServices(day)
  BY DEF ActiveServices, Same
<1>2. RouteTrips(r, day)' = RouteTrips(r, day)
  BY <1>1 DEF RouteTrips, Same
<1>3. \A x : x \in ScheduleForRouteAtStop(r, s, day)' <=> x \in ScheduleForRouteAtStop(r, s, day)
  BY <1>2 DEF ScheduleForRouteAtStop, Same
<1> QED
  BY <1>3

(* So are the rows of a date and a pair. *)
LEMMA SameRows ==
  ASSUME Same, NEW g, NEW p, NEW date, NEW i
  PROVE  RowsOf(g, p, date, i)' = RowsOf(g, p, date, i)
<1> DEFINE day == now \div Day + date
<1>1. PICK d : d = day
  OBVIOUS
<1>2. day' = d
  BY <1>1 DEF Same
<1>3. ScheduleForRouteAtStop(p[i].route, p[i].stop, d)' = ScheduleForRouteAtStop(p[i].route, p[i].stop, d)
  BY SameSchedule
<1> HIDE DEF day
<1> QED
  BY <1>1, <1>2, <1>3 DEF RowsOf, day

(* What a cancellation may hide is the same. *)
LEMMA SameHidden == ASSUME Same, NEW r PROVE Hidden(r)' = Hidden(r)
BY DEF Hidden, FeasiblyActive, Distance, Same

(* The rows that are shown are the same. *)
LEMMA SameShown ==
  ASSUME Same, NEW g, NEW p PROVE ShownRows(g, p)' = ShownRows(g, p)
<1> DEFINE all == UNION {RowsOf(g, p, date, i) : date \in ScheduleDates, i \in DOMAIN p}
<1>1. \A x : x \in all' <=> x \in all
  BY SameRows DEF ScheduleDates
<1>2. all' = all
  <2> HIDE DEF all
  <2> QED
    BY <1>1
<1>3. ShownRows(g, p) = {x \in all : x.r.times.dep >= now /\ ~Hidden(x.r)}
  BY DEF ShownRows
<1>4. ShownRows(g, p)' = {x \in all' : x.r.times.dep >= now' /\ ~Hidden(x.r)'}
  BY DEF ShownRows
<1> HIDE DEF all
<1>5. now' = now
  BY DEF Same
<1>6. \A x : x \in ShownRows(g, p)' <=> x \in ShownRows(g, p)
  BY <1>2, <1>3, <1>4, <1>5, SameHidden
<1> QED
  BY <1>6

(* And the trips of the timetable. *)
LEMMA SameGtfsTrips ==
  ASSUME Same, NEW g, NEW p PROVE GtfsTrips(g, p)' = GtfsTrips(g, p)
<1>1. PICK s : s = ShownRows(g, p)
  OBVIOUS
<1>2. ShownRows(g, p)' = s
  BY <1>1, SameShown
<1> DEFINE Trips(shown) ==
  {[trip |-> x.r.row.trip, route |-> x.r.row.route, stop |-> x.r.row.stop,
    dir |-> x.r.row.dir, arr |-> x.r.times.arr, dep |-> x.r.times.dep,
    realtime |-> x.r.times.realtime] :
     x \in {y \in shown : ~\E z \in shown : SameKey(y, z) /\ Before(z, y)}}
<1>3. GtfsTrips(g, p) = Trips(s)
  BY <1>1 DEF GtfsTrips
<1>4. GtfsTrips(g, p)' = Trips(s)
  BY <1>2 DEF GtfsTrips
<1> QED
  BY <1>3, <1>4

(* Any provider answers the same. *)
LEMMA SameProviderTrips ==
  ASSUME Same, NEW provider, NEW p PROVE ProviderTrips(provider, p)' = ProviderTrips(provider, p)
<1>1. now' = now /\ GtfsTrips(provider, p)' = GtfsTrips(provider, p)
  BY SameGtfsTrips DEF Same
<1> QED
  BY <1>1 DEF ProviderTrips

(* A pair is refused or not as before. *)
LEMMA SamePairError ==
  ASSUME Same, NEW pair PROVE PairError(pair)' = PairError(pair)
BY DEF PairError, IdError, Same

(* So ScheduleService gets the same answer. *)
LEMMA SameUpcomingTrips ==
  ASSUME Same PROVE UpcomingTrips' = UpcomingTrips
<1>1. PICK f, r : f = feeds /\ r = request
  OBVIOUS
<1>2. feeds' = f /\ request' = r
  BY <1>1 DEF Same
<1>3. \A provider, p : ProviderTrips(provider, p)' = ProviderTrips(provider, p)
  BY SameProviderTrips
<1>4. \A pair : PairError(pair)' = PairError(pair)
  BY SamePairError
<1>5. ASSUME NEW pairs PROVE AllFeedsTrips(pairs)' = AllFeedsTrips(pairs)
  <2> DEFINE refused == {i \in DOMAIN pairs : PairError(pairs[i]) # None}
             involved == {pairs[i].stop.feed : i \in DOMAIN pairs}
             Of(feed) == ProviderTrips(f[feed], PairsOfFeed(pairs, feed))
             all == UNION {Globally(feed, Of(feed)) : feed \in involved}
  <2>1. refused' = refused
    BY <1>4
  <2>2. \A feed : Of(feed)' = Of(feed)
    BY <1>3
  <2>3. all' = all
    <3>1. \A x : x \in all' <=> x \in all
      BY <2>2
    <3> HIDE DEF all
    <3> QED
      BY <3>1
  <2>4. PICK R, all0 : R = refused /\ all0 = all
    OBVIOUS
  <2>5. refused' = R /\ all' = all0
    BY <2>1, <2>3, <2>4
  <2>6. AllFeedsTrips(pairs) =
          IF R # {} THEN [error |-> PairError(pairs[Min(R)])]
          ELSE IF \E feed \in involved : Of(feed) = Failed THEN [error |-> "upstream"]
          ELSE [trips |-> all0]
    BY <1>1, <2>4 DEF AllFeedsTrips
  <2>7. AllFeedsTrips(pairs)' =
          IF R # {} THEN [error |-> PairError(pairs[Min(R)])']
          ELSE IF \E feed \in involved : Of(feed)' = Failed THEN [error |-> "upstream"]
          ELSE [trips |-> all0]
    BY <1>2, <2>5 DEF AllFeedsTrips
  <2>8. PairError(pairs[Min(R)])' = PairError(pairs[Min(R)])
    BY <1>4
  <2> HIDE DEF refused, all
  <2> QED
    BY <2>2, <2>6, <2>7, <2>8
<1> QED
  BY <1>1, <1>2, <1>3, <1>5 DEF UpcomingTrips

-----------------------------------------------------------------------------
(* Recursion over the subsets of a finite set. *)

(* Of the subsets of a finite set one of any family has no other in it. *)
LEMMA SmallestSubset ==
  ASSUME NEW S, IsFiniteSet(S), NEW C \in SUBSET (SUBSET S), C # {}
  PROVE  \E T \in C : \A U \in C : U \subseteq T => U = T
<1>1. IsWellFoundedOn(StrictSubsetOrdering(S), SUBSET S)
  BY FS_StrictSubsetOrderingWellFounded, FS_FiniteSubsetsOfFinite
<1>2. PICK T \in C : \A U \in C : ~ (<<U, T>> \in StrictSubsetOrdering(S))
  BY <1>1, WFMin
<1> QED
  BY <1>2 DEF StrictSubsetOrdering

(* g takes pick[T] from T and applies next[T] to its value for the rest. *)
Recurs(S, base, pick, next, g) ==
  g = [T \in SUBSET S |-> IF T = {} THEN base ELSE next[T][g[T \ {pick[T]}]]]

(* Such a function is determined, on each subset by the subsets of that
   subset: by induction, as of the subsets where two differ one would be
   smallest. *)
LEMMA RecursionUnique ==
  ASSUME NEW S, NEW T, T \subseteq S, IsFiniteSet(T), NEW base, NEW pick, NEW next,
         \A U \in SUBSET S : U # {} => pick[U] \in U,
         NEW g, Recurs(S, base, pick, next, g), NEW h, Recurs(T, base, pick, next, h)
  PROVE  g[T] = h[T]
<1> DEFINE C == {U \in SUBSET T : g[U] # h[U]}
<1>1. CASE C = {}
  BY <1>1
<1>2. CASE C # {}
  <2>1. PICK U \in C : \A V \in C : V \subseteq U => V = U
    <3>1. C \in SUBSET (SUBSET T)
      OBVIOUS
    <3> HIDE DEF C
    <3> QED
      BY <1>2, <3>1, SmallestSubset
  <2>2. U \subseteq T /\ U \subseteq S /\ g[U] # h[U]
    BY <2>1
  <2>3. /\ g[U] = IF U = {} THEN base ELSE next[U][g[U \ {pick[U]}]]
        /\ h[U] = IF U = {} THEN base ELSE next[U][h[U \ {pick[U]}]]
    BY <2>2 DEF Recurs
  <2>4. U # {} /\ g[U \ {pick[U]}] # h[U \ {pick[U]}]
    BY <2>2, <2>3
  <2>5. U \ {pick[U]} \in C /\ pick[U] \in U
    BY <2>2, <2>4
  <2> QED
    BY <2>1, <2>5
<1> QED
  BY <1>1, <1>2

(* And it exists. *)
LEMMA RecursionExists ==
  ASSUME NEW S, IsFiniteSet(S), NEW base, NEW pick, NEW next,
         \A U \in SUBSET S : U # {} => pick[U] \in U
  PROVE  \E g : Recurs(S, base, pick, next, g)
<1> DEFINE C == {U \in SUBSET S : ~ \E g : Recurs(U, base, pick, next, g)}
           Rec(U) == CHOOSE g : Recurs(U, base, pick, next, g)
<1>1. CASE C = {}
  BY <1>1
<1>2. CASE C # {}
  <2>1. PICK U \in C : \A V \in C : V \subseteq U => V = U
    <3>1. C \in SUBSET (SUBSET S)
      OBVIOUS
    <3> HIDE DEF C
    <3> QED
      BY <1>2, <3>1, SmallestSubset
  <2>2. U \subseteq S /\ ~ \E g : Recurs(U, base, pick, next, g)
    BY <2>1
  <2>3. ASSUME NEW V, V \subseteq U, V # U
        PROVE  Recurs(V, base, pick, next, Rec(V)) /\ IsFiniteSet(V)
    <3>1. \E g : Recurs(V, base, pick, next, g)
      BY <2>1, <2>2, <2>3
    <3>2. IsFiniteSet(V)
      BY <2>2, <2>3, FS_Subset
    <3> QED
      BY <3>1, <3>2
  <2> DEFINE Rest(T) == T \ {pick[T]}
             g == [T \in SUBSET U |-> IF T = {} THEN base ELSE next[T][Rec(Rest(T))[Rest(T)]]]
  <2>4. ASSUME NEW V \in SUBSET U, V # U PROVE g[V] = Rec(V)[V]
    <3>1. Rec(V)[V] = IF V = {} THEN base ELSE next[V][Rec(V)[Rest(V)]]
      <4>1. Recurs(V, base, pick, next, Rec(V))
        BY <2>3, <2>4
      <4> HIDE DEF Rec
      <4> QED
        BY <4>1 DEF Recurs
    <3>2. CASE V = {}
      BY <3>1, <3>2
    <3>3. CASE V # {}
      <4>1. /\ Rest(V) \subseteq V /\ Rest(V) \subseteq U
            /\ Rest(V) # U /\ pick[V] \in V
        BY <2>2, <2>4, <3>3
      <4>2. Rec(V)[Rest(V)] = Rec(Rest(V))[Rest(V)]
        <5>1. /\ Recurs(V, base, pick, next, Rec(V))
              /\ Recurs(Rest(V), base, pick, next, Rec(Rest(V))) /\ IsFiniteSet(Rest(V))
          BY <2>3, <2>4, <4>1
        <5>2. \A X \in SUBSET V : X # {} => pick[X] \in X
          BY <2>2, <2>4
        <5> HIDE DEF Rec, Rest
        <5> QED
          BY <4>1, <5>1, <5>2, RecursionUnique
      <4> QED
        BY <3>1, <3>3, <4>2
    <3> QED
      BY <3>2, <3>3
  <2>5. ASSUME NEW T \in SUBSET U, T # {}
        PROVE  g[Rest(T)] = Rec(Rest(T))[Rest(T)]
    <3>1. Rest(T) \in SUBSET U /\ Rest(T) # U
      BY <2>2, <2>5
    <3> QED
      BY <2>4, <3>1
  <2>6. Recurs(U, base, pick, next, g)
    <3> DEFINE G == [T \in SUBSET U |-> IF T = {} THEN base ELSE next[T][g[T \ {pick[T]}]]]
    <3>1. ASSUME NEW T \in SUBSET U PROVE g[T] = G[T]
      <4>1. CASE T = {}
        BY <4>1
      <4>2. CASE T # {}
        <5>1. g[T] = next[T][Rec(Rest(T))[Rest(T)]]
          BY <4>2
        <5>2. G[T] = next[T][g[Rest(T)]]
          BY <4>2
        <5>3. g[Rest(T)] = Rec(Rest(T))[Rest(T)]
          BY <2>5, <4>2
        <5> HIDE DEF g, G, Rec, Rest
        <5> QED
          BY <5>1, <5>2, <5>3
      <4> QED
        BY <4>1, <4>2
    <3> SUFFICES g = G
      BY Zenon DEF Recurs
    <3>2. g = [T \in SUBSET U |-> g[T]]
      <4> HIDE DEF Rec, Rest
      <4> QED
        OBVIOUS
    <3>3. G = [T \in SUBSET U |-> G[T]]
      <4> HIDE DEF g
      <4> QED
        OBVIOUS
    <3> HIDE DEF g, G
    <3> QED
      BY <3>1, <3>2, <3>3
  <2> QED
    BY <2>2, <2>6
<1> QED
  BY <1>1, <1>2

(* Of finitely many things one comes first. *)
LEMMA LeastKey ==
  ASSUME NEW S, IsFiniteSet(S), S # {}, NEW key, \A x \in S : key[x] \in Int
  PROVE  \E m \in S : \A x \in S : key[m] <= key[x]
<1> DEFINE C == {T \in SUBSET S : T # {} /\ ~ \E m \in T : \A x \in T : key[m] <= key[x]}
<1>1. CASE C = {}
  BY <1>1
<1>2. CASE C # {}
  <2>1. PICK T \in C : \A V \in C : V \subseteq T => V = T
    <3>1. C \in SUBSET (SUBSET S)
      OBVIOUS
    <3> HIDE DEF C
    <3> QED
      BY <1>2, <3>1, SmallestSubset
  <2>2. T \subseteq S /\ T # {} /\ ~ \E m \in T : \A x \in T : key[m] <= key[x]
    BY <2>1
  <2>3. PICK y \in T : TRUE
    BY <2>2
  <2> DEFINE V == T \ {y}
  <2>4. V \notin C /\ V \subseteq S
    BY <2>1, <2>2
  <2>5. CASE V = {}
    <3>1. \A x \in T : x = y
      BY <2>5
    <3>2. key[y] \in Int
      BY <2>2
    <3> QED
      BY <2>2, <3>1, <3>2
  <2>6. CASE V # {}
    <3>1. PICK m \in V : \A x \in V : key[m] <= key[x]
      BY <2>4, <2>6
    <3>2. key[m] \in Int /\ key[y] \in Int /\ m \in T /\ \A x \in T : key[x] \in Int
      BY <2>2, <3>1
    <3>3. CASE key[m] <= key[y]
      <4>1. \A x \in T : key[m] <= key[x]
        BY <3>1, <3>3
      <4> QED
        BY <2>2, <3>2, <4>1
    <3>4. CASE key[y] < key[m]
      <4>1. ASSUME NEW x \in T PROVE key[y] <= key[x]
        <5>1. CASE x = y
          BY <3>2, <5>1
        <5>2. CASE x # y
          <6>1. key[m] <= key[x] /\ key[x] \in Int
            BY <3>1, <3>2, <5>2
          <6> QED
            BY <3>2, <3>4, <6>1
        <5> QED
          BY <5>1, <5>2
      <4> QED
        BY <2>2, <4>1
    <3> QED
      BY <3>2, <3>3, <3>4
  <2> QED
    BY <2>5, <2>6
<1> QED
  BY <1>1, <1>2

-----------------------------------------------------------------------------
(* Array.prototype.sort of the trips. *)

(* The trip that is taken first. *)
First(T) == CHOOSE t \in T : \A u \in T : SortKey(t) <= SortKey(u)

(* The recursion of SortedTrips, as a function g. *)
IsSorting(S, g) ==
  g = [T \in SUBSET S |-> IF T = {} THEN <<>> ELSE <<First(T)>> \o g[T \ {First(T)}]]

(* Trips in the order of the board. *)
InOrder(s) == \A i, j \in DOMAIN s : i < j => SortKey(s[i]) <= SortKey(s[j])

(* SortedTrips can choose a first trip of each set. *)
LEMMA FirstIs ==
  ASSUME NEW S, IsFiniteSet(S), S # {}, \A t \in S : SortKey(t) \in Int
  PROVE  First(S) \in S /\ \A u \in S : SortKey(First(S)) <= SortKey(u)
<1> DEFINE key == [t \in S |-> SortKey(t)]
<1>1. \A t \in S : key[t] \in Int /\ key[t] = SortKey(t)
  OBVIOUS
<1> HIDE DEF key
<1>2. \E m \in S : \A x \in S : key[m] <= key[x]
  BY <1>1, LeastKey
<1>3. \E m \in S : \A x \in S : SortKey(m) <= SortKey(x)
  BY <1>1, <1>2
<1> QED
  BY <1>3 DEF First

(* So the recursion that it is defined by has a solution. *)
LEMMA SortingExists ==
  ASSUME NEW S, IsFiniteSet(S), \A t \in S : SortKey(t) \in Int
  PROVE  \E g : IsSorting(S, g)
<1> DEFINE pick == [T \in SUBSET S |-> First(T)]
           next == [T \in SUBSET S |-> [s \in Seq(S) |-> <<First(T)>> \o s]]
<1>1. \A T \in SUBSET S : T # {} => First(T) \in T
  <2> SUFFICES ASSUME NEW T \in SUBSET S, T # {} PROVE First(T) \in T
    OBVIOUS
  <2>1. IsFiniteSet(T)
    BY FS_Subset
  <2> QED
    BY <2>1, FirstIs
<1>2. \A T \in SUBSET S : T # {} => pick[T] \in T
  BY <1>1
<1>3. PICK g : Recurs(S, <<>>, pick, next, g)
  <2> HIDE DEF pick, next
  <2> QED
    BY <1>2, RecursionExists
<1>4. \A T \in SUBSET S : g[T] = IF T = {} THEN <<>> ELSE next[T][g[T \ {First(T)}]]
  BY <1>3 DEF Recurs
<1>5. \A T \in SUBSET S : g[T] \in Seq(S)
  <2> DEFINE C == {T \in SUBSET S : g[T] \notin Seq(S)}
  <2>1. CASE C = {}
    BY <2>1
  <2>2. CASE C # {}
    <3>1. PICK T \in C : \A V \in C : V \subseteq T => V = T
      <4>1. C \in SUBSET (SUBSET S)
        OBVIOUS
      <4> HIDE DEF C
      <4> QED
        BY <2>2, <4>1, SmallestSubset
    <3>2. T \in SUBSET S /\ g[T] \notin Seq(S)
      BY <3>1
    <3>3. T # {}
      <4>1. <<>> \in Seq(S)
        OBVIOUS
      <4>2. T = {} => g[T] = <<>>
        BY <3>2, <1>4
      <4> QED
        BY <3>2, <4>1, <4>2
    <3>4. First(T) \in T /\ First(T) \in S
      BY <3>2, <3>3, <1>1
    <3> DEFINE V == T \ {First(T)}
    <3>5. g[V] \in Seq(S)
      BY <3>1, <3>2, <3>4
    <3>6. g[T] = <<First(T)>> \o g[V]
      <4>1. g[T] = next[T][g[V]]
        BY <1>4, <3>2, <3>3
      <4> HIDE DEF V
      <4> QED
        BY <4>1, <3>2, <3>5
    <3> QED
      BY <3>2, <3>4, <3>5, <3>6
  <2> QED
    BY <2>1, <2>2
<1>6. ASSUME NEW T \in SUBSET S
      PROVE  g[T] = IF T = {} THEN <<>> ELSE <<First(T)>> \o g[T \ {First(T)}]
  <2>1. g[T \ {First(T)}] \in Seq(S)
    BY <1>5
  <2> QED
    BY <1>4, <2>1
<1>7. g = [T \in SUBSET S |-> g[T]]
  BY <1>3 DEF Recurs
<1> HIDE DEF pick, next
<1>8. IsSorting(S, g)
  <2> DEFINE h == [T \in SUBSET S |-> IF T = {} THEN <<>> ELSE <<First(T)>> \o g[T \ {First(T)}]]
  <2>1. h = [T \in SUBSET S |-> h[T]] /\ \A T \in SUBSET S : g[T] = h[T]
    BY <1>6
  <2> SUFFICES g = h
    BY Zenon DEF IsSorting
  <2> HIDE DEF h
  <2> QED
    BY <1>7, <2>1
<1> QED
  BY <1>8

(* The trips are all there, in order. *)
LEMMA SortedIs ==
  ASSUME NEW S, IsFiniteSet(S), \A t \in S : SortKey(t) \in Int
  PROVE  /\ SortedTrips(S) \in Seq(S)
         /\ \A t \in S : \E i \in DOMAIN SortedTrips(S) : SortedTrips(S)[i] = t
         /\ InOrder(SortedTrips(S))
<1> DEFINE g == CHOOSE h : IsSorting(S, h)
<1>1. SortedTrips(S) = g[S]
  BY DEF SortedTrips, IsSorting, First
<1>2. IsSorting(S, g)
  BY SortingExists
<1> HIDE DEF g
<1> DEFINE Good(T) == /\ g[T] \in Seq(T)
                      /\ \A t \in T : \E i \in DOMAIN g[T] : g[T][i] = t
                      /\ InOrder(g[T])
           C == {T \in SUBSET S : ~Good(T)}
<1>3. CASE C = {}
  BY <1>1, <1>3
<1>4. CASE C # {}
  <2>1. PICK T \in C : \A V \in C : V \subseteq T => V = T
    <3>1. C \in SUBSET (SUBSET S)
      OBVIOUS
    <3> HIDE DEF C
    <3> QED
      BY <1>4, <3>1, SmallestSubset
  <2>2. T \in SUBSET S /\ ~Good(T)
    BY <2>1
  <2>3. CASE T = {}
    <3>1. g[T] = <<>>
      BY <1>2, <2>3 DEF IsSorting
    <3> QED
      BY <2>2, <2>3, <3>1 DEF InOrder
  <2>4. CASE T # {}
    <3>1. First(T) \in T /\ \A u \in T : SortKey(First(T)) <= SortKey(u)
      BY <2>2, <2>4, FS_Subset, FirstIs
    <3> DEFINE f == First(T)
               V == T \ {f}
               s == g[V]
    <3>2. Good(V)
      <4>1. V \in SUBSET S /\ V \subseteq T /\ V # T
        BY <2>2, <3>1
      <4> HIDE DEF V, f, Good
      <4> QED
        BY <2>1, <4>1
    <3>3. g[T] = <<f>> \o s
      BY <1>2, <2>2, <2>4 DEF IsSorting
    <3> HIDE DEF s, f
    <3>4. /\ s \in Seq(V) /\ InOrder(s) /\ \A t \in V : \E i \in DOMAIN s : s[i] = t
          /\ f \in T /\ \A u \in T : SortKey(f) <= SortKey(u)
      BY <3>1, <3>2 DEF s, f
    <3> DEFINE w == <<f>> \o s
    <3>5. /\ s \in Seq(T) /\ Len(s) \in Nat /\ DOMAIN s = 1..Len(s)
          /\ \A i \in DOMAIN s : s[i] \in T
      BY <3>4
    <3>6. /\ w \in Seq(T) /\ DOMAIN w = 1..(Len(s) + 1) /\ w[1] = f
          /\ \A i \in 1..Len(s) : w[i + 1] = s[i]
      BY <3>4, <3>5
    <3> HIDE DEF w
    <3>7. \A t \in T : \E i \in DOMAIN w : w[i] = t
      <4> SUFFICES ASSUME NEW t \in T PROVE \E i \in DOMAIN w : w[i] = t
        OBVIOUS
      <4>1. CASE t = f
        <5>1. 1 \in DOMAIN w
          BY <3>5, <3>6
        <5> QED
          BY <4>1, <5>1, <3>6
      <4>2. CASE t # f
        <5>1. PICK i \in DOMAIN s : s[i] = t
          BY <4>2, <3>4
        <5>2. i \in 1..Len(s) /\ i + 1 \in DOMAIN w
          BY <5>1, <3>5, <3>6
        <5> QED
          BY <5>1, <5>2, <3>6
      <4> QED
        BY <4>1, <4>2
    <3>8. InOrder(w)
      <4> SUFFICES ASSUME NEW i \in DOMAIN w, NEW j \in DOMAIN w, i < j
                   PROVE  SortKey(w[i]) <= SortKey(w[j])
        BY DEF InOrder
      <4>1. j - 1 \in DOMAIN s /\ w[j] = s[j - 1] /\ w[j] \in T
        BY <3>5, <3>6
      <4>2. CASE i = 1
        BY <4>1, <4>2, <3>4, <3>6
      <4>3. CASE i # 1
        <5>1. i - 1 \in DOMAIN s /\ w[i] = s[i - 1] /\ i - 1 < j - 1
          BY <4>3, <3>5, <3>6
        <5> QED
          BY <4>1, <5>1, <3>4 DEF InOrder
      <4> QED
        BY <4>2, <4>3
    <3> QED
      BY <2>2, <3>3, <3>6, <3>7, <3>8 DEF w
  <2> QED
    BY <2>3, <2>4
<1> QED
  BY <1>3, <1>4

-----------------------------------------------------------------------------
(* NextPerRoute and the limit. *)

(* t is in a list, or an earlier trip of its route and direction is when
   only the next of each is wanted. *)
Stands(list, k, t) ==
  \/ list[k] = t
  \/ /\ request.nextPerRoute
     /\ list[k].route = t.route /\ list[k].dir = t.dir /\ SortKey(list[k]) <= SortKey(t)

(* What is left when only the next of each route and direction is wanted. *)
Listing(sorted) == IF request.nextPerRoute THEN NextPerRoute(sorted) ELSE sorted

(* The list is in order, and what is left out of it has an earlier trip of
   its route and direction in it. *)
LEMMA ListingIs ==
  ASSUME NEW T, \A t \in T : SortKey(t) \in Int, NEW sorted \in Seq(T), InOrder(sorted)
  PROVE  /\ Listing(sorted) \in Seq(T) /\ InOrder(Listing(sorted))
         /\ \A i \in DOMAIN sorted : \E k \in DOMAIN Listing(sorted) :
              Stands(Listing(sorted), k, sorted[i])
<1>0. /\ Len(sorted) \in Nat /\ DOMAIN sorted = 1..Len(sorted)
      /\ \A i \in DOMAIN sorted : sorted[i] \in T /\ SortKey(sorted[i]) \in Int
  OBVIOUS
<1>1. CASE ~request.nextPerRoute
  <2>1. Listing(sorted) = sorted
    BY <1>1 DEF Listing
  <2> QED
    BY <2>1 DEF Stands
<1>2. CASE request.nextPerRoute
  <2> DEFINE first == {i \in DOMAIN sorted :
                         \A j \in 1..(i - 1) : \/ sorted[j].route # sorted[i].route
                                               \/ sorted[j].dir # sorted[i].dir}
             m == Cardinality(first)
             list == Listing(sorted)
  <2>1. list = Filtered(sorted, first)
    BY <1>2 DEF Listing, NextPerRoute
  <2>2. first \in SUBSET (1..Len(sorted)) /\ first \in SUBSET (DOMAIN sorted)
    BY <1>0
  <2>3. ASSUME NEW i \in DOMAIN sorted
        PROVE  \E j \in first : j <= i /\ sorted[j].route = sorted[i].route
                                       /\ sorted[j].dir = sorted[i].dir
    <3> DEFINE its == {j \in 1..i : sorted[j].route = sorted[i].route
                                    /\ sorted[j].dir = sorted[i].dir}
    <3>0. i \in Nat /\ i >= 1 /\ i <= Len(sorted)
      BY <1>0
    <3>1. its \in SUBSET Nat /\ i \in its
      BY <3>0
    <3> HIDE DEF first
    <3>2. PICK j \in its : \A x \in its : j <= x
      <4> HIDE DEF its
      <4> QED
        BY <3>1, LeastNatural
    <3>3. j \in 1..i /\ sorted[j].route = sorted[i].route /\ sorted[j].dir = sorted[i].dir
      BY <3>2
    <3>4. j \in DOMAIN sorted
      BY <3>0, <3>3, <1>0
    <3>5. ASSUME NEW l \in 1..(j - 1)
          PROVE  sorted[l].route # sorted[j].route \/ sorted[l].dir # sorted[j].dir
      <4>1. l \in 1..i /\ ~(j <= l)
        BY <3>0, <3>3
      <4>2. l \notin its
        BY <3>2, <4>1
      <4> QED
        BY <4>1, <4>2, <3>3
    <3>6. j \in first
      BY <3>4, <3>5 DEF first
    <3> QED
      BY <3>0, <3>3, <3>6
  <2> HIDE DEF first, list
  <2>4. list \in Seq(T)
    BY <2>1, <2>2, FilteredSeq
  <2>5. /\ m \in Nat /\ DOMAIN list = 1..m
        /\ \A k \in 1..m : Source(first, k) \in first /\ list[k] = sorted[Source(first, k)]
        /\ \A k, l \in 1..m : k < l => Source(first, k) < Source(first, l)
        /\ \A i \in first : \E k \in 1..m : Source(first, k) = i
    BY <1>0, <2>1, <2>2, FilteredIs
  <2> HIDE DEF m
  <2>6. InOrder(list)
    <3> SUFFICES ASSUME NEW k \in 1..m, NEW l \in 1..m, k < l
                 PROVE  SortKey(list[k]) <= SortKey(list[l])
      BY <2>5 DEF InOrder
    <3>1. /\ Source(first, k) < Source(first, l)
          /\ Source(first, k) \in DOMAIN sorted /\ Source(first, l) \in DOMAIN sorted
      BY <2>2, <2>5
    <3>2. SortKey(sorted[Source(first, k)]) <= SortKey(sorted[Source(first, l)])
      BY <3>1 DEF InOrder
    <3> QED
      BY <2>5, <3>2
  <2>7. ASSUME NEW i \in DOMAIN sorted PROVE \E k \in DOMAIN list : Stands(list, k, sorted[i])
    <3>1. PICK j \in first : j <= i /\ sorted[j].route = sorted[i].route
                                    /\ sorted[j].dir = sorted[i].dir
      BY <2>3
    <3>2. j \in DOMAIN sorted
      BY <2>2
    <3>3. SortKey(sorted[j]) <= SortKey(sorted[i])
      <4>1. CASE j = i
        BY <4>1, <1>0
      <4>2. CASE j < i
        BY <3>2, <4>2 DEF InOrder
      <4> QED
        BY <1>0, <3>1, <3>2, <4>1, <4>2
    <3>4. PICK k \in 1..m : Source(first, k) = j
      BY <2>5
    <3>5. list[k] = sorted[j] /\ k \in DOMAIN list
      BY <2>5, <3>4
    <3> QED
      BY <1>2, <3>1, <3>3, <3>5 DEF Stands
  <2> QED
    BY <2>4, <2>6, <2>7 DEF list
<1> QED
  BY <1>1, <1>2

(* What a board makes of the trips in order. *)
Board(list, T) ==
  /\ list \in Seq(T) /\ InOrder(list) /\ Len(list) <= request.limit
  /\ \A t \in T : \/ \E k \in DOMAIN list : Stands(list, k, t)
                  \/ /\ Len(list) = request.limit
                     /\ \A k \in DOMAIN list : SortKey(list[k]) <= SortKey(t)

(* Cut makes a board of them. *)
LEMMA CutIs ==
  ASSUME NEW T, \A t \in T : SortKey(t) \in Int, request.limit \in Nat,
         NEW sorted \in Seq(T), InOrder(sorted), \A t \in T : \E i \in DOMAIN sorted : sorted[i] = t
  PROVE  Board(Cut(sorted), T)
<1> DEFINE all == Listing(sorted)
           n == IF Len(all) < request.limit THEN Len(all) ELSE request.limit
           list == Cut(sorted)
<1>1. all \in Seq(T) /\ InOrder(all)
      /\ \A i \in DOMAIN sorted : \E k \in DOMAIN all : Stands(all, k, sorted[i])
  BY ListingIs
<1>2. list = SubSeq(all, 1, n)
  BY DEF Cut, Listing
<1> HIDE DEF all, list
<1>3. /\ Len(all) \in Nat /\ DOMAIN all = 1..Len(all) /\ n \in Nat /\ n <= Len(all)
      /\ n <= request.limit /\ (n < Len(all) => n = request.limit)
      /\ \A k \in DOMAIN all : all[k] \in T
  BY <1>1
<1> HIDE DEF n
<1>4. /\ list \in Seq(T) /\ Len(list) = n /\ DOMAIN list = 1..n
      /\ \A k \in 1..n : list[k] = all[k]
  <2>1. list = [k \in 1..n |-> all[k]]
    BY <1>2, <1>3
  <2>2. \A k \in 1..n : all[k] \in T
    BY <1>3
  <2> QED
    BY <1>3, <2>1, <2>2
<1>5. InOrder(list)
  BY <1>1, <1>3, <1>4 DEF InOrder
<1>6. ASSUME NEW t \in T
      PROVE  \/ \E k \in DOMAIN list : Stands(list, k, t)
             \/ Len(list) = request.limit /\ \A k \in DOMAIN list : SortKey(list[k]) <= SortKey(t)
  <2>1. PICK k \in DOMAIN all : Stands(all, k, t)
    BY <1>1
  <2>2. CASE k <= n
    <3>1. k \in 1..n
      BY <1>3, <2>2
    <3>2. list[k] = all[k] /\ k \in DOMAIN list
      BY <1>4, <3>1
    <3> QED
      BY <2>1, <3>2 DEF Stands
  <2>3. CASE ~(k <= n)
    <3>1. n < Len(all) /\ n < k
      BY <1>3, <2>3
    <3>2. ASSUME NEW l \in DOMAIN list PROVE SortKey(list[l]) <= SortKey(t)
      <4>1. l \in DOMAIN all /\ l < k /\ list[l] = all[l]
        BY <1>3, <1>4, <3>1
      <4>2. SortKey(all[l]) <= SortKey(all[k])
        BY <1>1, <4>1 DEF InOrder
      <4>3. SortKey(all[k]) <= SortKey(t)
        <5>1. SortKey(t) \in Int
          OBVIOUS
        <5> QED
          BY <2>1, <5>1 DEF Stands
      <4>4. SortKey(all[l]) \in Int /\ SortKey(all[k]) \in Int /\ SortKey(t) \in Int
        BY <1>3, <4>1
      <4> QED
        BY <4>1, <4>2, <4>3, <4>4
    <3> QED
      BY <1>3, <1>4, <3>1, <3>2
  <2> QED
    BY <2>2, <2>3
<1> QED
  BY <1>3, <1>4, <1>5, <1>6 DEF Board, list

-----------------------------------------------------------------------------
(* The answer of a state. *)

(* The candidates can be sorted. *)
Sortable == IsFiniteSet(Candidates) /\ \A t \in Candidates : SortKey(t) \in Int

(* What ScheduleService answers is a board of the candidates. *)
LEMMA ScheduleIs ==
  ASSUME request.limit \in Nat, "error" \notin DOMAIN UpcomingTrips => Sortable
  PROVE  "trips" \in DOMAIN GetSchedule =>
           "trips" \in DOMAIN UpcomingTrips /\ Board(GetSchedule.trips, Candidates)
<1>1. CASE "error" \in DOMAIN UpcomingTrips
  <2>1. GetSchedule = UpcomingTrips
    BY <1>1 DEF GetSchedule
  <2>2. "trips" \notin DOMAIN UpcomingTrips
    BY <1>1 DEF UpcomingTrips, AllFeedsTrips
  <2> QED
    BY <2>1, <2>2
<1>2. CASE "error" \notin DOMAIN UpcomingTrips
  <2>1. "trips" \in DOMAIN UpcomingTrips
    BY <1>2 DEF UpcomingTrips, AllFeedsTrips
  <2>2. GetSchedule = [trips |-> Cut(SortedTrips(Candidates))]
    BY <1>2 DEF GetSchedule, Candidates
  <2>3. Board(Cut(SortedTrips(Candidates)), Candidates)
    <3>1. /\ SortedTrips(Candidates) \in Seq(Candidates)
          /\ \A t \in Candidates : \E i \in DOMAIN SortedTrips(Candidates) :
               SortedTrips(Candidates)[i] = t
          /\ InOrder(SortedTrips(Candidates))
      BY <1>2, SortedIs DEF Sortable
    <3> QED
      BY <1>2, <3>1, CutIs DEF Sortable
  <2> QED
    BY <2>1, <2>2, <2>3
<1> QED
  BY <1>1, <1>2

(* The answer is of this state, or there is none. *)
AnswerOK ==
  Answered => "trips" \in DOMAIN UpcomingTrips /\ Board(answer.trips, Candidates)

(* Such an answer is in order and shows what comes first. *)
LEMMA AnswerInOrder ==
  ASSUME AnswerOK PROVE EarliestFirst
<1> SUFFICES ASSUME Answered
             PROVE  /\ \A i, j \in DOMAIN answer.trips : i < j =>
                         SortKey(answer.trips[i]) <= SortKey(answer.trips[j])
                    /\ Len(answer.trips) <= request.limit
                    /\ \A t \in Candidates \ Listed :
                         \/ Full /\ \A u \in Listed : SortKey(u) <= SortKey(t)
                         \/ request.nextPerRoute /\ \E u \in Listed : /\ u.route = t.route /\ u.dir = t.dir
                                                                      /\ SortKey(u) <= SortKey(t)
  BY DEF EarliestFirst
<1>1. Board(answer.trips, Candidates)
  BY DEF AnswerOK
<1>2. \A k \in DOMAIN answer.trips : answer.trips[k] \in Listed
  BY DEF Listed
<1> QED
  BY <1>1, <1>2 DEF Board, InOrder, Stands, Listed, Full

(* A board stays one while nothing changes that it was made of. *)
LEMMA SameBoard ==
  ASSUME Same, NEW list
  PROVE  Board(list, Candidates)' <=> Board(list, Candidates)
<1>1. UpcomingTrips' = UpcomingTrips
  BY SameUpcomingTrips
<1>2. request' = request /\ now' = now
  BY DEF Same
<1>3. \A t : SortKey(t)' = SortKey(t) /\ OffsetOf(t)' = OffsetOf(t)
  BY <1>2 DEF SortKey, OffsetOf
<1>4. PICK U : U = UpcomingTrips.trips
  OBVIOUS
<1>5. UpcomingTrips'.trips = U
  BY <1>1, <1>4
<1>6. \A x : x \in Offset(U)' <=> x \in Offset(U)
  BY <1>3 DEF Offset
<1>7. \A x : x \in Candidates' <=> x \in Candidates
  BY <1>2, <1>3, <1>4, <1>5, <1>6 DEF Candidates, Upcoming
<1>8. Candidates' = Candidates
  BY <1>7
<1>9. InOrder(list)' <=> InOrder(list)
  BY <1>3 DEF InOrder
<1>10. \A k, t : Stands(list, k, t)' <=> Stands(list, k, t)
  BY <1>2, <1>3 DEF Stands
<1> QED
  BY <1>2, <1>3, <1>8, <1>9, <1>10 DEF Board

-----------------------------------------------------------------------------
(* Folds over a sequence of length n. *)

(* The last of the first k elements is the k-th. *)
LEMMA UpTo ==
  ASSUME NEW n \in Nat
  PROVE  /\ \A T \in SUBSET (1..n) : T # {} => Max(T) \in T /\ Max(T) \in 1..n
         /\ \A k \in 1..n : 1..k \in SUBSET (1..n) /\ 1..k # {} /\ Max(1..k) = k
                            /\ (1..k) \ {k} = 1..(k - 1)
<1>1. ASSUME NEW T \in SUBSET (1..n), T # {} PROVE Max(T) \in T
  <2>1. T \in SUBSET Nat /\ \A x \in T : x <= n
    <3>1. \A x \in T : x \in 1..n
      OBVIOUS
    <3> QED
      BY <3>1
  <2> QED
    BY <1>1, <2>1, MaxIsGreatest
<1>2. ASSUME NEW k \in 1..n
      PROVE  1..k \in SUBSET (1..n) /\ 1..k # {} /\ Max(1..k) = k /\ (1..k) \ {k} = 1..(k - 1)
  <2>1. k \in Nat /\ k >= 1 /\ k \in 1..k /\ 1..k \in SUBSET Nat /\ \A x \in 1..k : x <= k
    OBVIOUS
  <2>2. Max(1..k) \in 1..k /\ \A x \in 1..k : Max(1..k) >= x
    BY <2>1, MaxIsGreatest
  <2>3. Max(1..k) >= k /\ Max(1..k) <= k /\ Max(1..k) \in Int
    BY <2>1, <2>2
  <2>4. Max(1..k) = k
    BY <2>1, <2>3
  <2>5. \A x : x \in (1..k) \ {k} <=> x \in 1..(k - 1)
    OBVIOUS
  <2> QED
    BY <2>1, <2>4, <2>5
<1> QED
  BY <1>1, <1>2

(* g folds the first k elements of a sequence at 1..k: step[k] applies the
   k-th. *)
IsFold(n, D, base, step, g) ==
  /\ g = [T \in SUBSET (1..n) |-> g[T]]
  /\ \A T \in SUBSET (1..n) :
       /\ g[T] \in D
       /\ g[T] = IF T = {} THEN base ELSE step[Max(T)][g[T \ {Max(T)}]]

(* A fold whose steps stay in D has a value in D after each of them. *)
LEMMA FoldExists ==
  ASSUME NEW n \in Nat, NEW D, NEW base \in D, NEW step,
         \A k \in 1..n : \A d \in D : step[k][d] \in D
  PROVE  \E g : IsFold(n, D, base, step, g)
<1> DEFINE S == 1..n
           pick == [T \in SUBSET S |-> Max(T)]
           next == [T \in SUBSET S |-> step[Max(T)]]
<1>1. IsFiniteSet(S) /\ \A T \in SUBSET S : T # {} => Max(T) \in T /\ Max(T) \in S
  <2>1. IsFiniteSet(S)
    BY FS_Interval
  <2>2. \A T \in SUBSET S : T # {} => Max(T) \in T /\ Max(T) \in S
    BY UpTo
  <2> QED
    BY <2>1, <2>2
<1>2. \A T \in SUBSET S : T # {} => pick[T] \in T
  BY <1>1
<1>3. PICK g : Recurs(S, base, pick, next, g)
  <2> HIDE DEF pick, next, S
  <2> QED
    BY <1>1, <1>2, RecursionExists
<1>4. \A T \in SUBSET S : g[T] = IF T = {} THEN base ELSE step[Max(T)][g[T \ {Max(T)}]]
  BY <1>3 DEF Recurs
<1>5. g = [T \in SUBSET S |-> g[T]]
  BY <1>3 DEF Recurs
<1> DEFINE C == {T \in SUBSET S : g[T] \notin D}
<1> HIDE DEF S, pick, next
<1>6. CASE C = {}
  BY <1>4, <1>5, <1>6 DEF S, IsFold
<1>7. CASE C # {}
  <2>1. PICK T \in C : \A V \in C : V \subseteq T => V = T
    <3>1. C \in SUBSET (SUBSET S)
      OBVIOUS
    <3> HIDE DEF C
    <3> QED
      BY <1>1, <1>7, <3>1, SmallestSubset
  <2>2. T \in SUBSET S /\ g[T] \notin D
    BY <2>1
  <2>3. T # {}
    BY <1>4, <2>2
  <2>4. Max(T) \in T /\ Max(T) \in S
    BY <1>1, <2>2, <2>3
  <2>5. g[T \ {Max(T)}] \in D
    BY <2>1, <2>2, <2>4
  <2>6. step[Max(T)][g[T \ {Max(T)}]] \in D
    BY <2>4, <2>5 DEF S
  <2> QED
    BY <1>4, <2>2, <2>3, <2>6
<1> QED
  BY <1>6, <1>7

-----------------------------------------------------------------------------
(* ShownArrivals, entry by entry. *)

(* What an entry makes of what is shown. *)
NextShown(shown, ad, routes, time) ==
  IF \/ ad.route \notin routes \/ ~ad.enabled
     \/ \E old \in shown : old.trip = ad.trip /\ LastUpdate(old) >= LastUpdate(ad)
     \/ ResolveArrival(ad).dep < time
  THEN shown
  ELSE {old \in shown : old.trip # ad.trip} \cup {ad}

(* walk[k] is what is shown after k entries. *)
ShowsArrivals(walk, seq, routes, time) ==
  /\ walk[0] = {} /\ walk[Len(seq)] = ShownArrivals(seq, routes, time)
  /\ \A k \in 1..Len(seq) : walk[k] = NextShown(walk[k - 1], seq[k], routes, time)

(* The fold that defines ShownArrivals goes through the entries in order. *)
LEMMA ShownArrivalsIs ==
  ASSUME NEW A, NEW seq \in Seq(A), NEW routes, NEW time
  PROVE  \E walk : ShowsArrivals(walk, seq, routes, time)
<1> DEFINE n == Len(seq)
           D == SUBSET A
           Is(h) == h = [T \in SUBSET (1..n) |->
                           IF T = {} THEN {} ELSE NextShown(h[T \ {Max(T)}], seq[Max(T)], routes, time)]
           step == [k \in 1..n |-> [shown \in D |-> NextShown(shown, seq[k], routes, time)]]
           iter == CHOOSE h : Is(h)
<1>1. n \in Nat /\ DOMAIN seq = 1..n /\ \A k \in 1..n : seq[k] \in A
  OBVIOUS
<1>2. ShownArrivals(seq, routes, time) = iter[1..n]
  BY <1>1, Zenon DEF ShownArrivals, FoldLeft, MapThenFoldSet, NextShown
<1> HIDE DEF n
<1>3. Is(iter)
  <2>1. \A k \in 1..n : \A d \in D : step[k][d] \in D /\ step[k][d] = NextShown(d, seq[k], routes, time)
    BY <1>1 DEF NextShown
  <2>2. {} \in D
    OBVIOUS
  <2> HIDE DEF D, step
  <2>3a. PICK g : IsFold(n, D, {}, step, g)
    <3>1. n \in Nat /\ {} \in D /\ \A k \in 1..n : \A d \in D : step[k][d] \in D
      BY <1>1, <2>1, <2>2
    <3> QED
      BY <3>1, FoldExists
  <2>3. /\ g = [T \in SUBSET (1..n) |-> g[T]]
        /\ \A T \in SUBSET (1..n) :
             /\ g[T] \in D
             /\ g[T] = IF T = {} THEN {} ELSE step[Max(T)][g[T \ {Max(T)}]]
    BY <2>3a, Zenon DEF IsFold
  <2> DEFINE h == [T \in SUBSET (1..n) |->
                     IF T = {} THEN {} ELSE NextShown(g[T \ {Max(T)}], seq[Max(T)], routes, time)]
  <2>4. ASSUME NEW T \in SUBSET (1..n) PROVE g[T] = h[T]
    <3>1. CASE T = {}
      BY <2>3, <3>1
    <3>2. CASE T # {}
      <4>1. Max(T) \in 1..n /\ g[T \ {Max(T)}] \in D
        BY <1>1, <2>3, <3>2, UpTo
      <4>2. g[T] = NextShown(g[T \ {Max(T)}], seq[Max(T)], routes, time)
        BY <2>1, <2>3, <3>2, <4>1
      <4>3. h[T] = NextShown(g[T \ {Max(T)}], seq[Max(T)], routes, time)
        BY <3>2
      <4> QED
        BY <4>2, <4>3
    <3> QED
      BY <3>1, <3>2
  <2>5. h = [T \in SUBSET (1..n) |-> h[T]]
    OBVIOUS
  <2>6. g = h
    <3>1. g = [T \in SUBSET (1..n) |-> g[T]]
      BY <2>3, Zenon
    <3> HIDE DEF h
    <3> QED
      BY <2>4, <2>5, <3>1
  <2>7. Is(g)
    BY <2>6, Zenon
  <2> HIDE DEF Is
  <2> QED
    BY <2>7
<1> HIDE DEF iter
<1> DEFINE walk == [k \in 0..n |-> iter[1..k]]
<1>4. walk[0] = {}
  <2>1. 1..0 = {}
    OBVIOUS
  <2> QED
    BY <1>1, <1>3, <2>1
<1>5. walk[n] = ShownArrivals(seq, routes, time)
  BY <1>1, <1>2
<1>6. ASSUME NEW k \in 1..n PROVE walk[k] = NextShown(walk[k - 1], seq[k], routes, time)
  <2>1. 1..k \in SUBSET (1..n) /\ 1..k # {} /\ Max(1..k) = k /\ (1..k) \ {k} = 1..(k - 1)
    BY <1>1, UpTo
  <2>2. iter[1..k] = NextShown(iter[1..(k - 1)], seq[k], routes, time)
    BY <1>3, <2>1
  <2>3. walk[k] = iter[1..k] /\ walk[k - 1] = iter[1..(k - 1)]
    BY <1>1
  <2> QED
    BY <2>2, <2>3
<1> HIDE DEF walk
<1> QED
  BY <1>4, <1>5, <1>6 DEF n, ShowsArrivals

-----------------------------------------------------------------------------
(* Sequences of sequences. *)

(* walk[k] is what the first k sequences flatten to. *)
Flattens(walk, n, seqs) ==
  /\ walk[0] = <<>> /\ walk[n] = FlattenSeq(seqs)
  /\ \A k \in 1..n : walk[k] = walk[k - 1] \o seqs[k]

(* Sequences are flattened one after the other. *)
LEMMA FlattenedWalk ==
  ASSUME NEW A, NEW n \in Nat, NEW seqs, seqs = [k \in 1..n |-> seqs[k]],
         \A k \in 1..n : seqs[k] \in Seq(A)
  PROVE  \E walk : Flattens(walk, n, seqs)
<1> DEFINE Is(f) == f = [i \in 1..n |-> IF i = 1 THEN seqs[i] ELSE f[i - 1] \o seqs[i]]
           flatten == CHOOSE f : Is(f)
           D == Seq(A)
           step == [k \in 1..n |-> [s \in D |-> s \o seqs[k]]]
<1>0. Len(seqs) = n
  OBVIOUS
<1>1. CASE n = 0
  <2>1. FlattenSeq(seqs) = seqs
    BY <1>0, <1>1 DEF FlattenSeq
  <2>2. seqs = <<>>
    BY <1>1
  <2> DEFINE walk == [k \in 0..0 |-> <<>>]
  <2>3. walk[0] = <<>> /\ walk[n] = FlattenSeq(seqs) /\ 1..n = {}
    BY <1>1, <2>1, <2>2
  <2> HIDE DEF walk
  <2> QED
    BY <2>3 DEF Flattens
<1>2. CASE n # 0
  <2>1. FlattenSeq(seqs) = flatten[n]
    BY <1>0, <1>2, Zenon DEF FlattenSeq
  <2>2. \A k \in 1..n : \A d \in D : step[k][d] \in D /\ step[k][d] = d \o seqs[k]
    OBVIOUS
  <2>3. <<>> \in D /\ \A k \in 1..n : <<>> \o seqs[k] = seqs[k]
    OBVIOUS
  <2> HIDE DEF D, step
  <2>4. PICK g : IsFold(n, D, <<>>, step, g)
    <3>1. <<>> \in D /\ \A k \in 1..n : \A d \in D : step[k][d] \in D
      BY <2>2, <2>3
    <3> QED
      BY <3>1, FoldExists
  <2>5. \A T \in SUBSET (1..n) : g[T] \in D
    BY <2>4 DEF IsFold
  <2>6. ASSUME NEW k \in 1..n PROVE g[1..k] = g[1..(k - 1)] \o seqs[k]
    <3>1. 1..k \in SUBSET (1..n) /\ 1..k # {} /\ Max(1..k) = k /\ (1..k) \ {k} = 1..(k - 1)
      BY UpTo
    <3>2. g[1..k] = step[k][g[1..(k - 1)]]
      BY <2>4, <3>1 DEF IsFold
    <3>3. g[1..(k - 1)] \in D
      <4>1. 1..(k - 1) \in SUBSET (1..n)
        OBVIOUS
      <4> QED
        BY <2>5, <4>1
    <3> QED
      BY <2>2, <3>2, <3>3
  <2> DEFINE f == [i \in 1..n |-> g[1..i]]
  <2>7. ASSUME NEW i \in 1..n
        PROVE  f[i] = IF i = 1 THEN seqs[i] ELSE f[i - 1] \o seqs[i]
    <3>1. CASE i = 1
      <4>1. 1..(i - 1) = {}
        BY <3>1
      <4>2. g[{}] = <<>>
        BY <2>4 DEF IsFold
      <4>3. g[1..i] = <<>> \o seqs[i]
        BY <2>6, <4>1, <4>2
      <4> QED
        BY <2>3, <3>1, <4>3
    <3>2. CASE i # 1
      <4>1. i - 1 \in 1..n
        BY <3>2
      <4> QED
        BY <2>6, <3>2, <4>1
    <3> QED
      BY <3>1, <3>2
  <2>8. Is(f)
    <3> DEFINE h == [i \in 1..n |-> IF i = 1 THEN seqs[i] ELSE f[i - 1] \o seqs[i]]
    <3>1. \A i \in 1..n : f[i] = h[i]
      BY <2>7
    <3>2. f = [i \in 1..n |-> f[i]]
      OBVIOUS
    <3>3. h = [i \in 1..n |-> h[i]]
      <4> HIDE DEF f
      <4> QED
        OBVIOUS
    <3>4. f = h
      <4> HIDE DEF f, h
      <4> QED
        BY <3>1, <3>2, <3>3
    <3> QED
      BY <3>4, Zenon
  <2>9. Is(flatten)
    <3> HIDE DEF Is, f
    <3> QED
      BY <2>8
  <2> HIDE DEF flatten
  <2> DEFINE walk == [k \in 0..n |-> IF k = 0 THEN <<>> ELSE flatten[k]]
  <2>10. walk[0] = <<>> /\ walk[n] = FlattenSeq(seqs)
    BY <1>2, <2>1
  <2>11. ASSUME NEW k \in 1..n PROVE walk[k] = walk[k - 1] \o seqs[k]
    <3>1. flatten[k] = IF k = 1 THEN seqs[k] ELSE flatten[k - 1] \o seqs[k]
      BY <2>9
    <3>2. walk[k] = flatten[k] /\ walk[k - 1] = IF k = 1 THEN <<>> ELSE flatten[k - 1]
      OBVIOUS
    <3>3. <<>> \o seqs[k] = seqs[k]
      BY <2>3
    <3> QED
      BY <3>1, <3>2, <3>3
  <2> HIDE DEF walk
  <2> QED
    BY <2>10, <2>11 DEF Flattens
<1> QED
  BY <1>1, <1>2

(* Sequences over A flatten to one over A. *)
LEMMA FlattenedIs ==
  ASSUME NEW A, NEW n \in Nat, NEW seqs, seqs = [k \in 1..n |-> seqs[k]],
         \A k \in 1..n : seqs[k] \in Seq(A)
  PROVE  FlattenSeq(seqs) \in Seq(A)
<1>1. PICK walk : Flattens(walk, n, seqs)
  BY FlattenedWalk
<1>2. /\ walk[0] = <<>> /\ walk[n] = FlattenSeq(seqs)
      /\ \A k \in 1..n : walk[k] = walk[k - 1] \o seqs[k]
  BY <1>1 DEF Flattens
<1> DEFINE C == {k \in 0..n : walk[k] \notin Seq(A)}
<1>3. CASE C = {}
  BY <1>2, <1>3
<1>4. CASE C # {}
  <2>1. C \in SUBSET Nat
    OBVIOUS
  <2>2. PICK k \in C : \A j \in C : k <= j
    <3> HIDE DEF C
    <3> QED
      BY <1>4, <2>1, LeastNatural
  <2>3. <<>> \in Seq(A)
    OBVIOUS
  <2>4. k \in 1..n /\ walk[k] \notin Seq(A)
    <3>1. k \in 0..n /\ walk[k] \notin Seq(A)
      BY <2>2
    <3>2. k # 0
      BY <1>2, <2>3, <3>1
    <3> QED
      BY <3>1, <3>2
  <2>5. k - 1 \in 0..n /\ k - 1 \notin C
    BY <2>2, <2>4
  <2>6. walk[k - 1] \in Seq(A) /\ seqs[k] \in Seq(A) /\ walk[k] = walk[k - 1] \o seqs[k]
    BY <1>2, <2>4, <2>5
  <2> HIDE DEF C
  <2> QED
    BY <2>4, <2>6
<1> QED
  BY <1>3, <1>4

-----------------------------------------------------------------------------
(* Trip updates. *)

(* The updates that a feed fetches are a sequence of well-formed updates. *)
LEMMA UpdatesAre ==
  ASSUME NEW endpoints, EndpointsOK(endpoints), NEW routes
  PROVE  LET updates == TripUpdates(endpoints, routes) IN
         /\ \E n \in Nat : DOMAIN updates = 1..n
         /\ \A i \in DOMAIN updates : updates[i] # None /\ UpdateOK(updates[i])
<1> DEFINE E == ToSet(endpoints)
           used == {i \in DOMAIN endpoints :
                         \/ endpoints[i].routeIds = {} \/ routes = {}
                         \/ endpoints[i].routeIds \cap routes # {}}
           configs == FetchConfigs(endpoints, routes)
           ok == {i \in DOMAIN configs : configs[i].body # None}
           fulfilled == Filtered(configs, ok)
           decoded == [i \in DOMAIN fulfilled |-> DecodeTripUpdatesOnly(fulfilled[i].body)]
           A == {u \in UNION {ToSet(e.body) : e \in E} : u # None /\ UpdateOK(u)}
<1>1. endpoints \in Seq(E) /\ used \in SUBSET DOMAIN endpoints
  BY DEF EndpointsOK, IsSequence
<1>2. configs = Filtered(endpoints, used)
  BY DEF FetchConfigs
<1>3. ASSUME NEW e \in E
      PROVE  e.body = None \/ (IsSequence(e.body) /\ \A j \in DOMAIN e.body : e.body[j] # None => UpdateOK(e.body[j]))
  BY DEF EndpointsOK, ToSet
<1> HIDE DEF E, used
<1>4. configs \in Seq(E)
  BY <1>1, <1>2, FilteredSeq
<1> HIDE DEF configs
<1>5. /\ fulfilled \in Seq(E) /\ \A e \in ToSet(fulfilled) : e.body # None
  <2>1. ok \in SUBSET DOMAIN configs
    OBVIOUS
  <2>2. fulfilled \in Seq(E) /\ \A x : x \in ToSet(fulfilled) <=> \E i \in ok : x = configs[i]
    <3> HIDE DEF ok
    <3> QED
      BY <1>4, <2>1, FilteredSeq
  <2> QED
    BY <2>2
<1> HIDE DEF fulfilled
<1>6. /\ Len(fulfilled) \in Nat /\ DOMAIN fulfilled = 1..Len(fulfilled)
      /\ \A i \in DOMAIN fulfilled : fulfilled[i] \in E /\ fulfilled[i].body # None
  BY <1>5 DEF ToSet
<1>7. ASSUME NEW i \in DOMAIN fulfilled PROVE DecodeTripUpdatesOnly(fulfilled[i].body) \in Seq(A)
  <2> DEFINE body == fulfilled[i].body
             S == {j \in DOMAIN body : body[j] # None}
             list == Filtered(body, S)
  <2>1. /\ IsSequence(body) /\ \A j \in DOMAIN body : body[j] # None => UpdateOK(body[j])
        /\ ToSet(body) \subseteq UNION {ToSet(e.body) : e \in E}
    BY <1>3, <1>6
  <2>2. DecodeTripUpdatesOnly(body) = list
    BY DEF DecodeTripUpdatesOnly
  <2>3. ASSUME NEW j \in S PROVE body[j] \in A
    <3>1. body[j] \in ToSet(body)
      BY DEF ToSet
    <3> QED
      BY <2>1, <3>1
  <2>4. S \in SUBSET DOMAIN body /\ body \in Seq(ToSet(body))
    BY <2>1 DEF IsSequence
  <2> HIDE DEF body, S, A
  <2>5. list \in Seq(ToSet(body)) /\ \A x : x \in ToSet(list) <=> \E j \in S : x = body[j]
    BY <2>4, FilteredSeq
  <2> HIDE DEF list
  <2>6. \A k \in DOMAIN list : list[k] \in A
    BY <2>3, <2>5 DEF ToSet
  <2> QED
    BY <2>2, <2>5, <2>6 DEF body
<1>8. FlattenSeq(decoded) \in Seq(A)
  <2>1. decoded = [k \in 1..Len(fulfilled) |-> decoded[k]] /\ \A k \in 1..Len(fulfilled) : decoded[k] \in Seq(A)
    BY <1>6, <1>7
  <2> HIDE DEF decoded, A
  <2> QED
    BY <1>6, <2>1, FlattenedIs
<1>9. TripUpdates(endpoints, routes) = FlattenSeq(decoded)
  BY DEF TripUpdates, fulfilled, configs
<1> HIDE DEF decoded
<1>10. PICK updates : updates = TripUpdates(endpoints, routes)
  OBVIOUS
<1>11. updates \in Seq(A)
  BY <1>8, <1>9, <1>10
<1>12. Len(updates) \in Nat /\ DOMAIN updates = 1..Len(updates) /\ \A i \in DOMAIN updates : updates[i] \in A
  <2> HIDE DEF A
  <2> QED
    BY <1>11
<1> QED
  BY <1>10, <1>12

-----------------------------------------------------------------------------
(* The update that a row is matched with. *)

(* It is one of the updates, for the day of the row or for any, and its
   trip is the row's or one that contains it. *)
LEMMA MatchedUpdate ==
  ASSUME NEW row, NEW n \in Nat, NEW updates, DOMAIN updates = 1..n, NEW fuzzy,
         MatchTripUpdate(row, updates, fuzzy) # None
  PROVE  \E i \in DOMAIN updates :
           /\ MatchTripUpdate(row, updates, fuzzy) = updates[i]
           /\ updates[i].trip # None /\ updates[i].start \in {row.start, None}
           /\ updates[i].trip = row.trip \/ <<row.trip, updates[i].trip>> \in Contained
<1> DEFINE dated == {i \in DOMAIN updates : /\ updates[i].trip # None
                                            /\ updates[i].start \in {row.start, None}}
           exact == {i \in dated : updates[i].trip = row.trip}
           similar == {i \in dated : <<row.trip, updates[i].trip>> \in Contained}
           groups == {GroupOf(updates, i) : i \in similar}
           first == Min(groups)
           chosen == {i \in similar : GroupOf(updates, i) = first}
<1>1. MatchTripUpdate(row, updates, fuzzy) =
        IF exact # {} THEN updates[Min(exact)]
        ELSE IF fuzzy /\ similar # {} THEN updates[Min(chosen)] ELSE None
  BY DEF MatchTripUpdate
<1>2. exact \in SUBSET Nat /\ similar \in SUBSET Nat /\ chosen \in SUBSET Nat
  OBVIOUS
<1>3. CASE exact # {}
  <2>1. Min(exact) \in exact
    <3> HIDE DEF exact
    <3> QED
      BY <1>2, <1>3, MinIsLeast
  <2> QED
    BY <1>1, <1>3, <2>1
<1>4. CASE exact = {} /\ fuzzy /\ similar # {}
  <2>1. \A i \in similar : GroupOf(updates, i) \in Nat
    <3> SUFFICES ASSUME NEW i \in similar PROVE GroupOf(updates, i) \in Nat
      OBVIOUS
    <3> DEFINE its == {j \in DOMAIN updates : updates[j].trip = updates[i].trip}
    <3>1. its \in SUBSET Nat /\ i \in its /\ GroupOf(updates, i) = Min(its)
      BY DEF GroupOf
    <3> HIDE DEF its
    <3>2. Min(its) \in its
      BY <3>1, MinIsLeast
    <3> QED
      BY <3>1, <3>2
  <2>2. groups \in SUBSET Nat /\ groups # {}
    BY <1>4, <2>1
  <2>3. first \in groups
    <3> HIDE DEF groups
    <3> QED
      BY <2>2, MinIsLeast
  <2>4. chosen # {}
    BY <2>3
  <2>5. Min(chosen) \in chosen
    <3> HIDE DEF chosen
    <3> QED
      BY <1>2, <2>4, MinIsLeast
  <2>6. MatchTripUpdate(row, updates, fuzzy) = updates[Min(chosen)]
    BY <1>1, <1>4
  <2> HIDE DEF first
  <2> QED
    BY <2>5, <2>6
<1> QED
  BY <1>1, <1>3, <1>4

(* A stop update that is matched is one of the update's. *)
LEMMA MatchedStop ==
  ASSUME NEW row, NEW update, update # None => UpdateOK(update),
         MatchStopTimeUpdate(row, update) # None
  PROVE  LET s == MatchStopTimeUpdate(row, update) IN
         s.arrival \in Half \cup {None} /\ s.departure \in Half \cup {None}
<1> DEFINE stops == IF update = None THEN <<>> ELSE update.stops
           direct == {i \in DOMAIN stops : stops[i].seq = row.seq \/ stops[i].stop = row.stop}
           earlier == {i \in DOMAIN stops : stops[i].seq # None /\ stops[i].seq < row.seq}
           latest == {i \in earlier : \A j \in earlier : stops[j].seq <= stops[i].seq}
           last == stops[Min(latest)]
           inferred == [seq |-> None, stop |-> None, rel |-> None,
                        arrival |-> OnlyDelay(last.arrival), departure |-> OnlyDelay(last.departure)]
           s == MatchStopTimeUpdate(row, update)
<1>1. s = IF direct # {} THEN stops[Min(direct)] ELSE IF earlier = {} THEN None ELSE inferred
  BY DEF MatchStopTimeUpdate
<1>2. /\ Len(stops) \in Nat /\ DOMAIN stops = 1..Len(stops)
      /\ \A i \in DOMAIN stops : StopUpdateOK(stops[i])
  <2>1. CASE update = None
    <3>1. stops = <<>>
      BY <2>1
    <3> HIDE DEF stops
    <3> QED
      BY <3>1
  <2>2. CASE update # None
    <3>1. stops = update.stops
      BY <2>2
    <3> HIDE DEF stops
    <3> QED
      BY <3>1, <2>2 DEF UpdateOK, IsSequence
  <2> QED
    BY <2>1, <2>2
<1> HIDE DEF stops
<1>3. direct \in SUBSET Nat /\ earlier \in SUBSET Nat /\ latest \in SUBSET Nat
      /\ \A x \in earlier : x <= Len(stops)
  BY <1>2
<1>4. CASE direct # {}
  <2>1. Min(direct) \in direct
    <3> HIDE DEF direct
    <3> QED
      BY <1>3, <1>4, MinIsLeast
  <2>2. StopUpdateOK(stops[Min(direct)])
    BY <1>2, <2>1
  <2> HIDE DEF direct
  <2> QED
    BY <1>1, <1>4, <2>2 DEF StopUpdateOK
<1>5. CASE direct = {} /\ earlier # {}
  <2> DEFINE key == [i \in earlier |-> 0 - stops[i].seq]
  <2>1. \A i \in earlier : stops[i].seq \in Int
    BY <1>2 DEF StopUpdateOK, Optional
  <2>2. \A i \in earlier : key[i] \in Int
    BY <2>1
  <2>3. IsFiniteSet(earlier)
    <3> HIDE DEF earlier
    <3> QED
      BY <1>2, <1>3, FS_BoundedSetOfNaturals
  <2>4. PICK m \in earlier : \A x \in earlier : key[m] <= key[x]
    <3> HIDE DEF earlier, key
    <3> QED
      BY <1>5, <2>2, <2>3, LeastKey
  <2>5. m \in latest
    <3> SUFFICES ASSUME NEW j \in earlier PROVE stops[j].seq <= stops[m].seq
      OBVIOUS
    <3>1. key[m] <= key[j]
      BY <2>4
    <3>2. stops[j].seq \in Int /\ stops[m].seq \in Int
      BY <2>1
    <3> QED
      BY <3>1, <3>2
  <2>6. Min(latest) \in latest
    <3> HIDE DEF latest
    <3> QED
      BY <1>3, <2>5, MinIsLeast
  <2>7. StopUpdateOK(last)
    BY <1>2, <2>6
  <2> HIDE DEF last
  <2>8. OnlyDelay(last.arrival) \in Half /\ OnlyDelay(last.departure) \in Half
    BY <2>7 DEF StopUpdateOK, OnlyDelay, Field, Half, Optional
  <2>9. s = inferred
    BY <1>1, <1>5
  <2> QED
    BY <2>8, <2>9
<1> QED
  BY <1>1, <1>4, <1>5

-----------------------------------------------------------------------------
(* Either half of a prediction gives a time, with the help of the other. *)
LEMMA PredictedTime ==
  ASSUME NEW scheduled \in Int, NEW half \in Half \cup {None}, NEW inferred \in Int
  PROVE  Predicted(scheduled, half, inferred) \in Int
BY NoneAssumption DEF Predicted, Field, Half, Optional

(* The delay that is inferred from either half is a number of ticks. *)
LEMMA InferredDelayTime ==
  ASSUME NEW row, row.arr \in Int, row.dep \in Int,
         NEW arrival \in Half \cup {None}, NEW departure \in Half \cup {None}
  PROVE  InferredDelay(row, arrival, departure) \in Int
BY NoneAssumption DEF InferredDelay, Field, Half, Optional

(***************************************************************************)
(* The times that are resolved for a call (resolveTripTimes): it leaves no *)
(* earlier than it arrives if it does so on schedule, both times are       *)
(* within 90 minutes of the schedule, and they are the schedule itself     *)
(* unless they are marked as real-time.                                    *)
(***************************************************************************)
THEOREM ResolvedTimesPlausible ==
  ASSUME NEW row, row.arr \in Int, row.dep \in Int, row.arr <= row.dep,
         NEW update,
         update # None => update.arrival \in Half \cup {None} /\ update.departure \in Half \cup {None}
  PROVE  LET times == ResolveTripTimes(row, update) IN
         /\ times.arr \in Int /\ times.dep \in Int /\ times.arr <= times.dep
         /\ ~Deviates(times.arr, row.arr) /\ ~Deviates(times.dep, row.dep)
         /\ ~times.realtime => times.arr = row.arr /\ times.dep = row.dep
<1> DEFINE inferred == InferredDelay(row, update.arrival, update.departure)
           arr == Predicted(row.arr, update.arrival, inferred)
           leaves == Predicted(row.dep, update.departure, inferred)
           dep == IF arr > leaves THEN arr ELSE leaves
           scheduled == [arr |-> row.arr, dep |-> row.dep, realtime |-> FALSE]
           predicted == [arr |-> arr, dep |-> dep, realtime |-> TRUE]
           times == ResolveTripTimes(row, update)
<1>1. ~Deviates(row.arr, row.arr) /\ ~Deviates(row.dep, row.dep)
  BY WindowsAssumption DEF Deviates
<1>2. CASE times = scheduled
  BY <1>1, <1>2
<1>3. CASE times = predicted /\ update # None /\ ~Deviates(arr, row.arr) /\ ~Deviates(dep, row.dep)
  <2>1. arr \in Int /\ leaves \in Int
    BY <1>3, PredictedTime, InferredDelayTime
  <2>2. arr <= dep /\ dep \in Int
    BY <2>1
  <2>3. QED BY <1>3, <2>1, <2>2
<1>4. times = scheduled \/ (times = predicted /\ update # None
                              /\ ~Deviates(arr, row.arr) /\ ~Deviates(dep, row.dep))
  BY DEF ResolveTripTimes
<1>5. QED BY <1>2, <1>3, <1>4

-----------------------------------------------------------------------------
(* Finite sets. *)

(* The image of a finite set is finite. *)
LEMMA ImageFinite ==
  ASSUME NEW S, IsFiniteSet(S), NEW f
  PROVE  IsFiniteSet({f[x] : x \in S})
<1> DEFINE T == {f[x] : x \in S}
           g == [x \in S |-> f[x]]
<1>1. g \in Surjection(S, T)
  BY DEF Surjection
<1> HIDE DEF g, T
<1>2. IsFiniteSet(T)
  BY <1>1, FS_Surjection
<1> QED
  BY <1>2 DEF T

(* The union of finitely many finite sets is finite. *)
LEMMA FamilyFinite ==
  ASSUME NEW S, IsFiniteSet(S), NEW f, \A x \in S : IsFiniteSet(f[x])
  PROVE  IsFiniteSet(UNION {f[x] : x \in S})
<1> DEFINE T == {f[x] : x \in S}
<1>1. IsFiniteSet(T) /\ \A U \in T : IsFiniteSet(U)
  BY ImageFinite
<1> HIDE DEF T
<1>2. IsFiniteSet(UNION T)
  BY <1>1, FS_UNION
<1> QED
  BY <1>2 DEF T

(* A sequence has finitely many elements. *)
LEMMA RangeFinite ==
  ASSUME NEW A, NEW seq \in Seq(A)
  PROVE  IsFiniteSet(ToSet(seq)) /\ IsFiniteSet(DOMAIN seq)
<1>1. Len(seq) \in Nat /\ DOMAIN seq = 1..Len(seq)
  OBVIOUS
<1>2. IsFiniteSet(DOMAIN seq)
  BY <1>1, FS_Interval
<1>3. IsFiniteSet({seq[i] : i \in DOMAIN seq})
  BY <1>2, ImageFinite
<1> QED
  BY <1>2, <1>3 DEF ToSet

-----------------------------------------------------------------------------
(* Array.prototype.sort by numbers. *)

(* The elements that come before the i-th in the sorted order. *)
Earlier(n, keys, i) == {j \in 1..n : keys[j] < keys[i] \/ (keys[j] = keys[i] /\ j < i)}

(* Every place of the sorted sequence is taken: the elements that come
   before an element are counted without gaps. *)
LEMMA EveryPlace ==
  ASSUME NEW n \in Nat, NEW keys, \A i \in 1..n : keys[i] \in Int, NEW k \in 1..n
  PROVE  \E i \in 1..n : Cardinality(Earlier(n, keys, i)) = k - 1
<1> DEFINE S == 1..n
           R == 0..(n - 1)
           rank == [i \in S |-> Cardinality(Earlier(n, keys, i))]
<1>1. /\ IsFiniteSet(S) /\ Cardinality(S) = n /\ IsFiniteSet(R) /\ Cardinality(R) = n
  <2>1. IsFiniteSet(S) /\ Cardinality(S) = n
    <3>1. IsFiniteSet(1..n) /\ Cardinality(1..n) = IF 1 > n THEN 0 ELSE n - 1 + 1
      BY FS_Interval
    <3> QED
      BY <3>1
  <2>2. IsFiniteSet(R) /\ Cardinality(R) = n
    <3>1. n - 1 \in Int /\ 0 \in Int
      OBVIOUS
    <3>2. IsFiniteSet(0..(n - 1)) /\ Cardinality(0..(n - 1)) = IF 0 > n - 1 THEN 0 ELSE (n - 1) - 0 + 1
      BY <3>1, FS_Interval
    <3> QED
      BY <3>2
  <2> QED
    BY <2>1, <2>2
<1>2. ASSUME NEW i \in S
      PROVE  IsFiniteSet(Earlier(n, keys, i)) /\ rank[i] \in R
  <2> DEFINE others == S \ {i}
  <2>1. Earlier(n, keys, i) \in SUBSET others
    BY DEF Earlier
  <2>2. IsFiniteSet(others) /\ Cardinality(others) = n - 1
    BY <1>1, FS_RemoveElement
  <2> HIDE DEF others
  <2>3. IsFiniteSet(Earlier(n, keys, i)) /\ Cardinality(Earlier(n, keys, i)) <= n - 1
    BY <2>1, <2>2, FS_Subset
  <2>4. Cardinality(Earlier(n, keys, i)) \in Nat
    BY <2>3, FS_CardinalityType
  <2> QED
    BY <2>3, <2>4
<1>3. ASSUME NEW i \in S, NEW j \in S, i \in Earlier(n, keys, j)
      PROVE  rank[i] < rank[j]
  <2>1. Earlier(n, keys, i) \in SUBSET Earlier(n, keys, j)
    BY <1>3 DEF Earlier
  <2>2. i \notin Earlier(n, keys, i)
    BY DEF Earlier
  <2>3. Cardinality(Earlier(n, keys, i)) <= Cardinality(Earlier(n, keys, j))
        /\ Cardinality(Earlier(n, keys, i)) # Cardinality(Earlier(n, keys, j))
    BY <1>2, <1>3, <2>1, <2>2, FS_Subset
  <2>4. rank[i] \in R /\ rank[j] \in R
    BY <1>2
  <2> QED
    BY <2>3, <2>4
<1>4. \A i, j \in S : i # j => i \in Earlier(n, keys, j) \/ j \in Earlier(n, keys, i)
  BY DEF Earlier
<1>5. rank \in Injection(S, R)
  <2>1. rank \in [S -> R]
    BY <1>2
  <2>2. ASSUME NEW i \in S, NEW j \in S, i # j PROVE rank[i] # rank[j]
    <3>1. rank[i] < rank[j] \/ rank[j] < rank[i]
      BY <1>3, <1>4, <2>2
    <3>2. rank[i] \in R /\ rank[j] \in R
      BY <1>2
    <3> QED
      BY <3>1, <3>2
  <2> HIDE DEF rank
  <2> QED
    BY <2>1, <2>2 DEF Injection, IsInjective
<1>6. rank \in Surjection(S, R)
  <2> HIDE DEF rank, S, R
  <2> QED
    BY <1>1, <1>5, FS_Injection
<1>7. k - 1 \in R
  OBVIOUS
<1>8. \E i \in S : rank[i] = k - 1
  <2> HIDE DEF rank, S, R
  <2> QED
    BY <1>6, <1>7 DEF Surjection
<1> QED
  BY <1>8

(* What is sorted is a sequence of the elements that were. *)
LEMMA StablySortedIs ==
  ASSUME NEW A, NEW seq \in Seq(A), NEW keys, \A i \in DOMAIN seq : keys[i] \in Int
  PROVE  /\ StablySorted(seq, keys) \in Seq(A)
         /\ \A i \in DOMAIN StablySorted(seq, keys) : \E j \in DOMAIN seq :
              StablySorted(seq, keys)[i] = seq[j]
<1> DEFINE n == Len(seq)
           from(k) == CHOOSE i \in 1..n : Cardinality(Earlier(n, keys, i)) = k - 1
<1>1. n \in Nat /\ DOMAIN seq = 1..n /\ \A i \in 1..n : seq[i] \in A
  OBVIOUS
<1>2. StablySorted(seq, keys) = [k \in 1..n |-> seq[from(k)]]
  BY <1>1 DEF StablySorted, Earlier
<1>3. ASSUME NEW k \in 1..n PROVE from(k) \in 1..n
  <2>1. \E i \in 1..n : Cardinality(Earlier(n, keys, i)) = k - 1
    BY <1>1, EveryPlace
  <2> QED
    BY <2>1
<1> HIDE DEF n, from
<1> QED
  BY <1>1, <1>2, <1>3

(* The trips of an answer. *)
TimedTrip(t) ==
  /\ t = [trip |-> t.trip, route |-> t.route, stop |-> t.stop, dir |-> t.dir,
          arr |-> t.arr, dep |-> t.dep, realtime |-> t.realtime]
  /\ t.arr \in Int /\ t.dep \in Int

(* And all of them. *)
TripsOK(trips) == IsFiniteSet(trips) /\ \A t \in trips : TimedTrip(t)

-----------------------------------------------------------------------------
(* getScheduleForRouteAtStop. *)

(* A row of a pair and a day. *)
RowOK(row, route, stop, day) ==
  /\ row.trip \in RouteTrips(route, day) /\ row.route = route /\ row.stop = stop
  /\ row.day = day /\ row.dir = table.trips[row.trip].dir
  /\ row.arr \in Int /\ row.dep \in Int /\ row.arr <= row.dep
  /\ row.arr - day * Day \in 0..(2 * Day)
  /\ row.start = row.arr \div Day /\ row.start \in Int

(* A query returns finitely many rows of the pair and the day. *)
LEMMA ScheduleRows ==
  ASSUME TableOK, Served, Timely, NEW route, NEW stop, NEW day \in Int
  PROVE  /\ IsFiniteSet(ScheduleForRouteAtStop(route, stop, day))
         /\ \A row \in ScheduleForRouteAtStop(route, stop, day) : RowOK(row, route, stop, day)
<1> DEFINE calls(t) == {j \in DOMAIN table.stopTimes[t] :
                          LET row == table.stopTimes[t][j] IN
                          row.stop = stop /\ row.arr # None /\ row.dep # None}
           row(t, i) == [trip |-> t, route |-> route, stop |-> stop, seq |-> i,
                         dir |-> table.trips[t].dir, day |-> day,
                         arr |-> day * Day + table.stopTimes[t][i].arr,
                         dep |-> day * Day + table.stopTimes[t][i].dep,
                         start |-> (day * Day + table.stopTimes[t][i].arr) \div Day]
           rows == [t \in RouteTrips(route, day) |-> {row(t, i) : i \in calls(t)}]
           all == ScheduleForRouteAtStop(route, stop, day)
<1>1. all = UNION {rows[t] : t \in RouteTrips(route, day)}
  BY DEF ScheduleForRouteAtStop
<1>2. IsFiniteSet(RouteTrips(route, day)) /\ RouteTrips(route, day) \subseteq DOMAIN table.stopTimes
  <2>1. RouteTrips(route, day) \in SUBSET DOMAIN table.trips
    BY DEF RouteTrips
  <2> QED
    BY <2>1, FS_Subset DEF Served
<1>3. ASSUME NEW t \in RouteTrips(route, day)
      PROVE  /\ IsFiniteSet(rows[t])
             /\ \A i \in calls(t) :
                  /\ table.stopTimes[t][i].arr \in Int /\ table.stopTimes[t][i].dep \in Int
                  /\ table.stopTimes[t][i].arr <= table.stopTimes[t][i].dep
                  /\ table.stopTimes[t][i].arr \in 0..(2 * Day)
  <2>1. TripOK(table.stopTimes[t]) /\ Calls(table.stopTimes[t]) /\ WithinTwoDays(table.stopTimes[t])
    BY <1>2 DEF TableOK, Timely
  <2>2. IsFiniteSet(calls(t))
    <3>1. PICK n \in Nat : DOMAIN table.stopTimes[t] = 1..n
      BY <2>1, FS_CardinalityType DEF TripOK
    <3>2. calls(t) \in SUBSET (1..n)
      BY <3>1
    <3>3. IsFiniteSet(1..n)
      BY FS_Interval
    <3> HIDE DEF calls
    <3> QED
      BY <3>2, <3>3, FS_Subset
  <2>3. IsFiniteSet(rows[t])
    <3> DEFINE f == [i \in calls(t) |-> row(t, i)]
    <3>1. rows[t] = {f[i] : i \in calls(t)}
      OBVIOUS
    <3> HIDE DEF f, calls, rows
    <3>2. IsFiniteSet({f[i] : i \in calls(t)})
      BY <2>2, ImageFinite
    <3> QED
      BY <3>1, <3>2
  <2>4. ASSUME NEW i \in calls(t)
        PROVE  /\ table.stopTimes[t][i].arr \in Int /\ table.stopTimes[t][i].dep \in Int
               /\ table.stopTimes[t][i].arr <= table.stopTimes[t][i].dep
               /\ table.stopTimes[t][i].arr \in 0..(2 * Day)
    <3>1. /\ i \in DOMAIN table.stopTimes[t] /\ table.stopTimes[t][i].arr # None
          /\ table.stopTimes[t][i].dep # None
      OBVIOUS
    <3>2. StopTimeOK(table.stopTimes[t][i])
      BY <2>1, <3>1 DEF TripOK
    <3>3. i \in Timed(table.stopTimes[t])
      BY <3>1 DEF Timed
    <3> HIDE DEF calls
    <3> QED
      BY <2>1, <3>1, <3>2, <3>3 DEF StopTimeOK, Optional, Calls, WithinTwoDays
  <2> QED
    BY <2>3, <2>4
<1>4. IsFiniteSet(all)
  <2>1. IsFiniteSet(UNION {rows[t] : t \in RouteTrips(route, day)})
    <3>1. \A t \in RouteTrips(route, day) : IsFiniteSet(rows[t])
      BY <1>3
    <3> HIDE DEF rows
    <3> QED
      BY <1>2, <3>1, FamilyFinite
  <2> HIDE DEF all, rows
  <2> QED
    BY <1>1, <2>1
<1>5. ASSUME NEW r \in all PROVE RowOK(r, route, stop, day)
  <2>1. PICK t \in RouteTrips(route, day) : \E i \in calls(t) : r = row(t, i)
    BY <1>1
  <2>1a. PICK i \in calls(t) : r = row(t, i)
    BY <2>1
  <2> DEFINE a == table.stopTimes[t][i].arr
             d == table.stopTimes[t][i].dep
  <2>2. a \in Int /\ d \in Int /\ a <= d /\ a \in 0..(2 * Day)
    BY <1>3
  <2>3. /\ r.trip = t /\ r.route = route /\ r.stop = stop /\ r.day = day
        /\ r.dir = table.trips[t].dir /\ r.arr = day * Day + a /\ r.dep = day * Day + d
        /\ r.start = (day * Day + a) \div Day
    BY <2>1a
  <2> HIDE DEF a, d, row, calls
  <2>4. day * Day \in Int
    BY DayAssumption
  <2>5. r.arr \div Day \in Int
    <3>1. r.arr \in Int
      BY <2>2, <2>3, <2>4
    <3> QED
      BY <3>1, DayAssumption
  <2> QED
    BY <2>2, <2>3, <2>4, <2>5 DEF RowOK
<1> QED
  BY <1>4, <1>5

-----------------------------------------------------------------------------
(* GtfsTrips. *)

(* A row that is shown. *)
ShownOK(gtfs, pairs, x) ==
  LET updates == TripUpdates(gtfs.endpoints, {pairs[j].route : j \in DOMAIN pairs}) IN
  /\ x.date \in ScheduleDates /\ x.pair \in DOMAIN pairs
  /\ x.r.row \in ScheduleForRouteAtStop(pairs[x.pair].route, pairs[x.pair].stop, now \div Day + x.date)
  /\ RowOK(x.r.row, pairs[x.pair].route, pairs[x.pair].stop, now \div Day + x.date)
  /\ x.r = Resolved(x.r.row, updates, gtfs.fuzzy)
  /\ x.r.times.arr \in Int /\ x.r.times.dep \in Int /\ x.r.times.arr <= x.r.times.dep
  /\ ~Deviates(x.r.times.arr, x.r.row.arr) /\ ~Deviates(x.r.times.dep, x.r.row.dep)
  /\ ~x.r.times.realtime => x.r.times.arr = x.r.row.arr /\ x.r.times.dep = x.r.row.dep

(* The times of a row are plausible whichever update it is matched with. *)
LEMMA ResolvedTimes ==
  ASSUME NEW row, row.arr \in Int, row.dep \in Int, row.arr <= row.dep,
         NEW n \in Nat, NEW updates, DOMAIN updates = 1..n,
         \A i \in DOMAIN updates : updates[i] # None /\ UpdateOK(updates[i]), NEW fuzzy
  PROVE  LET r == Resolved(row, updates, fuzzy) IN
         /\ r.row = row
         /\ r.times.arr \in Int /\ r.times.dep \in Int /\ r.times.arr <= r.times.dep
         /\ ~Deviates(r.times.arr, row.arr) /\ ~Deviates(r.times.dep, row.dep)
         /\ ~r.times.realtime => r.times.arr = row.arr /\ r.times.dep = row.dep
<1> DEFINE update == MatchTripUpdate(row, updates, fuzzy)
           s == MatchStopTimeUpdate(row, update)
           times == ResolveTripTimes(row, s)
<1>1. Resolved(row, updates, fuzzy) =
        [row |-> row, update |-> update, stopUpdate |-> s, times |-> times]
  BY DEF Resolved
<1>2. update # None => UpdateOK(update)
  <2> SUFFICES ASSUME update # None PROVE UpdateOK(update)
    OBVIOUS
  <2>1. PICK i \in DOMAIN updates :
          /\ update = updates[i]
          /\ updates[i].trip # None /\ updates[i].start \in {row.start, None}
          /\ updates[i].trip = row.trip \/ <<row.trip, updates[i].trip>> \in Contained
    BY MatchedUpdate
  <2> QED
    BY <2>1
<1> HIDE DEF update
<1>3. s # None => s.arrival \in Half \cup {None} /\ s.departure \in Half \cup {None}
  BY <1>2, MatchedStop
<1> HIDE DEF s
<1>4. /\ times.arr \in Int /\ times.dep \in Int /\ times.arr <= times.dep
      /\ ~Deviates(times.arr, row.arr) /\ ~Deviates(times.dep, row.dep)
      /\ ~times.realtime => times.arr = row.arr /\ times.dep = row.dep
  BY <1>3, ResolvedTimesPlausible
<1> HIDE DEF times
<1> QED
  BY <1>1, <1>4

(* Finitely many rows are shown, with plausible times. *)
LEMMA ShownRowsAre ==
  ASSUME TableOK, Served, Timely, now \in Int,
         NEW gtfs, EndpointsOK(gtfs.endpoints), NEW n \in Nat, NEW pairs, DOMAIN pairs = 1..n
  PROVE  IsFiniteSet(ShownRows(gtfs, pairs)) /\ \A x \in ShownRows(gtfs, pairs) : ShownOK(gtfs, pairs, x)
<1> DEFINE updates == TripUpdates(gtfs.endpoints, {pairs[j].route : j \in DOMAIN pairs})
           schedule(date, i) == ScheduleForRouteAtStop(pairs[i].route, pairs[i].stop, now \div Day + date)
           all == UNION {RowsOf(gtfs, pairs, date, i) : date \in ScheduleDates, i \in DOMAIN pairs}
<1>1. /\ \E m \in Nat : DOMAIN updates = 1..m
      /\ \A i \in DOMAIN updates : updates[i] # None /\ UpdateOK(updates[i])
  BY UpdatesAre
<1> HIDE DEF updates
<1>2. ASSUME NEW date \in ScheduleDates, NEW i \in DOMAIN pairs
      PROVE  /\ IsFiniteSet(RowsOf(gtfs, pairs, date, i))
             /\ \A x \in RowsOf(gtfs, pairs, date, i) : ShownOK(gtfs, pairs, x)
  <2>1. now \div Day + date \in Int
    BY DayAssumption DEF ScheduleDates
  <2>2. /\ IsFiniteSet(schedule(date, i))
        /\ \A row \in schedule(date, i) : RowOK(row, pairs[i].route, pairs[i].stop, now \div Day + date)
    BY <2>1, ScheduleRows
  <2> DEFINE f == [row \in schedule(date, i) |->
                     [date |-> date, pair |-> i, r |-> Resolved(row, updates, gtfs.fuzzy)]]
  <2>3. RowsOf(gtfs, pairs, date, i) = {f[row] : row \in schedule(date, i)}
    BY DEF RowsOf, updates
  <2>4. IsFiniteSet(RowsOf(gtfs, pairs, date, i))
    <3>1. IsFiniteSet({f[row] : row \in schedule(date, i)})
      <4> HIDE DEF f, schedule
      <4> QED
        BY <2>2, ImageFinite
    <3> HIDE DEF f, schedule
    <3> QED
      BY <2>3, <3>1
  <2>5. ASSUME NEW x \in RowsOf(gtfs, pairs, date, i) PROVE ShownOK(gtfs, pairs, x)
    <3>1. PICK row \in schedule(date, i) : x = [date |-> date, pair |-> i, r |-> Resolved(row, updates, gtfs.fuzzy)]
      BY <2>3
    <3>2. RowOK(row, pairs[i].route, pairs[i].stop, now \div Day + date)
      BY <2>2
    <3> DEFINE r == Resolved(row, updates, gtfs.fuzzy)
    <3>3. /\ r.row = row
          /\ r.times.arr \in Int /\ r.times.dep \in Int /\ r.times.arr <= r.times.dep
          /\ ~Deviates(r.times.arr, row.arr) /\ ~Deviates(r.times.dep, row.dep)
          /\ ~r.times.realtime => r.times.arr = row.arr /\ r.times.dep = row.dep
      <4>1. row.arr \in Int /\ row.dep \in Int /\ row.arr <= row.dep
        BY <3>2 DEF RowOK
      <4> QED
        BY <1>1, <4>1, ResolvedTimes
    <3>4. x.date = date /\ x.pair = i /\ x.r = r
      BY <3>1
    <3> HIDE DEF r
    <3>5. r = Resolved(r.row, updates, gtfs.fuzzy)
      BY <3>3 DEF r
    <3> QED
      BY <3>2, <3>3, <3>4, <3>5 DEF ShownOK, updates
  <2> QED
    BY <2>4, <2>5
<1>3. IsFiniteSet(all)
  <2> DEFINE ofDate == [date \in ScheduleDates |->
                          UNION {RowsOf(gtfs, pairs, date, i) : i \in DOMAIN pairs}]
  <2>1. IsFiniteSet(ScheduleDates) /\ IsFiniteSet(DOMAIN pairs)
    <3>1. ScheduleDates = {-1} \cup {0} \cup {1}
      BY DEF ScheduleDates
    <3>2. IsFiniteSet({-1}) /\ IsFiniteSet({0}) /\ IsFiniteSet({1})
      BY FS_Singleton
    <3>3. IsFiniteSet(ScheduleDates)
      BY <3>1, <3>2, FS_Union
    <3>4. IsFiniteSet(1..n)
      BY FS_Interval
    <3> QED
      BY <3>3, <3>4
  <2>2. ASSUME NEW date \in ScheduleDates PROVE IsFiniteSet(ofDate[date])
    <3> DEFINE f == [i \in DOMAIN pairs |-> RowsOf(gtfs, pairs, date, i)]
    <3>1. ofDate[date] = UNION {f[i] : i \in DOMAIN pairs}
      OBVIOUS
    <3>2. \A i \in DOMAIN pairs : IsFiniteSet(f[i])
      BY <1>2
    <3> HIDE DEF f, ofDate
    <3>3. IsFiniteSet(UNION {f[i] : i \in DOMAIN pairs})
      BY <2>1, <3>2, FamilyFinite
    <3> QED
      BY <3>1, <3>3
  <2>3. all = UNION {ofDate[date] : date \in ScheduleDates}
    <3>1. \A x : x \in all <=> \E date \in ScheduleDates : \E i \in DOMAIN pairs : x \in RowsOf(gtfs, pairs, date, i)
      OBVIOUS
    <3>2. \A x : x \in UNION {ofDate[date] : date \in ScheduleDates} <=>
                 \E date \in ScheduleDates : \E i \in DOMAIN pairs : x \in RowsOf(gtfs, pairs, date, i)
      OBVIOUS
    <3> HIDE DEF all, ofDate
    <3> QED
      BY <3>1, <3>2
  <2> HIDE DEF all, ofDate
  <2>4. IsFiniteSet(UNION {ofDate[date] : date \in ScheduleDates})
    BY <2>1, <2>2, FamilyFinite
  <2> QED
    BY <2>3, <2>4
<1>4. \A x \in all : ShownOK(gtfs, pairs, x)
  BY <1>2
<1>5. ShownRows(gtfs, pairs) \in SUBSET all
  BY DEF ShownRows
<1> HIDE DEF all
<1> QED
  BY <1>3, <1>4, <1>5, FS_Subset

(* So the timetable's trips are finitely many, each with its times. *)
LEMMA GtfsTripsAre ==
  ASSUME TableOK, Served, Timely, now \in Int,
         NEW gtfs, EndpointsOK(gtfs.endpoints), NEW n \in Nat, NEW pairs, DOMAIN pairs = 1..n
  PROVE  TripsOK(GtfsTrips(gtfs, pairs))
<1> DEFINE shown == ShownRows(gtfs, pairs)
           first == {y \in shown : ~\E z \in shown : SameKey(y, z) /\ Before(z, y)}
           f == [x \in first |->
                   [trip |-> x.r.row.trip, route |-> x.r.row.route, stop |-> x.r.row.stop,
                    dir |-> x.r.row.dir, arr |-> x.r.times.arr, dep |-> x.r.times.dep,
                    realtime |-> x.r.times.realtime]]
<1>1. IsFiniteSet(shown) /\ \A x \in shown : ShownOK(gtfs, pairs, x)
  BY ShownRowsAre
<1>2. GtfsTrips(gtfs, pairs) = {f[x] : x \in first}
  BY DEF GtfsTrips
<1> HIDE DEF shown
<1>3. first \in SUBSET shown
  OBVIOUS
<1>4. \A x \in first : TimedTrip(f[x])
  BY <1>1 DEF ShownOK, TimedTrip
<1> HIDE DEF first, f
<1>5. IsFiniteSet(first)
  BY <1>1, <1>3, FS_Subset
<1>6. IsFiniteSet({f[x] : x \in first})
  BY <1>5, ImageFinite
<1> QED
  BY <1>2, <1>4, <1>6 DEF TripsOK

(* A request has finitely many stops. *)
LEMMA StopsFinite ==
  ASSUME NEW n \in Nat, NEW pairs, DOMAIN pairs = 1..n PROVE IsFiniteSet(StopsOf(pairs))
<1>1. IsFiniteSet(1..n)
  BY FS_Interval
<1> DEFINE f == [i \in 1..n |-> pairs[i].stop]
<1>2. StopsOf(pairs) = {f[i] : i \in 1..n}
  BY DEF StopsOf
<1> HIDE DEF f
<1>3. IsFiniteSet({f[i] : i \in 1..n})
  BY <1>1, ImageFinite
<1> QED
  BY <1>2, <1>3

-----------------------------------------------------------------------------
(* A board of OneBusAway. *)

(* The answer after the retries is one of the replies. *)
LEMMA ArrivalsAre ==
  ASSUME NEW replies, \A i \in 1..NullRetries : ReplyOK(replies[i])
  PROVE  LET list == ArrivalsAndDepartures(replies) IN
         \/ list \in {None, Failed}
         \/ IsSequence(list) /\ \A i \in DOMAIN list : ArrivalOK(list[i])
<1> DEFINE tries == {i \in 1..NullRetries : replies[i] # None}
           reply == IF tries = {} THEN None ELSE replies[Min(tries)]
           keys == [i \in DOMAIN reply |-> ArrivalKey(reply[i])]
           list == ArrivalsAndDepartures(replies)
<1>1. ReplyOK(reply)
  <2>1. CASE tries = {}
    BY <2>1 DEF ReplyOK
  <2>2. CASE tries # {}
    <3>1. tries \in SUBSET Nat
      BY NullRetriesAssumption
    <3>2. Min(tries) \in tries
      <4> HIDE DEF tries
      <4> QED
        BY <2>2, <3>1, MinIsLeast
    <3> QED
      BY <2>2, <3>2
  <2> QED
    BY <2>1, <2>2
<1>2. list = CASE reply \in {None, Failed} -> reply
               [] reply = <<>> -> None
               [] OTHER -> StablySorted(reply, keys)
  BY Zenon DEF ArrivalsAndDepartures
<1> HIDE DEF reply, keys
<1>3. list = reply \/ list = None \/ list = StablySorted(reply, keys)
  BY <1>2, Zenon
<1>4. reply \in {None, Failed} => list \in {None, Failed}
  BY <1>2, Zenon
<1>5. ASSUME reply \notin {None, Failed}, list = StablySorted(reply, keys)
      PROVE  IsSequence(list) /\ \A i \in DOMAIN list : ArrivalOK(list[i])
  <2>1. IsSequence(reply) /\ \A i \in DOMAIN reply : ArrivalOK(reply[i])
    BY <1>1, <1>5 DEF ReplyOK
  <2>2. \A i \in DOMAIN reply : keys[i] \in Int
    BY <2>1 DEF keys, ArrivalKey, ArrivalOK, Optional
  <2>3. /\ list \in Seq(ToSet(reply))
        /\ \A i \in DOMAIN list : \E j \in DOMAIN reply : list[i] = reply[j]
    BY <1>5, <2>1, <2>2, StablySortedIs DEF IsSequence
  <2>4. \A i \in DOMAIN list : ArrivalOK(list[i])
    BY <2>1, <2>3
  <2>5. IsSequence(list)
    <3>1. \A i \in DOMAIN list : list[i] \in ToSet(list)
      BY DEF ToSet
    <3>2. Len(list) \in Nat /\ DOMAIN list = 1..Len(list) /\ list = [i \in 1..Len(list) |-> list[i]]
      BY <2>3
    <3> QED
      BY <3>1, <3>2 DEF IsSequence
  <2> QED
    BY <2>4, <2>5
<1>6. ASSUME reply \notin {None, Failed}, list = reply
      PROVE  IsSequence(list) /\ \A i \in DOMAIN list : ArrivalOK(list[i])
  BY <1>1, <1>6 DEF ReplyOK
<1> QED
  BY <1>3, <1>4, <1>5, <1>6

(* An entry has an arrival and a departure, predicted or scheduled. *)
LEMMA ResolvedArrival ==
  ASSUME NEW ad, ArrivalOK(ad)
  PROVE  ResolveArrival(ad).arr \in Int /\ ResolveArrival(ad).dep \in Int
BY NoneAssumption DEF ResolveArrival, ArrivalOK, Optional, PlausibleDeviation

(* Only entries of the answer are shown. *)
LEMMA ShownAreListed ==
  ASSUME NEW A, NEW seq \in Seq(A), NEW routes, NEW time
  PROVE  ShownArrivals(seq, routes, time) \subseteq ToSet(seq)
<1>0. PICK walk : ShowsArrivals(walk, seq, routes, time)
  BY ShownArrivalsIs
<1>1. /\ walk[0] = {} /\ walk[Len(seq)] = ShownArrivals(seq, routes, time)
      /\ \A k \in 1..Len(seq) : walk[k] = NextShown(walk[k - 1], seq[k], routes, time)
  BY <1>0 DEF ShowsArrivals
<1>2. Len(seq) \in Nat /\ DOMAIN seq = 1..Len(seq)
  OBVIOUS
<1> DEFINE C == {k \in 0..Len(seq) : ~(walk[k] \subseteq ToSet(seq))}
<1>3. CASE C = {}
  <2>1. Len(seq) \in 0..Len(seq) /\ Len(seq) \notin C
    BY <1>2, <1>3
  <2> QED
    BY <1>1, <2>1
<1>4. CASE C # {}
  <2>1. C \in SUBSET Nat
    BY <1>2
  <2>2. PICK k \in C : \A j \in C : k <= j
    <3> HIDE DEF C
    <3> QED
      BY <1>4, <2>1, LeastNatural
  <2>3. k \in 0..Len(seq) /\ ~(walk[k] \subseteq ToSet(seq)) /\ k # 0
    BY <1>1, <2>2
  <2>4. k \in 1..Len(seq) /\ k - 1 \in 0..Len(seq) /\ k - 1 \notin C
    BY <1>2, <2>2, <2>3
  <2>5. walk[k - 1] \subseteq ToSet(seq) /\ seq[k] \in ToSet(seq)
    BY <1>2, <2>4 DEF ToSet
  <2>6. walk[k] = NextShown(walk[k - 1], seq[k], routes, time)
    BY <1>1, <2>4
  <2> QED
    BY <2>3, <2>5, <2>6 DEF NextShown
<1> QED
  BY <1>3, <1>4

(* The trips that a OneBusAway feed answers with. *)
LEMMA OneBusAwayTripsAre ==
  ASSUME NEW n \in Nat, NEW pairs, DOMAIN pairs = 1..n, NEW boards,
         \A stop \in StopsOf(pairs) : \A i \in 1..NullRetries : ReplyOK(boards[stop][i]),
         NEW time, OneBusAwayTrips(boards, pairs, time) # Failed
  PROVE  TripsOK(OneBusAwayTrips(boards, pairs, time))
<1> DEFINE at(stop) == ArrivalsAndDepartures(boards[stop])
           shown(stop) == IF at(stop) = None THEN {} ELSE ShownArrivals(at(stop), RoutesAt(pairs, stop), time)
           trip(stop, ad) ==
             [trip |-> ad.trip, route |-> ad.route, stop |-> stop, dir |-> ad.dir,
              arr |-> ResolveArrival(ad).arr, dep |-> ResolveArrival(ad).dep,
              realtime |-> ResolveArrival(ad).realtime]
           trips == [stop \in StopsOf(pairs) |-> {trip(stop, ad) : ad \in shown(stop)}]
           all == OneBusAwayTrips(boards, pairs, time)
<1>1. /\ \A stop \in StopsOf(pairs) : at(stop) # Failed
      /\ all = UNION {trips[stop] : stop \in StopsOf(pairs)}
  BY DEF OneBusAwayTrips
<1>2. ASSUME NEW stop \in StopsOf(pairs)
      PROVE  IsFiniteSet(shown(stop)) /\ \A ad \in shown(stop) : ArrivalOK(ad)
  <2>1. CASE at(stop) = None
    BY <2>1, FS_EmptySet
  <2>2. CASE at(stop) # None
    <3> DEFINE list == at(stop)
    <3>1. IsSequence(list) /\ \A i \in DOMAIN list : ArrivalOK(list[i])
      BY <1>1, <2>2, ArrivalsAre
    <3>2. shown(stop) = ShownArrivals(list, RoutesAt(pairs, stop), time)
      BY <2>2
    <3> HIDE DEF list, shown
    <3>3. shown(stop) \in SUBSET ToSet(list) /\ IsFiniteSet(ToSet(list))
      BY <3>1, <3>2, ShownAreListed, RangeFinite DEF IsSequence
    <3>4. \A ad \in ToSet(list) : ArrivalOK(ad)
      BY <3>1 DEF ToSet
    <3> QED
      BY <3>3, <3>4, FS_Subset
  <2> QED
    BY <2>1, <2>2
<1> HIDE DEF shown
<1>3. ASSUME NEW stop \in StopsOf(pairs)
      PROVE  IsFiniteSet(trips[stop]) /\ \A t \in trips[stop] : TimedTrip(t)
  <2> DEFINE f == [ad \in shown(stop) |-> trip(stop, ad)]
  <2>1. trips[stop] = {f[ad] : ad \in shown(stop)}
    OBVIOUS
  <2>2. \A ad \in shown(stop) : TimedTrip(f[ad])
    BY <1>2, ResolvedArrival DEF TimedTrip
  <2> HIDE DEF f, trips
  <2>3. IsFiniteSet({f[ad] : ad \in shown(stop)})
    BY <1>2, ImageFinite
  <2> QED
    BY <2>1, <2>2, <2>3
<1>4. IsFiniteSet(StopsOf(pairs))
  BY StopsFinite
<1> HIDE DEF trips, all, at
<1>5. IsFiniteSet(UNION {trips[stop] : stop \in StopsOf(pairs)})
  BY <1>3, <1>4, FamilyFinite
<1>6. IsFiniteSet(all) /\ \A t \in all : TimedTrip(t)
  BY <1>1, <1>3, <1>5
<1> QED
  BY <1>6 DEF TripsOK, all

-----------------------------------------------------------------------------
(* The departures of an MVG station. *)

(* The trips that an MVG feed answers with. *)
LEMMA MvgTripsAre ==
  ASSUME NEW n \in Nat, NEW pairs, DOMAIN pairs = 1..n, NEW boards,
         \A stop \in StopsOf(pairs) : LET board == boards[stop] IN
           board = Failed \/ (IsSequence(board) /\ \A i \in DOMAIN board : board[i].expected \in Int),
         NEW time, MvgTrips(boards, pairs, time) # Failed
  PROVE  TripsOK(MvgTrips(boards, pairs, time))
<1> DEFINE shown(stop) == DeparturesShown(Running(boards[stop], RoutesAt(pairs, stop), time))
           trip(stop, d) ==
             [trip |-> MvgTripId(d), route |-> d.line, stop |-> stop, dir |-> None,
              arr |-> d.expected, dep |-> d.expected, realtime |-> d.live]
           trips == [stop \in StopsOf(pairs) |-> {trip(stop, d) : d \in shown(stop)}]
           all == MvgTrips(boards, pairs, time)
<1>1. /\ \A stop \in StopsOf(pairs) : boards[stop] # Failed
      /\ all = UNION {trips[stop] : stop \in StopsOf(pairs)}
  BY DEF MvgTrips
<1>2. ASSUME NEW stop \in StopsOf(pairs)
      PROVE  IsFiniteSet(shown(stop)) /\ \A d \in shown(stop) : d.expected \in Int
  <2> DEFINE board == boards[stop]
             kept == {i \in DOMAIN board :
                        LET d == board[i] IN d.line \in RoutesAt(pairs, stop) /\ ~d.cancelled /\ d.expected >= time}
             list == Running(board, RoutesAt(pairs, stop), time)
  <2>1. IsSequence(board) /\ \A i \in DOMAIN board : board[i].expected \in Int
    BY <1>1
  <2>2. list = Filtered(board, kept) /\ kept \in SUBSET DOMAIN board
    BY DEF Running
  <2> HIDE DEF board, kept, list
  <2>3. list \in Seq(ToSet(board))
    BY <2>1, <2>2, FilteredSeq DEF IsSequence
  <2>4. shown(stop) \in SUBSET ToSet(list)
    BY DEF DeparturesShown, ToSet, list, board
  <2>5. IsFiniteSet(ToSet(list)) /\ ToSet(list) \subseteq ToSet(board)
    <3>1. \A i \in DOMAIN list : list[i] \in ToSet(board)
      BY <2>3
    <3> QED
      BY <2>3, <3>1, RangeFinite DEF ToSet
  <2>6. \A d \in ToSet(board) : d.expected \in Int
    BY <2>1 DEF ToSet
  <2> HIDE DEF shown
  <2> QED
    BY <2>4, <2>5, <2>6, FS_Subset
<1> HIDE DEF shown
<1>3. ASSUME NEW stop \in StopsOf(pairs)
      PROVE  IsFiniteSet(trips[stop]) /\ \A t \in trips[stop] : TimedTrip(t)
  <2> DEFINE f == [d \in shown(stop) |-> trip(stop, d)]
  <2>1. trips[stop] = {f[d] : d \in shown(stop)}
    OBVIOUS
  <2>2. \A d \in shown(stop) : TimedTrip(f[d])
    BY <1>2 DEF TimedTrip
  <2> HIDE DEF f, trips
  <2>3. IsFiniteSet({f[d] : d \in shown(stop)})
    BY <1>2, ImageFinite
  <2> QED
    BY <2>1, <2>2, <2>3
<1>4. IsFiniteSet(StopsOf(pairs))
  BY StopsFinite
<1> HIDE DEF trips, all
<1>5. IsFiniteSet(UNION {trips[stop] : stop \in StopsOf(pairs)})
  BY <1>3, <1>4, FamilyFinite
<1>6. IsFiniteSet(all) /\ \A t \in all : TimedTrip(t)
  BY <1>1, <1>3, <1>5
<1> QED
  BY <1>6 DEF TripsOK, all

-----------------------------------------------------------------------------
(* The boards of HAFAS, merged entry by entry. *)

(* The trips that entries E of a stop can make. *)
TripsFrom(E, stop) ==
  [trip : {e.trip : e \in E}, route : {e.route : e \in E}, stop : {stop}, dir : {e.dir : e \in E},
   arr : Int, dep : Int, realtime : BOOLEAN]

(* The trips after the entries of one board are merged. *)
Merged(base, stop, group, entries) ==
  FoldLeft(LAMBDA trips, e : MergeEntry(trips, stop, group, e), base, entries)

(* walk[k] is what they are after k entries. *)
Merges(walk, base, stop, group, entries) ==
  /\ walk[0] = base /\ walk[Len(entries)] = Merged(base, stop, group, entries)
  /\ \A k \in 1..Len(entries) : walk[k] = MergeEntry(walk[k - 1], stop, group, entries[k])

(* Merging an entry of the stop leaves trips of the stop. *)
LEMMA MergedEntry ==
  ASSUME NEW E, NEW stop, NEW trips \in SUBSET TripsFrom(E, stop), NEW group,
         NEW e \in E, When(e) \in Int
  PROVE  MergeEntry(trips, stop, group, e) \in SUBSET TripsFrom(E, stop)
<1> DEFINE old == {t \in trips : t.trip = e.trip}
           t == CHOOSE x \in old : TRUE
           live == t.realtime \/ e.delay # None
           new == [trip |-> e.trip, route |-> e.route, stop |-> stop, dir |-> e.dir,
                   arr |-> When(e), dep |-> When(e), realtime |-> e.delay # None]
           later == IF group = "departures" THEN [t EXCEPT !.dep = When(e), !.realtime = live]
                    ELSE [t EXCEPT !.arr = When(e), !.realtime = live]
<1>1. MergeEntry(trips, stop, group, e) =
        IF old = {} THEN trips \cup {new} ELSE (trips \ old) \cup {later}
  BY DEF MergeEntry
<1>2. new \in TripsFrom(E, stop)
  BY DEF TripsFrom
<1>3. old # {} => later \in TripsFrom(E, stop)
  <2>1. old # {} => t \in TripsFrom(E, stop)
    OBVIOUS
  <2> HIDE DEF t
  <2>2. ASSUME t \in TripsFrom(E, stop)
        PROVE  /\ [t EXCEPT !.dep = When(e), !.realtime = live] \in TripsFrom(E, stop)
               /\ [t EXCEPT !.arr = When(e), !.realtime = live] \in TripsFrom(E, stop)
    BY <2>2 DEF TripsFrom
  <2> QED
    BY <2>1, <2>2
<1> HIDE DEF old, new, later
<1> QED
  BY <1>1, <1>2, <1>3

(* The fold goes through the entries in order, and ends with trips of the
   stop. *)
LEMMA MergedIs ==
  ASSUME NEW E, \A e \in E : When(e) \in Int, NEW seq \in Seq(E), NEW stop, NEW group,
         NEW base \in SUBSET TripsFrom(E, stop)
  PROVE  /\ \E walk : Merges(walk, base, stop, group, seq)
         /\ Merged(base, stop, group, seq) \in SUBSET TripsFrom(E, stop)
<1> DEFINE n == Len(seq)
           D == SUBSET TripsFrom(E, stop)
           Is(h) == h = [T \in SUBSET (1..n) |->
                           IF T = {} THEN base ELSE MergeEntry(h[T \ {Max(T)}], stop, group, seq[Max(T)])]
           step == [k \in 1..n |-> [trips \in D |-> MergeEntry(trips, stop, group, seq[k])]]
           iter == CHOOSE h : Is(h)
<1>1. n \in Nat /\ DOMAIN seq = 1..n /\ \A k \in 1..n : seq[k] \in E
  OBVIOUS
<1>2. Merged(base, stop, group, seq) = iter[1..n]
  BY <1>1, Zenon DEF Merged, FoldLeft, MapThenFoldSet
<1> HIDE DEF n
<1>3. \A k \in 1..n : \A d \in D : MergeEntry(d, stop, group, seq[k]) \in D
  BY <1>1, MergedEntry
<1>4. Is(iter)
  <2>1. \A k \in 1..n : \A d \in D : step[k][d] \in D /\ step[k][d] = MergeEntry(d, stop, group, seq[k])
    BY <1>3
  <2>2. base \in D
    OBVIOUS
  <2> HIDE DEF D, step
  <2>3. PICK g : IsFold(n, D, base, step, g)
    <3>1. n \in Nat /\ base \in D /\ \A k \in 1..n : \A d \in D : step[k][d] \in D
      BY <1>1, <2>1, <2>2
    <3> QED
      BY <3>1, FoldExists
  <2>4. /\ g = [T \in SUBSET (1..n) |-> g[T]]
        /\ \A T \in SUBSET (1..n) :
             /\ g[T] \in D
             /\ g[T] = IF T = {} THEN base ELSE step[Max(T)][g[T \ {Max(T)}]]
    BY <2>3, Zenon DEF IsFold
  <2> DEFINE h == [T \in SUBSET (1..n) |->
                     IF T = {} THEN base ELSE MergeEntry(g[T \ {Max(T)}], stop, group, seq[Max(T)])]
  <2>5. ASSUME NEW T \in SUBSET (1..n) PROVE g[T] = h[T]
    <3>1. CASE T = {}
      BY <2>4, <3>1
    <3>2. CASE T # {}
      <4>1. Max(T) \in 1..n /\ g[T \ {Max(T)}] \in D
        BY <1>1, <2>4, <3>2, UpTo
      <4>2. g[T] = MergeEntry(g[T \ {Max(T)}], stop, group, seq[Max(T)])
        BY <2>1, <2>4, <3>2, <4>1
      <4>3. h[T] = MergeEntry(g[T \ {Max(T)}], stop, group, seq[Max(T)])
        BY <3>2
      <4> QED
        BY <4>2, <4>3
    <3> QED
      BY <3>1, <3>2
  <2>6. h = [T \in SUBSET (1..n) |-> h[T]]
    OBVIOUS
  <2>7. g = h
    <3>1. g = [T \in SUBSET (1..n) |-> g[T]]
      BY <2>4, Zenon
    <3> HIDE DEF h
    <3> QED
      BY <2>5, <2>6, <3>1
  <2>8. Is(g)
    BY <2>7, Zenon
  <2> HIDE DEF Is
  <2> QED
    BY <2>8
<1> HIDE DEF iter
<1> DEFINE walk == [k \in 0..n |-> iter[1..k]]
<1>5. walk[0] = base
  <2>1. 1..0 = {}
    OBVIOUS
  <2> QED
    BY <1>1, <1>4, <2>1
<1>6. walk[n] = Merged(base, stop, group, seq)
  BY <1>1, <1>2
<1>7. ASSUME NEW k \in 1..n PROVE walk[k] = MergeEntry(walk[k - 1], stop, group, seq[k])
  <2>1. 1..k \in SUBSET (1..n) /\ 1..k # {} /\ Max(1..k) = k /\ (1..k) \ {k} = 1..(k - 1)
    BY <1>1, UpTo
  <2>2. iter[1..k] = MergeEntry(iter[1..(k - 1)], stop, group, seq[k])
    BY <1>4, <2>1
  <2>3. walk[k] = iter[1..k] /\ walk[k - 1] = iter[1..(k - 1)]
    BY <1>1
  <2> QED
    BY <2>2, <2>3
<1> HIDE DEF walk, D
<1>8. Merges(walk, base, stop, group, seq)
  BY <1>5, <1>6, <1>7 DEF n, Merges
<1>9. walk[n] \in D
  <2> DEFINE C == {k \in 0..n : walk[k] \notin D}
  <2>1. CASE C = {}
    BY <1>1, <2>1
  <2>2. CASE C # {}
    <3>1. C \in SUBSET Nat
      BY <1>1
    <3>2. PICK k \in C : \A j \in C : k <= j
      <4> HIDE DEF C
      <4> QED
        BY <2>2, <3>1, LeastNatural
    <3>3. k \in 0..n /\ walk[k] \notin D /\ k # 0
      BY <1>5, <3>2 DEF D
    <3>4. k \in 1..n /\ k - 1 \in 0..n /\ k - 1 \notin C
      BY <1>1, <3>2, <3>3
    <3> QED
      BY <1>3, <1>7, <3>3, <3>4
  <2> QED
    BY <2>1, <2>2
<1> QED
  BY <1>6, <1>8, <1>9 DEF D

(* Of finitely many, as each entry adds one at most. *)
LEMMA FoldFinite ==
  ASSUME NEW E, \A e \in E : When(e) \in Int, NEW seq \in Seq(E), NEW stop, NEW group,
         NEW base \in SUBSET TripsFrom(E, stop), IsFiniteSet(base)
  PROVE  IsFiniteSet(Merged(base, stop, group, seq))
<1>0. PICK walk : Merges(walk, base, stop, group, seq)
  BY MergedIs
<1>1. /\ walk[0] = base /\ walk[Len(seq)] = Merged(base, stop, group, seq)
      /\ \A k \in 1..Len(seq) : walk[k] = MergeEntry(walk[k - 1], stop, group, seq[k])
  BY <1>0 DEF Merges
<1>2. Len(seq) \in Nat
  OBVIOUS
<1>3. ASSUME NEW trips, IsFiniteSet(trips), NEW e PROVE IsFiniteSet(MergeEntry(trips, stop, group, e))
  <2> DEFINE old == {t \in trips : t.trip = e.trip}
  <2>1. PICK x : \/ MergeEntry(trips, stop, group, e) = trips \cup {x}
                 \/ MergeEntry(trips, stop, group, e) = (trips \ old) \cup {x}
    BY DEF MergeEntry
  <2>2. IsFiniteSet(trips \ old)
    BY <1>3, FS_Difference
  <2> HIDE DEF old
  <2>3. IsFiniteSet(trips \cup {x}) /\ IsFiniteSet((trips \ old) \cup {x})
    BY <1>3, <2>2, FS_AddElement
  <2> QED
    BY <2>1, <2>3
<1> DEFINE C == {k \in 0..Len(seq) : ~IsFiniteSet(walk[k])}
<1>4. CASE C = {}
  BY <1>1, <1>2, <1>4
<1>5. CASE C # {}
  <2>1. C \in SUBSET Nat
    BY <1>2
  <2>2. PICK k \in C : \A j \in C : k <= j
    <3> HIDE DEF C
    <3> QED
      BY <1>5, <2>1, LeastNatural
  <2>3. k \in 0..Len(seq) /\ ~IsFiniteSet(walk[k]) /\ k # 0
    BY <1>1, <2>2
  <2>4. k \in 1..Len(seq) /\ k - 1 \in 0..Len(seq) /\ k - 1 \notin C
    BY <1>2, <2>2, <2>3
  <2> QED
    BY <1>1, <1>3, <2>3, <2>4
<1> QED
  BY <1>4, <1>5

-----------------------------------------------------------------------------
(* The entries that are not filtered out have a time. *)
LEMMA ShownEntries ==
  ASSUME NEW entries, EntriesOK(entries)
  PROVE  /\ Shown(entries) \in Seq(ToSet(Shown(entries))) /\ ToSet(Shown(entries)) \subseteq ToSet(entries)
         /\ \A e \in ToSet(Shown(entries)) : When(e) \in Int
<1> DEFINE kept == {i \in DOMAIN entries : ~entries[i].cancelled /\ When(entries[i]) # None}
           list == Shown(entries)
<1>1. list = Filtered(entries, kept) /\ kept \in SUBSET DOMAIN entries
  BY DEF Shown
<1>2. ASSUME NEW i \in kept PROVE When(entries[i]) \in Int /\ entries[i] \in ToSet(entries)
  BY DEF EntriesOK, EntryOK, When, Optional, ToSet
<1> HIDE DEF kept, list
<1>3. /\ list \in Seq(ToSet(entries))
      /\ \A x : x \in ToSet(list) <=> \E i \in kept : x = entries[i]
  BY <1>1, FilteredSeq DEF EntriesOK, IsSequence
<1>4. list \in Seq(ToSet(list))
  <2>1. \A i \in DOMAIN list : list[i] \in ToSet(list)
    BY DEF ToSet
  <2>2. Len(list) \in Nat /\ DOMAIN list = 1..Len(list) /\ list = [i \in 1..Len(list) |-> list[i]]
    BY <1>3
  <2> QED
    BY <2>1, <2>2
<1> QED
  BY <1>2, <1>3, <1>4 DEF list

(* The trips of one stop. *)
LEMMA TripsForStopAre ==
  ASSUME NEW board, EntriesOK(board.departures), EntriesOK(board.arrivals), NEW stop
  PROVE  TripsOK(TripsForStop(board, stop))
<1> DEFINE d == Shown(board.departures)
           a == Shown(board.arrivals)
           E == ToSet(d) \cup ToSet(a)
           leaving == Merged({}, stop, "departures", d)
           all == Merged(leaving, stop, "arrivals", a)
<1>1. TripsForStop(board, stop) = all
  BY DEF TripsForStop, Merged
<1>2. d \in Seq(ToSet(d)) /\ a \in Seq(ToSet(a)) /\ \A e \in E : When(e) \in Int
  BY ShownEntries
<1> HIDE DEF d, a
<1>3. d \in Seq(E) /\ a \in Seq(E)
  BY <1>2
<1> HIDE DEF E
<1>4. leaving \in SUBSET TripsFrom(E, stop) /\ IsFiniteSet(leaving)
  BY <1>2, <1>3, MergedIs, FoldFinite, FS_EmptySet
<1> HIDE DEF leaving
<1>5. all \in SUBSET TripsFrom(E, stop) /\ IsFiniteSet(all)
  BY <1>2, <1>3, <1>4, MergedIs, FoldFinite
<1>6. \A t \in TripsFrom(E, stop) : TimedTrip(t)
  BY DEF TripsFrom, TimedTrip
<1> HIDE DEF all
<1> QED
  BY <1>1, <1>5, <1>6 DEF TripsOK

(* The trips that a HAFAS feed answers with. *)
LEMMA HafasTripsAre ==
  ASSUME NEW n \in Nat, NEW pairs, DOMAIN pairs = 1..n, NEW boards,
         \A stop \in StopsOf(pairs) : LET board == boards[stop] IN
           board = Failed \/ (EntriesOK(board.departures) /\ EntriesOK(board.arrivals)),
         NEW time, HafasTrips(boards, pairs, time) # Failed
  PROVE  TripsOK(HafasTrips(boards, pairs, time))
<1> DEFINE trips == [stop \in StopsOf(pairs) |->
                       {t \in TripsForStop(boards[stop], stop) :
                          t.dep >= time /\ t.route \in RoutesAt(pairs, stop)}]
           all == HafasTrips(boards, pairs, time)
<1>1. /\ \A stop \in StopsOf(pairs) : boards[stop] # Failed
      /\ all = UNION {trips[stop] : stop \in StopsOf(pairs)}
  BY DEF HafasTrips
<1>2. ASSUME NEW stop \in StopsOf(pairs)
      PROVE  IsFiniteSet(trips[stop]) /\ \A t \in trips[stop] : TimedTrip(t)
  <2>1. TripsOK(TripsForStop(boards[stop], stop))
    BY <1>1, TripsForStopAre
  <2>2. trips[stop] \in SUBSET TripsForStop(boards[stop], stop)
    OBVIOUS
  <2> HIDE DEF trips
  <2> QED
    BY <2>1, <2>2, FS_Subset DEF TripsOK
<1> HIDE DEF trips, all
<1>3. IsFiniteSet(UNION {trips[stop] : stop \in StopsOf(pairs)})
  BY <1>2, StopsFinite, FamilyFinite
<1>4. IsFiniteSet(all) /\ \A t \in all : TimedTrip(t)
  BY <1>1, <1>2, <1>3
<1> QED
  BY <1>4 DEF TripsOK, all

-----------------------------------------------------------------------------
(* The trips of a provider, of all feeds, and those that can be listed. *)

(* Whatever its kind, a provider answers with finitely many trips that have
   times. *)
LEMMA ProviderTripsAre ==
  ASSUME TableOK, Served, Timely, now \in Int,
         NEW n \in Nat, NEW pairs, DOMAIN pairs = 1..n,
         NEW p, ProviderOK(p, StopsOf(pairs)), ProviderTrips(p, pairs) # Failed
  PROVE  TripsOK(ProviderTrips(p, pairs))
<1>1. CASE p.kind = "gtfs"
  <2>1. ProviderTrips(p, pairs) = GtfsTrips(p, pairs)
    BY <1>1, Zenon DEF ProviderTrips
  <2>2. EndpointsOK(p.endpoints)
    BY <1>1 DEF ProviderOK
  <2> QED
    BY <2>1, <2>2, GtfsTripsAre
<1>2. CASE p.kind = "onebusaway"
  <2>1. ProviderTrips(p, pairs) = OneBusAwayTrips(p.boards, pairs, now)
    BY <1>2, Zenon DEF ProviderTrips
  <2>2. \A stop \in StopsOf(pairs) : \A i \in 1..NullRetries : ReplyOK(p.boards[stop][i])
    BY <1>2 DEF ProviderOK
  <2> QED
    BY <2>1, <2>2, OneBusAwayTripsAre
<1>3. CASE p.kind = "hafas"
  <2>1. ProviderTrips(p, pairs) = HafasTrips(p.boards, pairs, now)
    BY <1>3, Zenon DEF ProviderTrips
  <2>2. \A stop \in StopsOf(pairs) : LET board == p.boards[stop] IN
           board = Failed \/ (EntriesOK(board.departures) /\ EntriesOK(board.arrivals))
    BY <1>3 DEF ProviderOK
  <2> QED
    BY <2>1, <2>2, HafasTripsAre
<1>4. CASE p.kind = "mvg"
  <2>1. ProviderTrips(p, pairs) = MvgTrips(p.boards, pairs, now)
    BY <1>4, Zenon DEF ProviderTrips
  <2>2. \A stop \in StopsOf(pairs) : LET board == p.boards[stop] IN
           board = Failed \/ (IsSequence(board) /\ \A i \in DOMAIN board : board[i].expected \in Int)
    BY <1>4 DEF ProviderOK
  <2> QED
    BY <2>1, <2>2, MvgTripsAre
<1> QED
  BY <1>1, <1>2, <1>3, <1>4 DEF ProviderOK

(* Global ids leave them so. *)
LEMMA GloballyAre ==
  ASSUME NEW trips, TripsOK(trips), NEW feed PROVE TripsOK(Globally(feed, trips))
<1> DEFINE f == [t \in trips |-> [t EXCEPT !.trip = ToGlobalId(feed, @), !.route = ToGlobalId(feed, @),
                                           !.stop = ToGlobalId(feed, @)]]
<1>1. Globally(feed, trips) = {f[t] : t \in trips}
  BY DEF Globally
<1>2. ASSUME NEW t \in trips PROVE TimedTrip(f[t])
  <2>1. TimedTrip(t)
    BY DEF TripsOK
  <2>2. f[t] = [trip |-> ToGlobalId(feed, t.trip), route |-> ToGlobalId(feed, t.route),
                stop |-> ToGlobalId(feed, t.stop), dir |-> t.dir, arr |-> t.arr, dep |-> t.dep,
                realtime |-> t.realtime]
    BY <2>1 DEF TimedTrip
  <2> HIDE DEF f
  <2> QED
    BY <2>1, <2>2 DEF TimedTrip
<1> HIDE DEF f
<1>3. IsFiniteSet({f[t] : t \in trips})
  BY ImageFinite DEF TripsOK
<1> QED
  BY <1>1, <1>2, <1>3 DEF TripsOK

(* its are the pairs of one feed, with the ids that the feed knows. *)
PairsFor(its, pairs, feed) ==
  /\ \E m \in Nat : DOMAIN its = 1..m
  /\ \A k \in DOMAIN its : \E i \in DOMAIN pairs :
       pairs[i].stop.feed = feed /\ its[k] = [route |-> pairs[i].route.id, stop |-> pairs[i].stop.id]
  /\ \A i \in DOMAIN pairs : pairs[i].stop.feed = feed => \E k \in DOMAIN its :
       its[k] = [route |-> pairs[i].route.id, stop |-> pairs[i].stop.id]

(* The pairs that a feed is asked for are those of the request with its prefix. *)
LEMMA PairsOfFeedAre ==
  ASSUME NEW n \in Nat, NEW pairs, DOMAIN pairs = 1..n, NEW feed
  PROVE  PairsFor(PairsOfFeed(pairs, feed), pairs, feed)
<1> DEFINE S == {i \in DOMAIN pairs : pairs[i].stop.feed = feed}
           mine == Filtered(pairs, S)
           its == PairsOfFeed(pairs, feed)
           m == Cardinality(S)
<1>1. its = [k \in DOMAIN mine |-> [route |-> mine[k].route.id, stop |-> mine[k].stop.id]]
  BY DEF PairsOfFeed
<1>2. S \in SUBSET (1..n) /\ \A i \in S : pairs[i].stop.feed = feed
  OBVIOUS
<1>3. \A i \in DOMAIN pairs : pairs[i].stop.feed = feed => i \in S
  OBVIOUS
<1> HIDE DEF S, its
<1>4. /\ m \in Nat /\ DOMAIN mine = 1..m
      /\ \A k \in 1..m : Source(S, k) \in S /\ mine[k] = pairs[Source(S, k)]
      /\ \A i \in S : \E k \in 1..m : Source(S, k) = i
  BY <1>2, FilteredIs
<1> HIDE DEF mine, m
<1>5. DOMAIN its = 1..m /\ \A k \in 1..m : its[k] = [route |-> mine[k].route.id, stop |-> mine[k].stop.id]
  BY <1>1, <1>4
<1>6. ASSUME NEW k \in 1..m
      PROVE  \E i \in DOMAIN pairs : /\ pairs[i].stop.feed = feed
                                     /\ its[k] = [route |-> pairs[i].route.id, stop |-> pairs[i].stop.id]
  <2>1. Source(S, k) \in S /\ mine[k] = pairs[Source(S, k)]
    BY <1>4
  <2>2. Source(S, k) \in DOMAIN pairs /\ pairs[Source(S, k)].stop.feed = feed
    BY <1>2, <2>1
  <2> QED
    BY <1>5, <2>1, <2>2
<1>7. ASSUME NEW i \in DOMAIN pairs, pairs[i].stop.feed = feed
      PROVE  \E k \in 1..m : its[k] = [route |-> pairs[i].route.id, stop |-> pairs[i].stop.id]
  <2>1. i \in S
    BY <1>3, <1>7
  <2>2. PICK k \in 1..m : Source(S, k) = i
    BY <1>4, <2>1
  <2>3. mine[k] = pairs[i]
    BY <1>4, <2>2
  <2> QED
    BY <1>5, <2>3
<1>8. PairsFor(its, pairs, feed)
  BY <1>4, <1>5, <1>6, <1>7 DEF PairsFor
<1> QED
  BY <1>8 DEF its

-----------------------------------------------------------------------------
(* What is asked for. *)

(* A pair that is not refused names one registered feed. *)
LEMMA NotRefused ==
  ASSUME NEW pair, PairError(pair) = None
  PROVE  /\ pair.stop.feed \in DOMAIN feeds /\ pair.stop.feed # None
         /\ pair.stop.feed = pair.route.feed
<1>1. IdError(pair.stop) = None /\ pair.stop.feed = pair.route.feed
  BY ErrorsAssumption DEF PairError
<1>2. CASE pair.stop.feed = None \/ pair.stop.id = None
  <2>1. IdError(pair.stop) \in {"InvalidGlobalId", "FeedProviderNotFound"}
    BY <1>2, Zenon DEF IdError
  <2> QED
    BY <1>1, <2>1, ErrorsAssumption
<1>3. CASE ~(pair.stop.feed = None \/ pair.stop.id = None) /\ pair.stop.feed \notin DOMAIN feeds
  <2>1. IdError(pair.stop) = "FeedProviderNotFound"
    BY <1>3, Zenon DEF IdError
  <2> QED
    BY <1>1, <2>1, ErrorsAssumption
<1> QED
  BY <1>1, <1>2, <1>3

(* The answer of all feeds is made of theirs. *)
LEMMA AllFeedsAnswer ==
  ASSUME request.feed = None, "trips" \in DOMAIN UpcomingTrips
  PROVE  /\ \A i \in DOMAIN request.pairs :
              LET f == request.pairs[i].stop.feed IN
              /\ PairError(request.pairs[i]) = None /\ f \in Asked
              /\ ProviderTrips(feeds[f], AskedPairs(f)) # Failed
         /\ UpcomingTrips.trips =
              UNION {Globally(f, ProviderTrips(feeds[f], AskedPairs(f))) :
                       f \in {request.pairs[i].stop.feed : i \in DOMAIN request.pairs}}
<1> DEFINE pairs == request.pairs
           refused == {i \in DOMAIN pairs : PairError(pairs[i]) # None}
           involved == {pairs[i].stop.feed : i \in DOMAIN pairs}
           Of(f) == ProviderTrips(feeds[f], PairsOfFeed(pairs, f))
           all == UNION {Globally(f, Of(f)) : f \in involved}
<1>1. UpcomingTrips =
        IF refused # {} THEN [error |-> PairError(pairs[Min(refused)])]
        ELSE IF \E f \in involved : Of(f) = Failed THEN [error |-> "upstream"]
        ELSE [trips |-> all]
  BY DEF UpcomingTrips, AllFeedsTrips
<1>2. refused = {} /\ (\A f \in involved : Of(f) # Failed) /\ UpcomingTrips = [trips |-> all]
  <2> HIDE DEF refused, involved, all
  <2> QED
    BY <1>1
<1>3. \A f : AskedPairs(f) = PairsOfFeed(pairs, f)
  BY DEF AskedPairs
<1>4. ASSUME NEW i \in DOMAIN pairs
      PROVE  LET f == pairs[i].stop.feed IN
             /\ PairError(pairs[i]) = None /\ f \in Asked
             /\ ProviderTrips(feeds[f], AskedPairs(f)) # Failed
  <2>1. PairError(pairs[i]) = None
    BY <1>2
  <2>2. pairs[i].stop.feed \in DOMAIN feeds
    BY <2>1, NotRefused
  <2>3. pairs[i].stop.feed \in Asked
    BY <2>2 DEF Asked
  <2>4. Of(pairs[i].stop.feed) # Failed
    BY <1>2
  <2> QED
    BY <1>3, <2>1, <2>3, <2>4
<1>5. UpcomingTrips.trips = UNION {Globally(f, ProviderTrips(feeds[f], AskedPairs(f))) : f \in involved}
  BY <1>2, <1>3
<1> QED
  BY <1>4, <1>5

(* The answer of one feed is what its provider answers. *)
LEMMA OneFeedAnswer ==
  ASSUME request.feed # None, "trips" \in DOMAIN UpcomingTrips
  PROVE  /\ request.feed \in Asked
         /\ AskedPairs(request.feed) = request.pairs
         /\ ProviderTrips(feeds[request.feed], request.pairs) # Failed
         /\ UpcomingTrips.trips = ProviderTrips(feeds[request.feed], request.pairs)
BY DEF UpcomingTrips, Asked, AskedPairs

(* What a feed that is asked answers with. *)
LEMMA AskedTripsAre ==
  ASSUME TypeOK, NEW f \in Asked, ProviderTrips(feeds[f], AskedPairs(f)) # Failed
  PROVE  TripsOK(ProviderTrips(feeds[f], AskedPairs(f)))
<1>1. PICK n \in Nat : DOMAIN AskedPairs(f) = 1..n
  <2>1. Len(request.pairs) \in Nat /\ DOMAIN request.pairs = 1..Len(request.pairs)
    BY DEF TypeOK, RequestOK, IsSequence
  <2> QED
    BY <2>1, PairsOfFeedAre DEF AskedPairs, PairsFor
<1>2. ProviderOK(feeds[f], StopsOf(AskedPairs(f)))
  BY DEF TypeOK, ProvidersOK
<1> QED
  BY <1>1, <1>2, ProviderTripsAre DEF TypeOK

(* And what all of them do. *)
LEMMA UpcomingTripsAre ==
  ASSUME TypeOK, "trips" \in DOMAIN UpcomingTrips
  PROVE  TripsOK(UpcomingTrips.trips)
<1>1. CASE request.feed # None
  BY <1>1, OneFeedAnswer, AskedTripsAre
<1>2. CASE request.feed = None
  <2> DEFINE involved == {request.pairs[i].stop.feed : i \in DOMAIN request.pairs}
             g == [f \in involved |-> Globally(f, ProviderTrips(feeds[f], AskedPairs(f)))]
             all == UpcomingTrips.trips
  <2>1. /\ \A f \in involved : f \in Asked /\ ProviderTrips(feeds[f], AskedPairs(f)) # Failed
        /\ all = UNION {Globally(f, ProviderTrips(feeds[f], AskedPairs(f))) : f \in involved}
    BY <1>2, AllFeedsAnswer
  <2>2. all = UNION {g[f] : f \in involved}
    BY <2>1
  <2>3. \A f \in involved : TripsOK(g[f])
    BY <2>1, AskedTripsAre, GloballyAre
  <2>4. IsFiniteSet(involved)
    <3>1. Len(request.pairs) \in Nat /\ DOMAIN request.pairs = 1..Len(request.pairs)
      BY DEF TypeOK, RequestOK, IsSequence
    <3>2. IsFiniteSet(DOMAIN request.pairs)
      BY <3>1, FS_Interval
    <3> DEFINE h == [i \in DOMAIN request.pairs |-> request.pairs[i].stop.feed]
    <3>3. involved = {h[i] : i \in DOMAIN request.pairs}
      OBVIOUS
    <3> HIDE DEF h, involved
    <3>4. IsFiniteSet({h[i] : i \in DOMAIN request.pairs})
      BY <3>2, ImageFinite
    <3> QED
      BY <3>3, <3>4
  <2> HIDE DEF g, all, involved
  <2>5. IsFiniteSet(UNION {g[f] : f \in involved})
    BY <2>3, <2>4, FamilyFinite DEF TripsOK
  <2>6. IsFiniteSet(all) /\ \A t \in all : TimedTrip(t)
    BY <2>2, <2>3, <2>5 DEF TripsOK
  <2> QED
    BY <2>6 DEF TripsOK, all
<1> QED
  BY <1>1, <1>2

(* An offset is a number of ticks, of a pair that was asked for or 0. *)
LEMMA OffsetInt ==
  ASSUME RequestOK, NEW t PROVE OffsetOf(t) \in Int
<1> DEFINE its == {i \in DOMAIN request.pairs : /\ request.pairs[i].route = t.route
                                                /\ request.pairs[i].stop = t.stop}
<1>1. OffsetOf(t) = IF its = {} THEN 0 ELSE request.pairs[Min(its)].offset
  BY DEF OffsetOf
<1>2. its \in SUBSET Nat
  <2>1. DOMAIN request.pairs = 1..Len(request.pairs) /\ Len(request.pairs) \in Nat
    BY DEF RequestOK, IsSequence
  <2> QED
    BY <2>1
<1>3. its # {} => Min(its) \in its
  <2> HIDE DEF its
  <2> QED
    BY <1>2, MinIsLeast
<1>4. its # {} => Min(its) \in DOMAIN request.pairs
  BY <1>3
<1> HIDE DEF its
<1> QED
  BY <1>1, <1>4 DEF RequestOK

(* A trip with the offset of its stop. *)
Shifted(t) == [t EXCEPT !.arr = @ + OffsetOf(t), !.dep = @ + OffsetOf(t)]

(* Replacing both times of a trip leaves the rest of it. *)
LEMMA ShiftedTimes ==
  ASSUME NEW t, TimedTrip(t), NEW a, NEW d
  PROVE  [t EXCEPT !.arr = a, !.dep = d]
           = [trip |-> t.trip, route |-> t.route, stop |-> t.stop, dir |-> t.dir,
              arr |-> a, dep |-> d, realtime |-> t.realtime]
<1> DEFINE u == [t EXCEPT !.arr = a]
<1>1. u = [trip |-> t.trip, route |-> t.route, stop |-> t.stop, dir |-> t.dir,
           arr |-> a, dep |-> t.dep, realtime |-> t.realtime]
  BY DEF TimedTrip
<1>2. [t EXCEPT !.arr = a, !.dep = d] = [u EXCEPT !.dep = d]
  BY Zenon
<1> HIDE DEF u
<1>3. [u EXCEPT !.dep = d]
        = [trip |-> t.trip, route |-> t.route, stop |-> t.stop, dir |-> t.dir,
           arr |-> a, dep |-> d, realtime |-> t.realtime]
  BY <1>1
<1> QED
  BY <1>2, <1>3

(* A shifted trip differs in its times only, and has the same offset. *)
LEMMA ShiftedIs ==
  ASSUME RequestOK, NEW t, TimedTrip(t)
  PROVE  /\ TimedTrip(Shifted(t))
         /\ Shifted(t).trip = t.trip /\ Shifted(t).route = t.route /\ Shifted(t).stop = t.stop
         /\ Shifted(t).dir = t.dir /\ Shifted(t).realtime = t.realtime
         /\ Shifted(t).arr = t.arr + OffsetOf(t) /\ Shifted(t).dep = t.dep + OffsetOf(t)
         /\ OffsetOf(Shifted(t)) = OffsetOf(t)
<1> DEFINE o == OffsetOf(t)
           s == Shifted(t)
<1>1. o \in Int
  BY OffsetInt
<1> HIDE DEF o
<1>2. s = [trip |-> t.trip, route |-> t.route, stop |-> t.stop, dir |-> t.dir,
           arr |-> t.arr + o, dep |-> t.dep + o, realtime |-> t.realtime]
  <2>1. s = [t EXCEPT !.arr = t.arr + o, !.dep = t.dep + o]
    BY Zenon DEF Shifted, o
  <2> HIDE DEF s
  <2>2. [t EXCEPT !.arr = t.arr + o, !.dep = t.dep + o]
          = [trip |-> t.trip, route |-> t.route, stop |-> t.stop, dir |-> t.dir,
             arr |-> t.arr + o, dep |-> t.dep + o, realtime |-> t.realtime]
    BY ShiftedTimes
  <2> QED
    BY <2>1, <2>2
<1>3. t.arr \in Int /\ t.dep \in Int
  BY DEF TimedTrip
<1> HIDE DEF s
<1>4. s.route = t.route /\ s.stop = t.stop
  BY <1>2
<1>5. OffsetOf(s) = OffsetOf(t)
  BY <1>4 DEF OffsetOf
<1> QED
  BY <1>1, <1>2, <1>3, <1>5 DEF TimedTrip, o, s

(* The candidates are the shifted trips that are still to come, finitely
   many. *)
LEMMA CandidatesAre ==
  ASSUME TypeOK, "trips" \in DOMAIN UpcomingTrips
  PROVE  /\ Sortable
         /\ \A t : t \in Candidates <=> \E u \in UpcomingTrips.trips : t = Shifted(u) /\ SortKey(t) > now
<1> DEFINE trips == UpcomingTrips.trips
           f == [t \in trips |-> Shifted(t)]
<1>1. TripsOK(trips)
  BY UpcomingTripsAre
<1>2. Offset(trips) = {f[t] : t \in trips}
  BY DEF Offset, Shifted
<1>3. \A t : t \in Candidates <=> \E u \in trips : t = Shifted(u) /\ SortKey(t) > now
  BY <1>2 DEF Candidates, Upcoming
<1> HIDE DEF trips
<1>4. \A t \in trips : TimedTrip(Shifted(t))
  BY <1>1, ShiftedIs DEF TripsOK, TypeOK
<1>5. Candidates \in SUBSET {f[t] : t \in trips}
  BY <1>3
<1> HIDE DEF f
<1>6. IsFiniteSet(Candidates)
  <2>1. IsFiniteSet(trips)
    BY <1>1 DEF TripsOK
  <2>2. IsFiniteSet({f[t] : t \in trips})
    BY <2>1, ImageFinite
  <2> QED
    BY <1>5, <2>2, FS_Subset
<1>7. \A t \in Candidates : SortKey(t) \in Int
  BY <1>3, <1>4 DEF SortKey, TimedTrip
<1> QED
  BY <1>3, <1>6, <1>7 DEF Sortable, trips

-----------------------------------------------------------------------------
(* The invariant. *)

(* An answer that is there was made from the same clock,
   table and request: Tick and PostProcess discard it. *)
Inv == TypeOK /\ Filling /\ AnswerOK

(* A step of post-processing keeps the types. *)
LEMMA ProcessedTypes ==
  ASSUME TypeOK, Filling, PostProcess, UNCHANGED <<feeds, request, now>>
  PROVE  TypeOK' /\ Filling'
<1>1. TableOK' /\ Filling' /\ Timely'
  BY PostProcessKeeps, PostProcessTimely DEF TypeOK
<1>2. Served'
  <2>1. CASE UNCHANGED table
    BY <2>1 DEF TypeOK, Served
  <2>2. CASE \/ table' = [table EXCEPT !.stopTimes = [t \in DOMAIN @ |-> FillArrivals(@[t])]]
             \/ table' = [table EXCEPT !.stopTimes = [t \in DOMAIN @ |-> FillDepartures(@[t])]]
    <3>1. table'.trips = table.trips /\ DOMAIN table'.stopTimes = DOMAIN table.stopTimes
      BY <2>2 DEF TypeOK, TableOK
    <3> QED
      BY <3>1 DEF TypeOK, Served
  <2> QED
    BY <2>1, <2>2 DEF PostProcess, CheckEmptyArrivals, FailPostProcessing,
                      InterpolateEmptyArrivalTimes, UpdateEmptyDepartureTimes
<1>3. RequestOK' /\ ProvidersOK' /\ now' \in Int
  BY DEF TypeOK, RequestOK, ProvidersOK, Asked, AskedPairs
<1> QED
  BY <1>1, <1>2, <1>3 DEF TypeOK

(* The clock may go on. *)
LEMMA SameTypes ==
  ASSUME TypeOK, Filling, UNCHANGED <<table, processing, feeds, request>>, now' \in Int
  PROVE  TypeOK' /\ Filling'
BY DEF TypeOK, Filling, TableOK, Served, Timely, RequestOK, ProvidersOK, Asked, AskedPairs

(* The answer of this state. *)
LEMMA AskAnswers ==
  ASSUME TypeOK, Ask PROVE AnswerOK'
<1>1. Same /\ answer' = GetSchedule
  BY DEF Ask, Same, timetableVars
<1>2. "error" \notin DOMAIN UpcomingTrips => Sortable
  <2>1. "error" \notin DOMAIN UpcomingTrips => "trips" \in DOMAIN UpcomingTrips
    BY DEF UpcomingTrips, AllFeedsTrips
  <2> QED
    BY <2>1, CandidatesAre
<1>3. "trips" \in DOMAIN GetSchedule =>
        "trips" \in DOMAIN UpcomingTrips /\ Board(GetSchedule.trips, Candidates)
  BY <1>2, ScheduleIs DEF TypeOK, RequestOK
<1>4. PICK a : a = GetSchedule
  OBVIOUS
<1>5. answer' = a
  BY <1>1, <1>4
<1>6. Board(a.trips, Candidates)' <=> Board(a.trips, Candidates)
  BY <1>1, SameBoard
<1>7. UpcomingTrips' = UpcomingTrips
  BY <1>1, SameUpcomingTrips
<1> QED
  BY <1>3, <1>4, <1>5, <1>6, <1>7 DEF AnswerOK, Answered

(* The invariant holds. *)
LEMMA Invariant == Spec => []Inv
<1>1. Init => Inv
  BY DEF Init, Inv, AnswerOK, Answered
<1>2. Inv /\ [Next]_vars => Inv'
  <2> SUFFICES ASSUME Inv, [Next]_vars PROVE Inv'
    OBVIOUS
  <2>1. CASE Ask
    <3>1. TypeOK' /\ Filling'
      BY <2>1, SameTypes DEF Ask, timetableVars, Inv, TypeOK
    <3> QED
      BY <2>1, <3>1, AskAnswers DEF Inv
  <2>2. CASE Tick
    <3>1. TypeOK' /\ Filling'
      <4>1. now' \in Int
        BY <2>2 DEF Tick, Inv, TypeOK
      <4> QED
        BY <2>2, <4>1, SameTypes DEF Tick, timetableVars, Inv
    <3>2. AnswerOK'
      BY <2>2 DEF Tick, AnswerOK, Answered
    <3> QED
      BY <3>1, <3>2 DEF Inv
  <2>3. CASE PostProcess /\ answer' = None /\ UNCHANGED <<feeds, request, now, asked>>
    <3>1. TypeOK' /\ Filling'
      BY <2>3, ProcessedTypes DEF Inv
    <3>2. AnswerOK'
      BY <2>3 DEF AnswerOK, Answered
    <3> QED
      BY <3>1, <3>2 DEF Inv
  <2>4. CASE UNCHANGED vars
    <3>1. Same /\ UNCHANGED answer
      BY <2>4 DEF Same, vars
    <3>2. TypeOK' /\ Filling'
      BY <3>1, SameTypes DEF Same, Inv, TypeOK
    <3>3. AnswerOK'
      <4>1. PICK a : a = answer
        OBVIOUS
      <4>2. answer' = a
        BY <3>1, <4>1
      <4>3. Board(a.trips, Candidates)' <=> Board(a.trips, Candidates)
        BY <3>1, SameBoard
      <4>4. UpcomingTrips' = UpcomingTrips
        BY <3>1, SameUpcomingTrips
      <4> QED
        BY <4>1, <4>2, <4>3, <4>4 DEF Inv, AnswerOK, Answered
    <3> QED
      BY <3>2, <3>3 DEF Inv
  <2> QED
    BY <2>1, <2>2, <2>3, <2>4 DEF Next
<1> QED
  BY <1>1, <1>2, PTL DEF Spec

(***************************************************************************)
(* The timetable, the answers and the request keep their types, and trips  *)
(* their order, while post-processing goes on between the polls.           *)
(***************************************************************************)
THEOREM TypesHold == Spec => []TypeOK
<1>1. Inv => TypeOK
  BY DEF Inv
<1> QED
  BY <1>1, Invariant, PTL

(***************************************************************************)
(* Polls do not disturb post-processing: what is proved of a timetable     *)
(* alone holds of one that is asked.                                       *)
(***************************************************************************)
THEOREM TimetableUndisturbed == Spec => TimetableSpec /\ []TimesInOrder /\ []GapsFilled
<1>1. Init => TableOK /\ Filling
  BY DEF Init, TypeOK
<1>2. [Next]_vars => [PostProcess]_timetableVars
  BY DEF Next, vars, timetableVars, Ask, Tick
<1> QED
  BY <1>1, <1>2, TripsRunForwards, GapsAreFilled, PTL DEF Spec, TimetableSpec

(***************************************************************************)
(* The board is in order and shows what comes first, and no candidate is   *)
(* left out but for later than the rest of a full board, or later than the *)
(* next of its route and direction.                                        *)
(***************************************************************************)
THEOREM EarliestFirstHolds == Spec => []EarliestFirst
<1>1. Inv => EarliestFirst
  BY AnswerInOrder DEF Inv
<1> QED
  BY <1>1, Invariant, PTL

-----------------------------------------------------------------------------
(* Times on a board. *)

(* A trip of the timetable that is on the board comes from a row. *)
LEMMA ScheduledTrip ==
  ASSUME TableOK, Served, Timely, now \in Int,
         NEW gtfs, EndpointsOK(gtfs.endpoints), NEW n \in Nat, NEW pairs, DOMAIN pairs = 1..n,
         NEW u \in GtfsTrips(gtfs, pairs)
  PROVE  \E row \in Instances(u.route, u.stop) :
           /\ row.trip = u.trip /\ row.arr \in Int /\ row.dep \in Int
           /\ u.arr \in Int /\ u.dep \in Int /\ u.arr <= u.dep
           /\ ~Deviates(u.arr, row.arr) /\ ~Deviates(u.dep, row.dep)
           /\ ~u.realtime => u.arr = row.arr /\ u.dep = row.dep
<1>1. PICK x \in ShownRows(gtfs, pairs) :
        u = [trip |-> x.r.row.trip, route |-> x.r.row.route, stop |-> x.r.row.stop,
             dir |-> x.r.row.dir, arr |-> x.r.times.arr, dep |-> x.r.times.dep,
             realtime |-> x.r.times.realtime]
  BY DEF GtfsTrips
<1>2. ShownOK(gtfs, pairs, x)
  BY ShownRowsAre
<1> DEFINE row == x.r.row
           times == x.r.times
           day == now \div Day + x.date
<1>3. /\ x.date \in {-1, 0, 1}
      /\ row \in ScheduleForRouteAtStop(pairs[x.pair].route, pairs[x.pair].stop, day)
      /\ row.route = pairs[x.pair].route /\ row.stop = pairs[x.pair].stop
      /\ row.arr \in Int /\ row.dep \in Int
      /\ times.arr \in Int /\ times.dep \in Int /\ times.arr <= times.dep
      /\ ~Deviates(times.arr, row.arr) /\ ~Deviates(times.dep, row.dep)
      /\ ~times.realtime => times.arr = row.arr /\ times.dep = row.dep
  BY <1>2 DEF ShownOK, RowOK, ScheduleDates
<1>4. day \in (now \div Day - 4)..(now \div Day + 4)
  <2>1. now \div Day \in Int
    BY DayAssumption
  <2> QED
    BY <1>3, <2>1
<1>5. /\ u.trip = row.trip /\ u.route = row.route /\ u.stop = row.stop
      /\ u.arr = times.arr /\ u.dep = times.dep /\ u.realtime = times.realtime
  BY <1>1
<1> HIDE DEF row, times, day
<1>6. row \in Instances(u.route, u.stop)
  BY <1>3, <1>4, <1>5 DEF Instances
<1> QED
  BY <1>3, <1>5, <1>6

(* The trips on a board are candidates. *)
LEMMA ListedAreCandidates ==
  ASSUME AnswerOK, Answered, NEW t \in Listed PROVE t \in Candidates
BY DEF AnswerOK, Board, Listed

(* The times of a board are plausible. *)
LEMMA BoardPlausible ==
  ASSUME TypeOK, AnswerOK PROVE TimesPlausible
<1> SUFFICES ASSUME Answered, request.feed \in AskedGtfs, NEW t \in Listed
             PROVE  LET offset == OffsetOf(t) IN
                    /\ t.arr <= t.dep
                    /\ \E x \in Instances(t.route, t.stop) :
                         /\ x.trip = t.trip
                         /\ ~Deviates(t.arr - offset, x.arr) /\ ~Deviates(t.dep - offset, x.dep)
                         /\ ~t.realtime => t.arr - offset = x.arr /\ t.dep - offset = x.dep
  BY DEF TimesPlausible
<1> DEFINE f == request.feed
           o == OffsetOf(t)
<1>1. "trips" \in DOMAIN UpcomingTrips
  BY DEF AnswerOK
<1>2. f # None
  <2> SUFFICES ASSUME f = None PROVE FALSE
    OBVIOUS
  <2>1. PICK i \in DOMAIN request.pairs : request.pairs[i].stop.feed = f
    BY DEF AskedGtfs
  <2>2. PairError(request.pairs[i]) = None
    BY <1>1, AllFeedsAnswer
  <2> QED
    BY <2>1, <2>2, NotRefused
<1>3. PICK u \in UpcomingTrips.trips : t = Shifted(u)
  <2>1. t \in Candidates
    BY ListedAreCandidates
  <2> QED
    BY <1>1, <2>1, CandidatesAre
<1>4. u \in GtfsTrips(feeds[f], request.pairs) /\ EndpointsOK(feeds[f].endpoints)
  <2>1. f \in Asked /\ AskedPairs(f) = request.pairs
        /\ UpcomingTrips.trips = ProviderTrips(feeds[f], request.pairs)
    BY <1>1, <1>2, OneFeedAnswer
  <2>2. feeds[f].kind = "gtfs"
    BY DEF AskedGtfs
  <2>3. ProviderOK(feeds[f], StopsOf(request.pairs))
    BY <2>1 DEF TypeOK, ProvidersOK
  <2>4. ProviderTrips(feeds[f], request.pairs) = GtfsTrips(feeds[f], request.pairs)
    BY <2>2, Zenon DEF ProviderTrips
  <2> QED
    BY <1>3, <2>1, <2>2, <2>3, <2>4 DEF ProviderOK
<1>5. PICK row \in Instances(u.route, u.stop) :
           /\ row.trip = u.trip /\ row.arr \in Int /\ row.dep \in Int
           /\ u.arr \in Int /\ u.dep \in Int /\ u.arr <= u.dep
           /\ ~Deviates(u.arr, row.arr) /\ ~Deviates(u.dep, row.dep)
           /\ ~u.realtime => u.arr = row.arr /\ u.dep = row.dep
  <2>1. Len(request.pairs) \in Nat /\ DOMAIN request.pairs = 1..Len(request.pairs)
    BY DEF TypeOK, RequestOK, IsSequence
  <2> HIDE DEF f
  <2> QED
    BY <1>4, <2>1, ScheduledTrip DEF TypeOK
<1>6. /\ t.trip = u.trip /\ t.route = u.route /\ t.stop = u.stop /\ t.realtime = u.realtime
      /\ t.arr = u.arr + o /\ t.dep = u.dep + o
  <2>1. TimedTrip(u)
    BY <1>1, <1>3, UpcomingTripsAre DEF TripsOK
  <2> QED
    BY <1>3, <2>1, ShiftedIs DEF TypeOK
<1>7. o \in Int
  BY OffsetInt DEF TypeOK
<1> HIDE DEF o
<1>8. t.arr - o = u.arr /\ t.dep - o = u.dep /\ t.arr <= t.dep
  BY <1>5, <1>6, <1>7
<1> QED
  BY <1>5, <1>6, <1>8 DEF o

(***************************************************************************)
(* A GTFS board shows times that can be: of a scheduled call of the trip   *)
(* at the stop, departing no earlier than arriving, within 90 minutes of   *)
(* the schedule, on schedule unless marked as real-time.                   *)
(***************************************************************************)
THEOREM TimesArePlausible == Spec => []TimesPlausible
<1>1. Inv => TimesPlausible
  BY BoardPlausible DEF Inv
<1> QED
  BY <1>1, Invariant, PTL

-----------------------------------------------------------------------------
(* Trips on a board. *)

(* A trip within a day is of the day before, of this or of the next. *)
LEMMA DayOfRow ==
  ASSUME TableOK, Served, Timely, now \in Int, NEW route, NEW stop,
         NEW x \in Instances(route, stop), now < x.arr, x.arr < now + Day
  PROVE  \E date \in ScheduleDates :
           /\ x \in ScheduleForRouteAtStop(route, stop, now \div Day + date)
           /\ RowOK(x, route, stop, now \div Day + date)
<1> DEFINE today == now \div Day
<1>1. today \in Int /\ today * Day <= now /\ now < today * Day + Day
  <2>1. ASSUME NEW q \in Int, q = now \div Day PROVE q * Day <= now /\ now < q * Day + Day
    BY <2>1, DayAssumption
  <2>2. today \in Int
    BY DayAssumption
  <2> QED
    BY <2>1, <2>2
<1>2. PICK day \in (today - 4)..(today + 4) : x \in ScheduleForRouteAtStop(route, stop, day)
  BY DEF Instances
<1> HIDE DEF today
<1>3. day \in Int
  BY <1>1, <1>2
<1>4. RowOK(x, route, stop, day)
  BY <1>2, <1>3, ScheduleRows
<1> DEFINE o == day - today
<1>5. o \in Int /\ day = today + o /\ day * Day = today * Day + o * Day
  BY <1>1, <1>3, DayAssumption
<1>6. x.arr \in Int /\ day * Day <= x.arr /\ x.arr <= day * Day + 2 * Day
  <2>1. day * Day \in Int
    BY <1>3, DayAssumption
  <2> QED
    BY <1>4, <2>1, DayAssumption DEF RowOK
<1> HIDE DEF o
<1>7. o < 2
  <2> SUFFICES ASSUME o >= 2 PROVE FALSE
    BY <1>5
  <2>1. o * Day >= 2 * Day
    BY <1>5, DayAssumption
  <2>2. today * Day \in Int /\ o * Day \in Int
    BY <1>1, <1>5, DayAssumption
  <2> QED
    BY <1>1, <1>5, <1>6, <2>1, <2>2, DayAssumption
<1>8. o > -2
  <2> SUFFICES ASSUME o <= -2 PROVE FALSE
    BY <1>5
  <2>1. o * Day <= (-2) * Day
    BY <1>5, DayAssumption
  <2>2. today * Day \in Int /\ o * Day \in Int
    BY <1>1, <1>5, DayAssumption
  <2> QED
    BY <1>1, <1>5, <1>6, <2>1, <2>2, DayAssumption
<1>9. o \in ScheduleDates
  BY <1>5, <1>7, <1>8 DEF ScheduleDates
<1> QED
  BY <1>2, <1>4, <1>5, <1>9 DEF today

(* Of the rows with the key of a shown one the first is listed. *)
LEMMA FirstOfKey ==
  ASSUME NEW n \in Nat, NEW shown,
         \A x \in shown : x.date \in ScheduleDates /\ x.pair \in 1..n,
         NEW x \in shown
  PROVE  \E z \in shown : SameKey(x, z) /\ ~\E w \in shown : SameKey(z, w) /\ Before(w, z)
<1> DEFINE its == {z \in shown : SameKey(x, z)}
           dates == {d \in Nat : \E z \in its : z.date = d - 1}
<1>1. x \in its
  BY DEF SameKey
<1>2. \A z \in its : z.date \in Int /\ z.date + 1 \in dates
  BY DEF ScheduleDates
<1>3. PICK d \in dates : \A e \in dates : d <= e
  <2>1. dates \in SUBSET Nat /\ dates # {}
    BY <1>1, <1>2
  <2> HIDE DEF dates
  <2> QED
    BY <2>1, LeastNatural
<1> DEFINE first == {z \in its : z.date = d - 1}
           places == {z.pair : z \in first}
<1>4. first # {}
  BY <1>3
<1>5. PICK p \in places : \A q \in places : p <= q
  <2>1. places \in SUBSET Nat /\ places # {}
    BY <1>4
  <2> HIDE DEF places
  <2> QED
    BY <2>1, LeastNatural
<1>6. PICK z \in first : z.pair = p
  BY <1>5
<1>7. ASSUME NEW w \in shown, SameKey(z, w), Before(w, z) PROVE FALSE
  <2>1. w \in its
    BY <1>6, <1>7 DEF SameKey
  <2>2. w.date \in Int /\ z.date \in Int /\ d \in Int /\ z.date = d - 1 /\ d <= w.date + 1
    BY <1>2, <1>3, <1>6, <2>1
  <2>3. w.date = z.date /\ w.pair < z.pair
    BY <1>7, <2>2 DEF Before
  <2>4. w \in first
    BY <2>1, <2>2, <2>3
  <2>5. p <= w.pair /\ w.pair \in Int /\ p \in Int
    BY <1>5, <1>6, <2>4
  <2> QED
    BY <1>6, <2>3, <2>5
<1> QED
  BY <1>6, <1>7

(* A row of the pairs asked for, at its scheduled times and not hidden. *)
OnSchedule(f, x) ==
  LET pairs == AskedPairs(f)
      updates == TripUpdates(feeds[f].endpoints, {pairs[j].route : j \in DOMAIN pairs})
      r == Resolved(x, updates, feeds[f].fuzzy)
  IN  r.times.arr = x.arr /\ r.times.dep = x.dep /\ ~Hidden(r)

(* Such a row of the next day is one of the trips that the provider answers
   with, or one of the same trip and times is. *)
LEMMA SoonIsListed ==
  ASSUME TableOK, Served, Timely, now \in Int,
         NEW f, EndpointsOK(feeds[f].endpoints),
         NEW n \in Nat, DOMAIN AskedPairs(f) = 1..n,
         NEW x \in Soon(f), OnSchedule(f, x)
  PROVE  /\ x.arr \in Int /\ x.dep \in Int /\ x.arr <= x.dep /\ now < x.arr
         /\ \E t \in GtfsTrips(feeds[f], AskedPairs(f)) :
              /\ t.trip = x.trip /\ t.route = x.route /\ t.dir = x.dir
              /\ t.arr = x.arr /\ t.dep = x.dep
<1> DEFINE pairs == AskedPairs(f)
           updates == TripUpdates(feeds[f].endpoints, {pairs[j].route : j \in DOMAIN pairs})
           shown == ShownRows(feeds[f], pairs)
<1>1. /\ x \in UNION {Instances(pairs[i].route, pairs[i].stop) : i \in DOMAIN pairs}
      /\ now < x.arr /\ x.arr < now + Day /\ x.arr <= x.dep
  BY DEF Soon
<1>2. PICK i \in DOMAIN pairs : x \in Instances(pairs[i].route, pairs[i].stop)
  BY <1>1
<1> HIDE DEF pairs
<1>3. PICK date \in ScheduleDates :
           /\ x \in ScheduleForRouteAtStop(pairs[i].route, pairs[i].stop, now \div Day + date)
           /\ RowOK(x, pairs[i].route, pairs[i].stop, now \div Day + date)
  BY <1>1, <1>2, DayOfRow
<1> DEFINE r == Resolved(x, updates, feeds[f].fuzzy)
           e == [date |-> date, pair |-> i, r |-> r]
<1>4. x.arr \in Int /\ x.dep \in Int
  BY <1>3 DEF RowOK
<1>5. e \in RowsOf(feeds[f], pairs, date, i)
  BY <1>3 DEF RowsOf
<1>6. r.row = x /\ r.times.arr = x.arr /\ r.times.dep = x.dep /\ ~Hidden(r)
  BY DEF OnSchedule, Resolved, pairs
<1>7. e.r = r /\ e.r.times.dep >= now
  BY <1>1, <1>4, <1>6
<1> HIDE DEF r
<1>8. e \in shown
  <2>1. e.r.times.dep >= now /\ ~Hidden(e.r)
    BY <1>6, <1>7
  <2>2. e \in UNION {RowsOf(feeds[f], pairs, dd, j) : dd \in ScheduleDates, j \in DOMAIN pairs}
    BY <1>2, <1>3, <1>5
  <2> HIDE DEF e
  <2> QED
    BY <2>1, <2>2 DEF ShownRows
<1> HIDE DEF e
<1>9. DOMAIN pairs = 1..n
  BY DEF pairs
<1>10. \A y \in shown : ShownOK(feeds[f], pairs, y)
  BY <1>9, ShownRowsAre
<1>11. \A y \in shown : y.date \in ScheduleDates /\ y.pair \in 1..n
  BY <1>9, <1>10 DEF ShownOK
<1> HIDE DEF shown
<1>12. PICK z \in shown : SameKey(e, z) /\ ~\E w \in shown : SameKey(z, w) /\ Before(w, z)
  BY <1>8, <1>11, FirstOfKey
<1>13. /\ z.r.row.trip = x.trip /\ z.r.times.arr = x.arr /\ z.r.times.dep = x.dep
  BY <1>6, <1>7, <1>12 DEF SameKey
<1>14. z.r.row.route = x.route /\ z.r.row.dir = x.dir
  <2>1. RowOK(z.r.row, pairs[z.pair].route, pairs[z.pair].stop, now \div Day + z.date)
    BY <1>10 DEF ShownOK
  <2>2. z.r.row.trip \in RouteTrips(z.r.row.route, now \div Day + z.date)
        /\ x.trip \in RouteTrips(x.route, now \div Day + date)
        /\ z.r.row.dir = table.trips[z.r.row.trip].dir /\ x.dir = table.trips[x.trip].dir
    BY <1>3, <2>1 DEF RowOK
  <2>3. table.trips[z.r.row.trip].route = z.r.row.route /\ table.trips[x.trip].route = x.route
    BY <2>2 DEF RouteTrips
  <2> QED
    BY <1>13, <2>2, <2>3
<1> DEFINE t == [trip |-> z.r.row.trip, route |-> z.r.row.route, stop |-> z.r.row.stop,
                 dir |-> z.r.row.dir, arr |-> z.r.times.arr, dep |-> z.r.times.dep,
                 realtime |-> z.r.times.realtime]
<1>15. t \in GtfsTrips(feeds[f], pairs)
  BY <1>12 DEF GtfsTrips, shown
<1>16. /\ t.trip = x.trip /\ t.route = x.route /\ t.dir = x.dir
       /\ t.arr = x.arr /\ t.dep = x.dep
  BY <1>13, <1>14
<1> HIDE DEF t
<1> QED
  BY <1>1, <1>4, <1>15, <1>16 DEF pairs

(* A feed of the timetable that is asked. *)
LEMMA AskedFeed ==
  ASSUME TypeOK, "trips" \in DOMAIN UpcomingTrips, NEW f \in AskedGtfs
  PROVE  /\ EndpointsOK(feeds[f].endpoints)
         /\ \E n \in Nat : DOMAIN AskedPairs(f) = 1..n
         /\ ProviderTrips(feeds[f], AskedPairs(f)) = GtfsTrips(feeds[f], AskedPairs(f))
         /\ IF request.feed = None
            THEN Globally(f, GtfsTrips(feeds[f], AskedPairs(f))) \subseteq UpcomingTrips.trips
            ELSE /\ request.feed = f
                 /\ UpcomingTrips.trips = GtfsTrips(feeds[f], AskedPairs(f))
<1>1. feeds[f].kind = "gtfs" /\ (request.feed # None => request.feed = f)
  BY DEF AskedGtfs
<1>2. f \in Asked
  BY DEF AskedGtfs, Asked
<1>3. EndpointsOK(feeds[f].endpoints)
  BY <1>1, <1>2 DEF TypeOK, ProvidersOK, ProviderOK
<1>4. \E n \in Nat : DOMAIN AskedPairs(f) = 1..n
  <2>1. Len(request.pairs) \in Nat /\ DOMAIN request.pairs = 1..Len(request.pairs)
    BY DEF TypeOK, RequestOK, IsSequence
  <2> QED
    BY <2>1, PairsOfFeedAre DEF AskedPairs, PairsFor
<1>5. ProviderTrips(feeds[f], AskedPairs(f)) = GtfsTrips(feeds[f], AskedPairs(f))
  BY <1>1, Zenon DEF ProviderTrips
<1>6. CASE request.feed # None
  BY <1>1, <1>3, <1>4, <1>5, <1>6, OneFeedAnswer
<1>7. CASE request.feed = None
  <2>1. f \in {request.pairs[i].stop.feed : i \in DOMAIN request.pairs}
    BY <1>7 DEF AskedGtfs
  <2>2. UpcomingTrips.trips =
              UNION {Globally(g, ProviderTrips(feeds[g], AskedPairs(g))) :
                       g \in {request.pairs[i].stop.feed : i \in DOMAIN request.pairs}}
    BY <1>7, AllFeedsAnswer
  <2>3. Globally(f, ProviderTrips(feeds[f], AskedPairs(f))) \subseteq UpcomingTrips.trips
    BY <2>1, <2>2
  <2> QED
    BY <1>3, <1>4, <1>5, <1>7, <2>3
<1> QED
  BY <1>6, <1>7

(* A trip of a feed is among all feeds' under its global ids. *)
LEMMA GlobalTrip ==
  ASSUME NEW trips, NEW t \in trips, TimedTrip(t), NEW f
  PROVE  \E g \in Globally(f, trips) :
           /\ g.trip = ToGlobalId(f, t.trip) /\ g.route = ToGlobalId(f, t.route)
           /\ g.stop = ToGlobalId(f, t.stop) /\ g.dir = t.dir /\ g.arr = t.arr /\ g.dep = t.dep
<1> DEFINE g == [t EXCEPT !.trip = ToGlobalId(f, @), !.route = ToGlobalId(f, @),
                          !.stop = ToGlobalId(f, @)]
<1>1. g \in Globally(f, trips)
  BY DEF Globally
<1>2. g = [trip |-> ToGlobalId(f, t.trip), route |-> ToGlobalId(f, t.route),
           stop |-> ToGlobalId(f, t.stop), dir |-> t.dir, arr |-> t.arr, dep |-> t.dep,
           realtime |-> t.realtime]
  <2> DEFINE a == ToGlobalId(f, t.trip)
             b == ToGlobalId(f, t.route)
             c == ToGlobalId(f, t.stop)
             u == [t EXCEPT !.trip = a]
             v == [u EXCEPT !.route = b]
  <2>1. g = [v EXCEPT !.stop = c]
    BY Zenon
  <2> HIDE DEF a, b, c
  <2>2. u = [trip |-> a, route |-> t.route, stop |-> t.stop, dir |-> t.dir,
             arr |-> t.arr, dep |-> t.dep, realtime |-> t.realtime]
    BY DEF TimedTrip
  <2> HIDE DEF u
  <2>3. v = [trip |-> a, route |-> b, stop |-> t.stop, dir |-> t.dir,
             arr |-> t.arr, dep |-> t.dep, realtime |-> t.realtime]
    BY <2>2
  <2> HIDE DEF v
  <2>4. [v EXCEPT !.stop = c]
          = [trip |-> a, route |-> b, stop |-> c, dir |-> t.dir,
             arr |-> t.arr, dep |-> t.dep, realtime |-> t.realtime]
    BY <2>3
  <2> HIDE DEF g
  <2> QED
    BY <2>1, <2>4 DEF a, b, c
<1> HIDE DEF g
<1> QED
  BY <1>1, <1>2

(* What the board is sorted by. *)
Key(x) == IF request.sortByDeparture THEN x.dep ELSE x.arr

(* A trip of the next day that keeps its schedule is on the board. *)
LEMMA SoonIsOnBoard ==
  ASSUME TypeOK, AnswerOK, Answered, NEW f \in AskedGtfs, NEW x \in Soon(f), OnSchedule(f, x)
  PROVE  OnBoard(f, x, Key(x))
<1>0. "trips" \in DOMAIN UpcomingTrips /\ Board(answer.trips, Candidates)
  BY DEF AnswerOK
<1>1. /\ EndpointsOK(feeds[f].endpoints)
      /\ \E n \in Nat : DOMAIN AskedPairs(f) = 1..n
      /\ IF request.feed = None
         THEN Globally(f, GtfsTrips(feeds[f], AskedPairs(f))) \subseteq UpcomingTrips.trips
         ELSE /\ request.feed = f
              /\ UpcomingTrips.trips = GtfsTrips(feeds[f], AskedPairs(f))
  BY <1>0, AskedFeed
<1>2. PICK n \in Nat : DOMAIN AskedPairs(f) = 1..n
  BY <1>1
<1>3. /\ x.arr \in Int /\ x.dep \in Int /\ x.arr <= x.dep /\ now < x.arr
      /\ \E t \in GtfsTrips(feeds[f], AskedPairs(f)) :
           /\ t.trip = x.trip /\ t.route = x.route /\ t.dir = x.dir
           /\ t.arr = x.arr /\ t.dep = x.dep
  BY <1>1, <1>2, SoonIsListed DEF TypeOK
<1>4. PICK t \in GtfsTrips(feeds[f], AskedPairs(f)) :
        /\ t.trip = x.trip /\ t.route = x.route /\ t.dir = x.dir
        /\ t.arr = x.arr /\ t.dep = x.dep
  BY <1>3
<1>5. TimedTrip(t)
  BY <1>1, <1>2, GtfsTripsAre DEF TypeOK, TripsOK
<1>6. PICK u \in UpcomingTrips.trips :
        /\ u.trip = Named(f, x.trip) /\ u.route = Named(f, x.route) /\ u.dir = x.dir
        /\ u.arr = x.arr /\ u.dep = x.dep
        /\ request.feed = None => u.stop.feed = f
  <2>1. CASE request.feed = None
    <3>1. PICK g \in Globally(f, GtfsTrips(feeds[f], AskedPairs(f))) :
            /\ g.trip = ToGlobalId(f, t.trip) /\ g.route = ToGlobalId(f, t.route)
            /\ g.stop = ToGlobalId(f, t.stop) /\ g.dir = t.dir /\ g.arr = t.arr /\ g.dep = t.dep
      BY <1>4, <1>5, GlobalTrip
    <3>2. g.stop.feed = f
      BY <3>1 DEF ToGlobalId
    <3> QED
      BY <1>1, <1>4, <2>1, <3>1, <3>2 DEF Named
  <2>2. CASE request.feed # None
    BY <1>1, <1>4, <2>2 DEF Named
  <2> QED
    BY <2>1, <2>2
<1>7. OffsetOf(u) = 0
  <2> DEFINE its == {i \in DOMAIN request.pairs : /\ request.pairs[i].route = u.route
                                                  /\ request.pairs[i].stop = u.stop}
  <2>1. OffsetOf(u) = IF its = {} THEN 0 ELSE request.pairs[Min(its)].offset
    BY DEF OffsetOf
  <2>2. \A i \in its : request.pairs[i].offset = 0
    <3>1. Unshifted(f)
      BY DEF Soon
    <3>2. request.feed # None => request.feed = f
      BY <1>1
    <3> QED
      BY <1>6, <3>1, <3>2 DEF Unshifted
  <2>3. its \in SUBSET Nat
    <3>1. DOMAIN request.pairs = 1..Len(request.pairs) /\ Len(request.pairs) \in Nat
      BY DEF TypeOK, RequestOK, IsSequence
    <3> QED
      BY <3>1
  <2> HIDE DEF its
  <2> QED
    BY <2>1, <2>2, <2>3, MinIsLeast
<1> DEFINE s == Shifted(u)
<1>8. /\ s.trip = Named(f, x.trip) /\ s.route = Named(f, x.route) /\ s.dir = x.dir
      /\ s.arr = x.arr /\ s.dep = x.dep
  <2>1. TimedTrip(u)
    BY <1>0, UpcomingTripsAre DEF TripsOK
  <2> QED
    BY <1>3, <1>6, <1>7, <2>1, ShiftedIs DEF TypeOK
<1> HIDE DEF s
<1>9. SortKey(s) = Key(x) /\ Key(x) > now
  <2>1. SortKey(s) = Key(x)
    BY <1>8 DEF SortKey, Key
  <2>2. Key(x) \in {x.arr, x.dep}
    BY DEF Key
  <2>3. now \in Int
    BY DEF TypeOK
  <2>4. x.arr > now /\ x.dep > now
    BY <1>3, <2>3
  <2> QED
    BY <2>1, <2>2, <2>4
<1>10. s \in Candidates
  BY <1>0, <1>6, <1>9, CandidatesAre DEF s
<1>11. CASE \E k \in DOMAIN answer.trips : Stands(answer.trips, k, s)
  <2>1. PICK k \in DOMAIN answer.trips : Stands(answer.trips, k, s)
    BY <1>11
  <2>2. answer.trips[k] \in Listed
    BY DEF Listed
  <2> QED
    BY <1>8, <1>9, <2>1, <2>2 DEF Stands, OnBoard
<1>12. CASE Len(answer.trips) = request.limit /\ \A k \in DOMAIN answer.trips : SortKey(answer.trips[k]) <= SortKey(s)
  BY <1>9, <1>12 DEF OnBoard, Full, Listed
<1> QED
  BY <1>0, <1>10, <1>11, <1>12 DEF Board

(* An update that is about the row and its day is matched, or there is none. *)
LEMMA UpdateOfRow ==
  ASSUME NEW f, EndpointsOK(feeds[f].endpoints), NEW x
  PROVE  LET pairs == AskedPairs(f)
             updates == TripUpdates(feeds[f].endpoints, {pairs[j].route : j \in DOMAIN pairs})
             update == MatchTripUpdate(x, updates, feeds[f].fuzzy)
         IN  \/ update = None
             \/ update \in UpdatesOf(f) /\ About(update, x) /\ update.start \in {None, x.start}
<1> DEFINE pairs == AskedPairs(f)
           updates == TripUpdates(feeds[f].endpoints, {pairs[j].route : j \in DOMAIN pairs})
           update == MatchTripUpdate(x, updates, feeds[f].fuzzy)
<1>1. UpdatesOf(f) = {updates[i] : i \in DOMAIN updates}
  BY DEF UpdatesOf
<1>2. \E m \in Nat : DOMAIN updates = 1..m
  BY UpdatesAre
<1> HIDE DEF updates
<1>3. CASE update # None
  <2>1. PICK i \in DOMAIN updates :
          /\ update = updates[i]
          /\ updates[i].trip # None /\ updates[i].start \in {x.start, None}
          /\ updates[i].trip = x.trip \/ <<x.trip, updates[i].trip>> \in Contained
    BY <1>2, <1>3, MatchedUpdate
  <2> HIDE DEF update
  <2>2. update \in UpdatesOf(f)
    BY <1>1, <2>1
  <2>3. About(update, x) /\ update.start \in {None, x.start}
    BY <2>1 DEF About
  <2> QED
    BY <2>2, <2>3 DEF update, updates
<1> QED
  BY <1>3 DEF updates

(* Without a stop update a row keeps its schedule. *)
LEMMA NoStopUpdate ==
  ASSUME NEW row, NEW update, update # None => update.stops = <<>>
  PROVE  MatchStopTimeUpdate(row, update) = None
<1> DEFINE stops == IF update = None THEN <<>> ELSE update.stops
           direct == {i \in DOMAIN stops : stops[i].seq = row.seq \/ stops[i].stop = row.stop}
           earlier == {i \in DOMAIN stops : stops[i].seq # None /\ stops[i].seq < row.seq}
           latest == {i \in earlier : \A j \in earlier : stops[j].seq <= stops[i].seq}
           last == stops[Min(latest)]
           inferred == [seq |-> None, stop |-> None, rel |-> None,
                        arrival |-> OnlyDelay(last.arrival), departure |-> OnlyDelay(last.departure)]
<1>1. MatchStopTimeUpdate(row, update)
        = IF direct # {} THEN stops[Min(direct)] ELSE IF earlier = {} THEN None ELSE inferred
  BY DEF MatchStopTimeUpdate
<1>2. DOMAIN stops = {}
  OBVIOUS
<1>3. direct = {} /\ earlier = {}
  BY <1>2
<1> HIDE DEF stops, direct, earlier, inferred
<1> QED
  BY <1>1, <1>3

(* A trip without an update for its day keeps its schedule. *)
LEMMA BoardComplete ==
  ASSUME TypeOK, AnswerOK PROVE NoTripMissed
<1> SUFFICES ASSUME Answered, NEW f \in AskedGtfs, NEW x \in Soon(f),
                    ~\E u \in UpdatesOf(f) : About(u, x) /\ u.start \in {None, x.start}
             PROVE  OnBoard(f, x, Key(x))
  BY DEF NoTripMissed, Key
<1>1. EndpointsOK(feeds[f].endpoints)
  BY AskedFeed DEF AnswerOK
<1> DEFINE pairs == AskedPairs(f)
           updates == TripUpdates(feeds[f].endpoints, {pairs[j].route : j \in DOMAIN pairs})
           update == MatchTripUpdate(x, updates, feeds[f].fuzzy)
           s == MatchStopTimeUpdate(x, update)
           r == Resolved(x, updates, feeds[f].fuzzy)
<1>2. update = None
  <2> DEFINE found == \/ update = None
                      \/ update \in UpdatesOf(f) /\ About(update, x) /\ update.start \in {None, x.start}
  <2>1. found
    BY <1>1, UpdateOfRow
  <2> QED
    BY <2>1
<1>3. r = [row |-> x, update |-> update, stopUpdate |-> s, times |-> ResolveTripTimes(x, s)]
  BY DEF Resolved
<1> HIDE DEF update, updates
<1>4. s = None
  BY <1>2, NoStopUpdate
<1> HIDE DEF s, r
<1>5. r.update = None /\ r.times.arr = x.arr /\ r.times.dep = x.dep
  BY <1>2, <1>3, <1>4 DEF ResolveTripTimes
<1>6. OnSchedule(f, x)
  BY <1>5 DEF OnSchedule, Hidden, r, updates
<1> QED
  BY <1>6, SoonIsOnBoard

(* A trip that is canceled without a date is hidden near the present only. *)
LEMMA BoardKeepsLaterTrips ==
  ASSUME TypeOK, AnswerOK PROVE NotCanceledAhead
<1> SUFFICES ASSUME Answered, NEW f \in AskedGtfs, NEW x \in Soon(f),
                    \A u \in UpdatesOf(f) : About(u, x) => /\ u.start = None /\ u.rel = "CANCELED"
                                                          /\ u.stops = <<>>,
                    x.arr >= now + ActiveWindow
             PROVE  OnBoard(f, x, Key(x))
  BY DEF NotCanceledAhead, Key
<1>1. EndpointsOK(feeds[f].endpoints) /\ \E n \in Nat : DOMAIN AskedPairs(f) = 1..n
  BY AskedFeed DEF AnswerOK
<1> DEFINE pairs == AskedPairs(f)
           updates == TripUpdates(feeds[f].endpoints, {pairs[j].route : j \in DOMAIN pairs})
           update == MatchTripUpdate(x, updates, feeds[f].fuzzy)
           s == MatchStopTimeUpdate(x, update)
           r == Resolved(x, updates, feeds[f].fuzzy)
<1>2. update # None => update.start = None /\ update.stops = <<>>
  <2> DEFINE found == \/ update = None
                      \/ update \in UpdatesOf(f) /\ About(update, x) /\ update.start \in {None, x.start}
  <2>1. found
    BY <1>1, UpdateOfRow
  <2> QED
    BY <2>1
<1>3. r = [row |-> x, update |-> update, stopUpdate |-> s, times |-> ResolveTripTimes(x, s)]
  BY DEF Resolved
<1> HIDE DEF update, updates
<1>4. s = None
  BY <1>2, NoStopUpdate
<1> HIDE DEF s, r
<1>5. r.update = update /\ r.row = x /\ r.times.arr = x.arr /\ r.times.dep = x.dep
  BY <1>3, <1>4 DEF ResolveTripTimes
<1>6. x.arr \in Int /\ x.dep \in Int /\ x.arr <= x.dep /\ x.start \in Int
  <2>1. now < x.arr /\ x.arr < now + Day /\ x.arr <= x.dep
        /\ x \in UNION {Instances(pairs[i].route, pairs[i].stop) : i \in DOMAIN pairs}
    BY DEF Soon
  <2>2. PICK i \in DOMAIN pairs : x \in Instances(pairs[i].route, pairs[i].stop)
    BY <2>1
  <2> HIDE DEF pairs
  <2>3. PICK date \in ScheduleDates : RowOK(x, pairs[i].route, pairs[i].stop, now \div Day + date)
    BY <2>1, <2>2, DayOfRow DEF TypeOK
  <2> QED
    BY <2>1, <2>3 DEF RowOK
<1>7. ~FeasiblyActive(r.times)
  <2>1. now \in Int /\ ActiveWindow \in Nat
    BY WindowsAssumption DEF TypeOK
  <2> QED
    BY <1>5, <1>6, <2>1 DEF FeasiblyActive, Distance
<1>8. r.update # None => r.update.start # r.row.start
  BY <1>2, <1>5, <1>6, NoneAssumption
<1>9. OnSchedule(f, x)
  BY <1>5, <1>7, <1>8 DEF OnSchedule, Hidden, r, updates
<1> QED
  BY <1>9, SoonIsOnBoard

(***************************************************************************)
(* A trip that arrives within a day is on the board at its scheduled time  *)
(* unless an update for its day is about it; also one of the day before    *)
(* that runs on after midnight.                                            *)
(***************************************************************************)
THEOREM NoTripIsMissed == Spec => []NoTripMissed
<1>1. Inv => NoTripMissed
  BY BoardComplete DEF Inv
<1> QED
  BY <1>1, Invariant, PTL

(***************************************************************************)
(* A cancellation without a date does not hide the trips of the next day   *)
(* that are four hours away.                                               *)
(***************************************************************************)
THEOREM NoneIsCanceledAhead == Spec => []NotCanceledAhead
<1>1. Inv => NotCanceledAhead
  BY BoardKeepsLaterTrips DEF Inv
<1> QED
  BY <1>1, Invariant, PTL

-----------------------------------------------------------------------------
(* Predictions on a board. *)

(* OneBusAway: of the entries of one trip the newest is shown. *)

(* The entries that NewestPredictionShown is about. *)
Usable(seq, routes, time) ==
  {i \in DOMAIN seq : /\ seq[i].enabled /\ seq[i].route \in routes
                      /\ ResolveArrival(seq[i]).dep >= time}

(* After k entries one entry of each trip is shown, and none of the k is
   newer. *)
NewestOf(shown, seq, usable, k) ==
  /\ \A a, b \in shown : a.trip = b.trip => a = b
  /\ \A a \in shown : \E j \in usable : a = seq[j]
  /\ \A i \in usable : i <= k =>
       \E a \in shown : a.trip = seq[i].trip /\ LastUpdate(seq[i]) <= LastUpdate(a)

(* It stays so with each entry. *)
LEMMA NewestIsKept ==
  ASSUME NEW A, NEW seq \in Seq(A), \A i \in DOMAIN seq : ArrivalOK(seq[i]),
         NEW routes, NEW time \in Int, NEW k \in 1..Len(seq), NEW shown,
         NewestOf(shown, seq, Usable(seq, routes, time), k - 1)
  PROVE  NewestOf(NextShown(shown, seq[k], routes, time), seq, Usable(seq, routes, time), k)
<1> DEFINE usable == Usable(seq, routes, time)
           ad == seq[k]
           next == NextShown(shown, ad, routes, time)
<1>1. \A i \in usable : i \in DOMAIN seq /\ i \in Int /\ LastUpdate(seq[i]) \in Int
  BY DEF Usable, LastUpdate, ArrivalOK, Optional
<1>2. k \in DOMAIN seq /\ k \in Int /\ LastUpdate(ad) \in Int /\ ResolveArrival(ad).dep \in Int
  <2>1. k \in DOMAIN seq
    OBVIOUS
  <2> QED
    BY <2>1, ResolvedArrival DEF LastUpdate, ArrivalOK, Optional
<1>3. k \in usable <=> ad.enabled /\ ad.route \in routes /\ ~(ResolveArrival(ad).dep < time)
  BY <1>2 DEF Usable
<1>4. /\ \A a, b \in shown : a.trip = b.trip => a = b
      /\ \A a \in shown : \E j \in usable : a = seq[j]
      /\ \A i \in usable : i <= k - 1 =>
           \E a \in shown : a.trip = seq[i].trip /\ LastUpdate(seq[i]) <= LastUpdate(a)
  BY DEF NewestOf
<1> HIDE DEF usable, ad, next
<1>5. CASE k \notin usable
  <2>1. next = shown
    BY <1>3, <1>5 DEF next, NextShown
  <2>2. \A i \in usable : i <= k => i <= k - 1
    BY <1>1, <1>2, <1>5
  <2> QED
    BY <1>4, <2>1, <2>2 DEF NewestOf, next, ad, usable
<1>6. CASE k \in usable /\ \E old \in shown : old.trip = ad.trip /\ LastUpdate(old) >= LastUpdate(ad)
  <2>1. next = shown
    BY <1>6 DEF next, NextShown
  <2>2. PICK old \in shown : old.trip = ad.trip /\ LastUpdate(old) >= LastUpdate(ad)
    BY <1>6
  <2>3. LastUpdate(old) \in Int
    BY <1>1, <1>4
  <2>4. \A i \in usable : i <= k => i <= k - 1 \/ seq[i] = ad
    BY <1>1, <1>2 DEF ad
  <2>5. LastUpdate(ad) <= LastUpdate(old)
    BY <1>2, <2>2, <2>3
  <2>6. \A i \in usable : i <= k =>
          \E a \in next : a.trip = seq[i].trip /\ LastUpdate(seq[i]) <= LastUpdate(a)
    BY <1>4, <2>1, <2>2, <2>4, <2>5
  <2> QED
    BY <1>4, <2>1, <2>6 DEF NewestOf, next, ad, usable
<1>7. CASE k \in usable /\ ~\E old \in shown : old.trip = ad.trip /\ LastUpdate(old) >= LastUpdate(ad)
  <2>1. next = {old \in shown : old.trip # ad.trip} \cup {ad}
    BY <1>3, <1>7 DEF next, NextShown
  <2>2. \A a, b \in next : a.trip = b.trip => a = b
    BY <1>4, <2>1
  <2>3. \A a \in next : \E j \in usable : a = seq[j]
    BY <1>4, <1>7, <2>1 DEF ad
  <2>4. ASSUME NEW i \in usable, i <= k
        PROVE  \E a \in next : a.trip = seq[i].trip /\ LastUpdate(seq[i]) <= LastUpdate(a)
    <3>1. ad \in next
      BY <2>1
    <3>2. CASE i = k
      BY <1>2, <3>1, <3>2 DEF ad
    <3>3. CASE i # k
      <4>1. i <= k - 1
        BY <1>1, <1>2, <2>4, <3>3
      <4>2. PICK a \in shown : a.trip = seq[i].trip /\ LastUpdate(seq[i]) <= LastUpdate(a)
        BY <1>4, <4>1
      <4>3. LastUpdate(a) \in Int /\ LastUpdate(seq[i]) \in Int
        BY <1>1, <1>4
      <4>4. CASE a.trip = ad.trip
        <5>1. LastUpdate(a) < LastUpdate(ad)
          BY <1>2, <1>7, <4>3, <4>4
        <5>2. LastUpdate(seq[i]) <= LastUpdate(ad)
          BY <1>2, <4>2, <4>3, <5>1
        <5> QED
          BY <3>1, <4>2, <4>4, <5>2
      <4>5. CASE a.trip # ad.trip
        BY <2>1, <4>2, <4>5
      <4> QED
        BY <4>4, <4>5
    <3> QED
      BY <3>2, <3>3
  <2> QED
    BY <2>2, <2>3, <2>4 DEF NewestOf, next, ad, usable
<1> QED
  BY <1>5, <1>6, <1>7

(* So it is when all entries are taken. *)
LEMMA NewestIsShown ==
  ASSUME NEW A, NEW seq \in Seq(A), \A i \in DOMAIN seq : ArrivalOK(seq[i]),
         NEW routes, NEW time \in Int
  PROVE  NewestOf(ShownArrivals(seq, routes, time), seq, Usable(seq, routes, time), Len(seq))
<1>0. PICK walk : ShowsArrivals(walk, seq, routes, time)
  BY ShownArrivalsIs
<1>1. /\ walk[0] = {} /\ walk[Len(seq)] = ShownArrivals(seq, routes, time)
      /\ \A k \in 1..Len(seq) : walk[k] = NextShown(walk[k - 1], seq[k], routes, time)
  BY <1>0 DEF ShowsArrivals
<1>2. Len(seq) \in Nat /\ DOMAIN seq = 1..Len(seq)
  OBVIOUS
<1> DEFINE usable == Usable(seq, routes, time)
           C == {k \in 0..Len(seq) : ~NewestOf(walk[k], seq, usable, k)}
<1>3. CASE C = {}
  <2>1. Len(seq) \in 0..Len(seq) /\ Len(seq) \notin C
    BY <1>2, <1>3
  <2> QED
    BY <1>1, <2>1
<1>4. CASE C # {}
  <2>1. C \in SUBSET Nat
    BY <1>2
  <2>2. PICK k \in C : \A j \in C : k <= j
    <3> HIDE DEF C
    <3> QED
      BY <1>4, <2>1, LeastNatural
  <2>3. k # 0
    <3>1. \A i \in usable : i \in 1..Len(seq)
      BY <1>2 DEF Usable
    <3>2. NewestOf(walk[0], seq, usable, 0)
      BY <1>1, <1>2, <3>1 DEF NewestOf
    <3> QED
      BY <2>2, <3>2
  <2>4. k \in 1..Len(seq) /\ k - 1 \in 0..Len(seq) /\ k - 1 \notin C
    BY <1>2, <2>2, <2>3
  <2>5. NewestOf(walk[k - 1], seq, usable, k - 1)
    BY <2>4
  <2>6. NewestOf(NextShown(walk[k - 1], seq[k], routes, time), seq, usable, k)
    BY <2>4, <2>5, NewestIsKept
  <2> QED
    BY <1>1, <2>2, <2>4, <2>6
<1> QED
  BY <1>3, <1>4

(* A OneBusAway board shows the newest prediction of each trip. *)
LEMMA BoardNewest ==
  ASSUME TypeOK, AnswerOK PROVE NewestPredictionShown
<1> DEFINE list(stop) == ArrivalsAndDepartures(feeds[request.feed].boards[stop])
           usable(stop) == {i \in IF list(stop) = None THEN {} ELSE DOMAIN list(stop) :
                              /\ list(stop)[i].enabled /\ list(stop)[i].route \in RoutesAt(request.pairs, stop)
                              /\ ResolveArrival(list(stop)[i]).dep >= now}
<1> SUFFICES ASSUME Answered, request.feed # None, feeds[request.feed].kind = "onebusaway",
                    NEW stop \in StopsOf(request.pairs), NEW i \in usable(stop)
             PROVE  \E t \in UpcomingTrips.trips : \E j \in usable(stop) :
                      /\ t.stop = stop /\ t.trip = list(stop)[i].trip /\ list(stop)[j].trip = t.trip
                      /\ t.dep = ResolveArrival(list(stop)[j]).dep
                      /\ \A k \in usable(stop) : list(stop)[k].trip = t.trip =>
                           LastUpdate(list(stop)[k]) <= LastUpdate(list(stop)[j])
  BY DEF NewestPredictionShown
<1> DEFINE board == feeds[request.feed].boards
           its == list(stop)
           routes == RoutesAt(request.pairs, stop)
           shown == ShownArrivals(its, routes, now)
           us == Usable(its, routes, now)
<1>1. /\ request.feed \in Asked
      /\ AskedPairs(request.feed) = request.pairs
      /\ ProviderTrips(feeds[request.feed], request.pairs) # Failed
      /\ UpcomingTrips.trips = ProviderTrips(feeds[request.feed], request.pairs)
  BY OneFeedAnswer DEF AnswerOK
<1>2. UpcomingTrips.trips = OneBusAwayTrips(board, request.pairs, now)
      /\ UpcomingTrips.trips # Failed
  <2>1. ProviderTrips(feeds[request.feed], request.pairs)
          = OneBusAwayTrips(board, request.pairs, now)
    BY Zenon DEF ProviderTrips
  <2> QED
    BY <1>1, <2>1
<1>3. its # Failed
  BY <1>2 DEF OneBusAwayTrips
<1>4. its # None /\ i \in us /\ usable(stop) = us
  <2>1. its # None
    OBVIOUS
  <2>2. usable(stop) = us
    BY <2>1 DEF Usable
  <2> QED
    BY <2>1, <2>2
<1>5. /\ IsSequence(its) /\ \A k \in DOMAIN its : ArrivalOK(its[k])
  <2>1. \A k \in 1..NullRetries : ReplyOK(board[stop][k])
    BY <1>1 DEF TypeOK, ProvidersOK, ProviderOK
  <2> HIDE DEF board
  <2> QED
    BY <1>3, <1>4, <2>1, ArrivalsAre DEF board
<1>6. \A ad \in shown : \E t \in UpcomingTrips.trips :
        t.trip = ad.trip /\ t.stop = stop /\ t.dep = ResolveArrival(ad).dep
  <2> SUFFICES ASSUME NEW ad \in shown
               PROVE  \E t \in UpcomingTrips.trips :
                        t.trip = ad.trip /\ t.stop = stop /\ t.dep = ResolveArrival(ad).dep
    OBVIOUS
  <2> DEFINE trip == [trip |-> ad.trip, route |-> ad.route, stop |-> stop, dir |-> ad.dir,
                      arr |-> ResolveArrival(ad).arr, dep |-> ResolveArrival(ad).dep,
                      realtime |-> ResolveArrival(ad).realtime]
  <2>1. trip \in UpcomingTrips.trips
    <3> DEFINE at(s) == ArrivalsAndDepartures(board[s])
               those(s) == IF at(s) = None THEN {} ELSE ShownArrivals(at(s), RoutesAt(request.pairs, s), now)
               of(s) == {[trip |-> e.trip, route |-> e.route, stop |-> s, dir |-> e.dir,
                          arr |-> ResolveArrival(e).arr, dep |-> ResolveArrival(e).dep,
                          realtime |-> ResolveArrival(e).realtime] : e \in those(s)}
    <3>1. OneBusAwayTrips(board, request.pairs, now) = UNION {of(s) : s \in StopsOf(request.pairs)}
      BY <1>2 DEF OneBusAwayTrips
    <3>2. ad \in those(stop)
      BY <1>4
    <3> HIDE DEF those
    <3>3. trip \in of(stop)
      BY <3>2
    <3> HIDE DEF of, trip
    <3> QED
      BY <1>2, <3>1, <3>3
  <2>2. trip.trip = ad.trip /\ trip.stop = stop /\ trip.dep = ResolveArrival(ad).dep
    OBVIOUS
  <2> HIDE DEF trip
  <2> QED
    BY <2>1, <2>2
<1> HIDE DEF list, usable, its
<1>7. NewestOf(shown, its, us, Len(its))
  <2>1. now \in Int
    BY DEF TypeOK
  <2>2. its \in Seq(ToSet(its))
    BY <1>5 DEF IsSequence
  <2> QED
    BY <1>5, <2>1, <2>2, NewestIsShown
<1>8. \A k \in us : k <= Len(its) /\ k \in DOMAIN its /\ LastUpdate(its[k]) \in Int
  <2>1. DOMAIN its = 1..Len(its) /\ Len(its) \in Nat
    BY <1>5 DEF IsSequence
  <2> QED
    BY <1>5, <2>1 DEF Usable, LastUpdate, ArrivalOK, Optional
<1> HIDE DEF us, shown
<1>9. /\ \A a, b \in shown : a.trip = b.trip => a = b
      /\ \A a \in shown : \E j \in us : a = its[j]
      /\ \A k \in us : \E a \in shown : a.trip = its[k].trip /\ LastUpdate(its[k]) <= LastUpdate(a)
  BY <1>7, <1>8 DEF NewestOf
<1>10. PICK a \in shown : a.trip = its[i].trip
  BY <1>4, <1>9
<1>11. PICK j \in us : a = its[j]
  BY <1>9
<1>12. PICK t \in UpcomingTrips.trips :
         t.trip = a.trip /\ t.stop = stop /\ t.dep = ResolveArrival(a).dep
  BY <1>6
<1>13. \A k \in us : its[k].trip = t.trip => LastUpdate(its[k]) <= LastUpdate(its[j])
  BY <1>9, <1>11, <1>12
<1> QED
  BY <1>4, <1>10, <1>11, <1>12, <1>13 DEF its

(***************************************************************************)
(* Of the entries of a trip that a OneBusAway server repeats the one that  *)
(* was updated last is shown, in whatever order they come.                 *)
(***************************************************************************)
THEOREM NewestPredictionIsShown == Spec => []NewestPredictionShown
<1>1. Inv => NewestPredictionShown
  BY BoardNewest DEF Inv
<1> QED
  BY <1>1, Invariant, PTL

-----------------------------------------------------------------------------
(* Entries of two boards. *)

(* HAFAS: what becomes of the trips when one entry is merged. *)
MergesOne(next, trips, group, e) ==
  /\ \A x \in next :
       \/ x \in trips /\ x.trip # e.trip
       \/ /\ x.trip = e.trip /\ \A y \in trips : y.trip # e.trip
          /\ x.dep = When(e) /\ x.arr = When(e)
       \/ /\ x.trip = e.trip
          /\ \E y \in trips :
               /\ y.trip = e.trip
               /\ group = "departures" => x.dep = When(e) /\ x.arr = y.arr
               /\ group # "departures" => x.arr = When(e) /\ x.dep = y.dep
  /\ \A y \in trips : \E x \in next : x.trip = y.trip
  /\ \E x \in next : x.trip = e.trip

(* MergeEntry does that. *)
LEMMA MergedTrips ==
  ASSUME NEW E, NEW stop, NEW trips \in SUBSET TripsFrom(E, stop), NEW group,
         NEW e \in E, When(e) \in Int
  PROVE  MergesOne(MergeEntry(trips, stop, group, e), trips, group, e)
<1> DEFINE old == {t \in trips : t.trip = e.trip}
           t == CHOOSE x \in old : TRUE
           live == t.realtime \/ e.delay # None
           new == [trip |-> e.trip, route |-> e.route, stop |-> stop, dir |-> e.dir,
                   arr |-> When(e), dep |-> When(e), realtime |-> e.delay # None]
           later == IF group = "departures" THEN [t EXCEPT !.dep = When(e), !.realtime = live]
                    ELSE [t EXCEPT !.arr = When(e), !.realtime = live]
           next == MergeEntry(trips, stop, group, e)
<1>1. next = IF old = {} THEN trips \cup {new} ELSE (trips \ old) \cup {later}
  BY DEF MergeEntry
<1>2. new.trip = e.trip /\ new.dep = When(e) /\ new.arr = When(e)
  OBVIOUS
<1>3. CASE old = {}
  <2>1. next = trips \cup {new} /\ \A y \in trips : y.trip # e.trip
    BY <1>1, <1>3
  <2> HIDE DEF new, next
  <2> QED
    BY <1>2, <2>1 DEF next, MergesOne
<1>4. CASE old # {}
  <2>1. t \in trips /\ t.trip = e.trip /\ t \in TripsFrom(E, stop)
    BY <1>4
  <2>2. /\ later.trip = e.trip
        /\ group = "departures" => later.dep = When(e) /\ later.arr = t.arr
        /\ group # "departures" => later.arr = When(e) /\ later.dep = t.dep
    <3> HIDE DEF t, live
    <3> QED
      BY <2>1 DEF TripsFrom
  <2>3. next = (trips \ old) \cup {later}
    BY <1>1, <1>4
  <2>4. \A y \in trips : y \notin old => y.trip # e.trip
    OBVIOUS
  <2>5. \A y \in old : y.trip = e.trip
    OBVIOUS
  <2> HIDE DEF old, t, later, next
  <2> QED
    BY <2>1, <2>2, <2>3, <2>4, <2>5 DEF next, MergesOne
<1> QED
  BY <1>3, <1>4

(* The times that a board has for a trip. *)
Times(entries, trip) == {When(e) : e \in {x \in ToSet(entries) : x.trip = trip}}

(* After k departures each trip has times of the board of departures. *)
Departed(trips, d, k) ==
  /\ \A t \in trips : t.dep \in Times(d, t.trip) /\ t.arr \in Times(d, t.trip)
  /\ \A i \in 1..k : \E t \in trips : t.trip = d[i].trip

(* After k arrivals the arrival time is the one of an arrival, if there was one. *)
Joined(trips, d, a, k) ==
  /\ \A t \in trips :
       /\ t.dep \in IF Times(d, t.trip) = {} THEN Times(a, t.trip) ELSE Times(d, t.trip)
       /\ t.arr \in IF \E i \in 1..k : a[i].trip = t.trip THEN Times(a, t.trip) ELSE Times(d, t.trip)
  /\ \A i \in DOMAIN d : \E t \in trips : t.trip = d[i].trip

(* It stays so with each departure. *)
LEMMA DepartedNext ==
  ASSUME NEW E, NEW stop, NEW trips \in SUBSET TripsFrom(E, stop),
         NEW d \in Seq(E), \A e \in E : When(e) \in Int,
         NEW k \in 1..Len(d), Departed(trips, d, k - 1)
  PROVE  Departed(MergeEntry(trips, stop, "departures", d[k]), d, k)
<1> DEFINE e == d[k]
           next == MergeEntry(trips, stop, "departures", e)
<1>1. e \in E /\ e \in ToSet(d) /\ When(e) \in Times(d, e.trip)
  BY DEF ToSet, Times
<1>2. /\ \A x \in next :
           \/ x \in trips /\ x.trip # e.trip
           \/ /\ x.trip = e.trip /\ \A y \in trips : y.trip # e.trip
              /\ x.dep = When(e) /\ x.arr = When(e)
           \/ /\ x.trip = e.trip
              /\ \E y \in trips : y.trip = e.trip /\ x.dep = When(e) /\ x.arr = y.arr
      /\ \A y \in trips : \E x \in next : x.trip = y.trip
      /\ \E x \in next : x.trip = e.trip
  <2>1. MergesOne(next, trips, "departures", e)
    <3> HIDE DEF e
    <3> QED
      BY <1>1, MergedTrips
  <2> HIDE DEF e, next
  <2> QED
    BY <2>1 DEF MergesOne
<1>3. \A i \in 1..k : i \in 1..(k - 1) \/ d[i] = e
  OBVIOUS
<1> HIDE DEF e, next
<1>4. \A x \in next : x.dep \in Times(d, x.trip) /\ x.arr \in Times(d, x.trip)
  BY <1>1, <1>2 DEF Departed
<1>5. \A i \in 1..k : \E x \in next : x.trip = d[i].trip
  BY <1>2, <1>3 DEF Departed
<1> QED
  BY <1>4, <1>5 DEF Departed, next, e

(* It stays so with each arrival. *)
LEMMA JoinedNext ==
  ASSUME NEW E, NEW stop, NEW trips \in SUBSET TripsFrom(E, stop),
         NEW d \in Seq(E), NEW a \in Seq(E), \A e \in E : When(e) \in Int,
         NEW k \in 1..Len(a), Joined(trips, d, a, k - 1)
  PROVE  Joined(MergeEntry(trips, stop, "arrivals", a[k]), d, a, k)
<1> DEFINE e == a[k]
           next == MergeEntry(trips, stop, "arrivals", e)
           Sofar(trip, l) == \E i \in 1..l : a[i].trip = trip
<1>1. e \in E /\ e \in ToSet(a) /\ When(e) \in Times(a, e.trip)
  BY DEF ToSet, Times
<1>2. /\ \A x \in next :
           \/ x \in trips /\ x.trip # e.trip
           \/ /\ x.trip = e.trip /\ \A y \in trips : y.trip # e.trip
              /\ x.dep = When(e) /\ x.arr = When(e)
           \/ /\ x.trip = e.trip
              /\ \E y \in trips : y.trip = e.trip /\ x.arr = When(e) /\ x.dep = y.dep
      /\ \A y \in trips : \E x \in next : x.trip = y.trip
  <2>1. MergesOne(next, trips, "arrivals", e)
    <3> HIDE DEF e
    <3> QED
      BY <1>1, MergedTrips
  <2> HIDE DEF e, next
  <2> QED
    BY <2>1 DEF MergesOne
<1>3. Sofar(e.trip, k) /\ \A trip : trip # e.trip => (Sofar(trip, k) <=> Sofar(trip, k - 1))
  <2>1. k \in 1..k /\ \A i \in 1..k : i \in 1..(k - 1) \/ i = k
    OBVIOUS
  <2>2. \A i \in 1..(k - 1) : i \in 1..k
    OBVIOUS
  <2> QED
    BY <2>1, <2>2
<1>4. /\ \A t \in trips :
           /\ t.dep \in IF Times(d, t.trip) = {} THEN Times(a, t.trip) ELSE Times(d, t.trip)
           /\ t.arr \in IF Sofar(t.trip, k - 1) THEN Times(a, t.trip) ELSE Times(d, t.trip)
      /\ \A i \in DOMAIN d : \E t \in trips : t.trip = d[i].trip
  BY DEF Joined
<1>5. ASSUME \A y \in trips : y.trip # e.trip PROVE Times(d, e.trip) = {}
  <2>1. \A i \in DOMAIN d : d[i].trip # e.trip
    BY <1>4, <1>5
  <2> HIDE DEF e
  <2> QED
    BY <2>1 DEF Times, ToSet
<1> HIDE DEF e, next, Sofar
<1>6. ASSUME NEW x \in next
      PROVE  /\ x.dep \in IF Times(d, x.trip) = {} THEN Times(a, x.trip) ELSE Times(d, x.trip)
             /\ x.arr \in IF Sofar(x.trip, k) THEN Times(a, x.trip) ELSE Times(d, x.trip)
  <2>1. CASE x \in trips /\ x.trip # e.trip
    BY <1>3, <1>4, <2>1
  <2>2. CASE x.trip = e.trip /\ (\A y \in trips : y.trip # e.trip) /\ x.dep = When(e) /\ x.arr = When(e)
    BY <1>1, <1>3, <1>5, <2>2
  <2>3. CASE x.trip = e.trip /\ \E y \in trips : y.trip = e.trip /\ x.arr = When(e) /\ x.dep = y.dep
    BY <1>1, <1>3, <1>4, <2>3
  <2> QED
    BY <1>2, <2>1, <2>2, <2>3
<1>7. \A i \in DOMAIN d : \E x \in next : x.trip = d[i].trip
  BY <1>2, <1>4
<1> QED
  BY <1>6, <1>7 DEF Joined, next, e, Sofar

(* After the departures. *)
LEMMA AllDeparted ==
  ASSUME NEW E, NEW stop, NEW d \in Seq(E), \A e \in E : When(e) \in Int
  PROVE  Departed(Merged({}, stop, "departures", d), d, Len(d))
<1>0. PICK walk : Merges(walk, {}, stop, "departures", d)
  BY MergedIs
<1>1. /\ walk[0] = {} /\ walk[Len(d)] = Merged({}, stop, "departures", d)
      /\ \A k \in 1..Len(d) : walk[k] = MergeEntry(walk[k - 1], stop, "departures", d[k])
  BY <1>0 DEF Merges
<1>2. Len(d) \in Nat /\ DOMAIN d = 1..Len(d)
  OBVIOUS
<1> DEFINE C == {k \in 0..Len(d) : ~(walk[k] \in SUBSET TripsFrom(E, stop) /\ Departed(walk[k], d, k))}
<1>3. CASE C = {}
  <2>1. Len(d) \in 0..Len(d) /\ Len(d) \notin C
    BY <1>2, <1>3
  <2> QED
    BY <1>1, <2>1
<1>4. CASE C # {}
  <2>1. C \in SUBSET Nat
    BY <1>2
  <2>2. PICK k \in C : \A j \in C : k <= j
    <3> HIDE DEF C
    <3> QED
      BY <1>4, <2>1, LeastNatural
  <2>3. k # 0
    <3>1. walk[0] \in SUBSET TripsFrom(E, stop) /\ Departed(walk[0], d, 0)
      BY <1>1 DEF Departed
    <3> QED
      BY <2>2, <3>1
  <2>4. k \in 1..Len(d) /\ k - 1 \in 0..Len(d) /\ k - 1 \notin C /\ d[k] \in E
    BY <1>2, <2>2, <2>3
  <2>5. walk[k - 1] \in SUBSET TripsFrom(E, stop) /\ Departed(walk[k - 1], d, k - 1)
    BY <2>4
  <2>6. walk[k] = MergeEntry(walk[k - 1], stop, "departures", d[k])
    BY <1>1, <2>4
  <2>7. walk[k] \in SUBSET TripsFrom(E, stop)
    BY <2>4, <2>5, <2>6, MergedEntry
  <2>8. Departed(walk[k], d, k)
    BY <2>4, <2>5, <2>6, DepartedNext
  <2> QED
    BY <2>2, <2>7, <2>8
<1> QED
  BY <1>3, <1>4

(* After the arrivals. *)
LEMMA AllJoined ==
  ASSUME NEW E, NEW stop, NEW d \in Seq(E), NEW a \in Seq(E), \A e \in E : When(e) \in Int,
         NEW base \in SUBSET TripsFrom(E, stop), Departed(base, d, Len(d))
  PROVE  Joined(Merged(base, stop, "arrivals", a), d, a, Len(a))
<1>0. PICK walk : Merges(walk, base, stop, "arrivals", a)
  BY MergedIs
<1>1. /\ walk[0] = base /\ walk[Len(a)] = Merged(base, stop, "arrivals", a)
      /\ \A k \in 1..Len(a) : walk[k] = MergeEntry(walk[k - 1], stop, "arrivals", a[k])
  BY <1>0 DEF Merges
<1>2. Len(a) \in Nat /\ DOMAIN a = 1..Len(a) /\ DOMAIN d = 1..Len(d)
  OBVIOUS
<1> DEFINE C == {k \in 0..Len(a) : ~(walk[k] \in SUBSET TripsFrom(E, stop) /\ Joined(walk[k], d, a, k))}
<1>3. CASE C = {}
  <2>1. Len(a) \in 0..Len(a) /\ Len(a) \notin C
    BY <1>2, <1>3
  <2> QED
    BY <1>1, <2>1
<1>4. CASE C # {}
  <2>1. C \in SUBSET Nat
    BY <1>2
  <2>2. PICK k \in C : \A j \in C : k <= j
    <3> HIDE DEF C
    <3> QED
      BY <1>4, <2>1, LeastNatural
  <2>3. k # 0
    <3>1. Joined(base, d, a, 0)
      <4>1. \A t \in base : t.dep \in Times(d, t.trip) /\ t.arr \in Times(d, t.trip)
        BY DEF Departed
      <4>2. \A i \in DOMAIN d : \E t \in base : t.trip = d[i].trip
        BY <1>2 DEF Departed
      <4>3. ~\E i \in 1..0 : TRUE
        OBVIOUS
      <4> QED
        BY <4>1, <4>2, <4>3 DEF Joined
    <3> QED
      BY <1>1, <2>2, <3>1
  <2>4. k \in 1..Len(a) /\ k - 1 \in 0..Len(a) /\ k - 1 \notin C /\ a[k] \in E
    BY <1>2, <2>2, <2>3
  <2>5. walk[k - 1] \in SUBSET TripsFrom(E, stop) /\ Joined(walk[k - 1], d, a, k - 1)
    BY <2>4
  <2>6. walk[k] = MergeEntry(walk[k - 1], stop, "arrivals", a[k])
    BY <1>1, <2>4
  <2>7. walk[k] \in SUBSET TripsFrom(E, stop)
    BY <2>4, <2>5, <2>6, MergedEntry
  <2>8. Joined(walk[k], d, a, k)
    BY <2>4, <2>5, <2>6, JoinedNext
  <2> QED
    BY <2>2, <2>7, <2>8
<1> QED
  BY <1>3, <1>4

(* The trips of a stop are those of both boards. *)
LEMMA TripsForStopJoined ==
  ASSUME NEW board, EntriesOK(board.departures), EntriesOK(board.arrivals), NEW stop
  PROVE  /\ \A t \in TripsForStop(board, stop) : t.stop = stop
         /\ LET d == Shown(board.departures)
                a == Shown(board.arrivals)
            IN  Joined(TripsForStop(board, stop), d, a, Len(a))
<1> DEFINE d == Shown(board.departures)
           a == Shown(board.arrivals)
           E == ToSet(d) \cup ToSet(a)
           leaving == Merged({}, stop, "departures", d)
           all == Merged(leaving, stop, "arrivals", a)
<1>1. TripsForStop(board, stop) = all
  BY DEF TripsForStop, Merged
<1>2. d \in Seq(ToSet(d)) /\ a \in Seq(ToSet(a)) /\ \A e \in E : When(e) \in Int
  BY ShownEntries
<1> HIDE DEF d, a
<1>3. d \in Seq(E) /\ a \in Seq(E)
  BY <1>2
<1> HIDE DEF E
<1>4. leaving \in SUBSET TripsFrom(E, stop) /\ Departed(leaving, d, Len(d))
  BY <1>2, <1>3, MergedIs, AllDeparted
<1> HIDE DEF leaving
<1>5. all \in SUBSET TripsFrom(E, stop) /\ Joined(all, d, a, Len(a))
  BY <1>2, <1>3, <1>4, MergedIs, AllJoined
<1>6. \A t \in TripsFrom(E, stop) : t.stop = stop
  BY DEF TripsFrom
<1> HIDE DEF all
<1> QED
  BY <1>1, <1>5, <1>6 DEF d, a

(* A HAFAS trip has the times of the boards that list it. *)
LEMMA BoardBothTimes ==
  ASSUME TypeOK, AnswerOK PROVE BoardsMerged
<1> SUFFICES ASSUME Answered, request.feed # None, feeds[request.feed].kind = "hafas",
                    NEW stop \in StopsOf(request.pairs),
                    NEW t \in UpcomingTrips.trips, t.stop = stop
             PROVE  LET board == feeds[request.feed].boards[stop]
                        leaves == Times(Shown(board.departures), t.trip)
                        comes == Times(Shown(board.arrivals), t.trip)
                    IN  /\ t.dep \in IF leaves = {} THEN comes ELSE leaves
                        /\ t.arr \in IF comes = {} THEN leaves ELSE comes
  BY DEF BoardsMerged, Times
<1> DEFINE boards == feeds[request.feed].boards
           board == boards[stop]
           d == Shown(board.departures)
           a == Shown(board.arrivals)
<1>1. /\ request.feed \in Asked
      /\ AskedPairs(request.feed) = request.pairs
      /\ ProviderTrips(feeds[request.feed], request.pairs) # Failed
      /\ UpcomingTrips.trips = ProviderTrips(feeds[request.feed], request.pairs)
  BY OneFeedAnswer DEF AnswerOK
<1>2. UpcomingTrips.trips = HafasTrips(boards, request.pairs, now) /\ UpcomingTrips.trips # Failed
  <2>1. ProviderTrips(feeds[request.feed], request.pairs) = HafasTrips(boards, request.pairs, now)
    BY Zenon DEF ProviderTrips
  <2> QED
    BY <1>1, <2>1
<1>3. \A s \in StopsOf(request.pairs) : EntriesOK(boards[s].departures) /\ EntriesOK(boards[s].arrivals)
  <2>1. \A s \in StopsOf(request.pairs) : boards[s] # Failed
    BY <1>2 DEF HafasTrips
  <2> QED
    BY <1>1, <2>1 DEF TypeOK, ProvidersOK, ProviderOK
<1>4. \E s \in StopsOf(request.pairs) : t \in TripsForStop(boards[s], s)
  BY <1>2 DEF HafasTrips
<1>5. PICK s \in StopsOf(request.pairs) : t \in TripsForStop(boards[s], s)
  BY <1>4
<1>6. s = stop
  BY <1>3, <1>5, TripsForStopJoined
<1> HIDE DEF boards
<1>7. t \in TripsForStop(board, stop) /\ Joined(TripsForStop(board, stop), d, a, Len(a))
  BY <1>3, <1>5, <1>6, TripsForStopJoined
<1> HIDE DEF board
<1>8. Times(a, t.trip) = {} <=> ~\E i \in 1..Len(a) : a[i].trip = t.trip
  <2>1. DOMAIN a = 1..Len(a)
    <3>1. EntriesOK(board.arrivals)
      BY <1>3 DEF board
    <3>2. a \in Seq(ToSet(a))
      BY <3>1, ShownEntries
    <3> HIDE DEF a
    <3> QED
      BY <3>2
  <2> HIDE DEF a
  <2> QED
    BY <2>1 DEF Times, ToSet
<1> HIDE DEF d, a
<1>9. /\ t.dep \in IF Times(d, t.trip) = {} THEN Times(a, t.trip) ELSE Times(d, t.trip)
      /\ t.arr \in IF Times(a, t.trip) = {} THEN Times(d, t.trip) ELSE Times(a, t.trip)
  BY <1>7, <1>8 DEF Joined
<1> QED
  BY <1>9 DEF d, a, board, boards

(***************************************************************************)
(* A HAFAS trip that is listed among departures and arrivals is one trip   *)
(* with both times, in whatever order the entries come.                    *)
(***************************************************************************)
THEOREM BoardsAreMerged == Spec => []BoardsMerged
<1>1. Inv => BoardsMerged
  BY BoardBothTimes DEF Inv
<1> QED
  BY <1>1, Invariant, PTL

-----------------------------------------------------------------------------
(* Where the elements of a flattened sequence come from. *)

(* at[l] tells which element of which sequence is the l-th. *)
PlacedBy(flat, at, n, seqs) ==
  /\ \A l \in 1..Len(flat) :
       /\ at[l][1] \in 1..n /\ at[l][2] \in 1..Len(seqs[at[l][1]])
       /\ flat[l] = seqs[at[l][1]][at[l][2]]
  /\ \A k \in 1..n : \A j \in 1..Len(seqs[k]) : \E l \in 1..Len(flat) : at[l] = <<k, j>>
  /\ \A l, m \in 1..Len(flat) : l < m =>
       at[l][1] < at[m][1] \/ (at[l][1] = at[m][1] /\ at[l][2] < at[m][2])

(* One more sequence is appended: its elements are placed after the others. *)
LEMMA ConcatPlaced ==
  ASSUME NEW A, NEW n \in Nat, NEW seqs, NEW flat \in Seq(A), NEW at, PlacedBy(flat, at, n, seqs),
         seqs[n + 1] \in Seq(A)
  PROVE  \E to : PlacedBy(flat \o seqs[n + 1], to, n + 1, seqs)
<1> DEFINE a == Len(flat)
           b == Len(seqs[n + 1])
           more == flat \o seqs[n + 1]
           to == [l \in 1..(a + b) |-> IF l <= a THEN at[l] ELSE <<n + 1, l - a>>]
<1>1. /\ a \in Nat /\ b \in Nat /\ Len(more) = a + b
      /\ \A l \in 1..a : more[l] = flat[l]
      /\ \A l \in (a + 1)..(a + b) : more[l] = seqs[n + 1][l - a]
  OBVIOUS
<1>2. /\ \A l \in 1..a : to[l] = at[l]
      /\ \A l \in (a + 1)..(a + b) : to[l] = <<n + 1, l - a>>
  BY <1>1
<1> HIDE DEF more, to
<1>3. ASSUME NEW l \in 1..Len(more)
      PROVE  /\ to[l][1] \in 1..(n + 1) /\ to[l][2] \in 1..Len(seqs[to[l][1]])
             /\ more[l] = seqs[to[l][1]][to[l][2]]
  <2>1. CASE l <= a
    <3>1. l \in 1..a
      BY <1>1, <2>1
    <3>2. to[l] = at[l] /\ more[l] = flat[l]
      BY <1>1, <1>2, <3>1
    <3>3. at[l][1] \in 1..n /\ at[l][2] \in 1..Len(seqs[at[l][1]]) /\ flat[l] = seqs[at[l][1]][at[l][2]]
      BY <3>1 DEF PlacedBy
    <3>4. at[l][1] \in 1..(n + 1)
      BY <3>3
    <3> QED
      BY <3>2, <3>3, <3>4
  <2>2. CASE ~(l <= a)
    <3>1. l \in (a + 1)..(a + b) /\ l - a \in 1..b /\ n + 1 \in 1..(n + 1)
      BY <1>1, <2>2
    <3>2. to[l][1] = n + 1 /\ to[l][2] = l - a /\ more[l] = seqs[n + 1][l - a]
      BY <1>1, <1>2, <3>1
    <3> QED
      BY <3>1, <3>2
  <2> QED
    BY <2>1, <2>2
<1>4. ASSUME NEW k \in 1..(n + 1), NEW j \in 1..Len(seqs[k])
      PROVE  \E l \in 1..Len(more) : to[l] = <<k, j>>
  <2>1. CASE k = n + 1
    <3>1. a + j \in (a + 1)..(a + b) /\ a + j \in 1..Len(more) /\ (a + j) - a = j
      BY <1>1, <2>1
    <3> QED
      BY <1>2, <2>1, <3>1
  <2>2. CASE k # n + 1
    <3>1. k \in 1..n
      BY <2>2
    <3>2. PICK l \in 1..a : at[l] = <<k, j>>
      BY <3>1 DEF PlacedBy
    <3>3. l \in 1..Len(more)
      BY <1>1
    <3> QED
      BY <1>2, <3>2, <3>3
  <2> QED
    BY <2>1, <2>2
<1>5. ASSUME NEW l \in 1..Len(more), NEW m \in 1..Len(more), l < m
      PROVE  to[l][1] < to[m][1] \/ (to[l][1] = to[m][1] /\ to[l][2] < to[m][2])
  <2>1. CASE m <= a
    <3>1. l \in 1..a /\ m \in 1..a
      BY <1>1, <1>5, <2>1
    <3>2. to[l] = at[l] /\ to[m] = at[m]
      BY <1>2, <3>1
    <3>3. at[l][1] < at[m][1] \/ (at[l][1] = at[m][1] /\ at[l][2] < at[m][2])
      BY <1>5, <3>1 DEF PlacedBy
    <3> QED
      BY <3>2, <3>3
  <2>2. CASE ~(m <= a) /\ l <= a
    <3>1. l \in 1..a /\ m \in (a + 1)..(a + b)
      BY <1>1, <2>2
    <3>2. to[l] = at[l] /\ to[m][1] = n + 1
      BY <1>2, <3>1
    <3>3. at[l][1] \in 1..n
      BY <3>1 DEF PlacedBy
    <3> QED
      BY <3>2, <3>3
  <2>3. CASE ~(m <= a) /\ ~(l <= a)
    <3>1. l \in (a + 1)..(a + b) /\ m \in (a + 1)..(a + b)
      BY <1>1, <2>3
    <3>2. /\ to[l][1] = n + 1 /\ to[l][2] = l - a /\ to[m][1] = n + 1 /\ to[m][2] = m - a
      BY <1>2, <3>1
    <3> QED
      BY <1>1, <1>5, <3>1, <3>2
  <2> QED
    BY <2>1, <2>2, <2>3
<1>6. PlacedBy(more, to, n + 1, seqs)
  BY <1>3, <1>4, <1>5, Zenon DEF PlacedBy
<1> QED
  BY <1>6 DEF more

(* Flattening keeps every element, and the order of them. *)
LEMMA FlattenedPlaces ==
  ASSUME NEW A, NEW n \in Nat, NEW seqs, seqs = [k \in 1..n |-> seqs[k]],
         \A k \in 1..n : seqs[k] \in Seq(A)
  PROVE  \E at : PlacedBy(FlattenSeq(seqs), at, n, seqs)
<1>1. PICK walk : Flattens(walk, n, seqs)
  BY FlattenedWalk
<1> DEFINE Holds(k) == walk[k] \in Seq(A) /\ \E at : PlacedBy(walk[k], at, k, seqs)
           C == {k \in 0..n : ~Holds(k)}
<1>2. SUFFICES C = {}
  <2>1. n \in 0..n
    OBVIOUS
  <2>2. n \notin C
    <3> HIDE DEF C
    <3> QED
      BY <1>2
  <2>3. Holds(n)
    BY <2>1, <2>2
  <2> QED
    BY <1>1, <2>3 DEF Flattens
<1>3. SUFFICES ASSUME C # {} PROVE FALSE
  OBVIOUS
<1>4. PICK k \in C : \A j \in C : k <= j
  <2>1. C \in SUBSET Nat
    OBVIOUS
  <2> HIDE DEF C
  <2> QED
    BY <1>3, <2>1, LeastNatural
<1>5. k \in 0..n /\ ~Holds(k)
  BY <1>4
<1>6. CASE k = 0
  <2>1. walk[0] = <<>> /\ <<>> \in Seq(A) /\ Len(<<>>) = 0
    BY <1>1 DEF Flattens
  <2>2. PlacedBy(walk[0], <<>>, 0, seqs)
    BY <2>1 DEF PlacedBy
  <2> QED
    BY <1>5, <1>6, <2>1, <2>2
<1>7. CASE k # 0
  <2>1. k \in 1..n /\ k - 1 \in 0..n /\ k - 1 \in Nat /\ k - 1 + 1 = k /\ ~(k <= k - 1)
    BY <1>5, <1>7
  <2>2. Holds(k - 1)
    <3>1. k - 1 \notin C
      <4> HIDE DEF C
      <4> QED
        BY <1>4, <2>1
    <3> QED
      BY <2>1, <3>1
  <2>3. PICK at : PlacedBy(walk[k - 1], at, k - 1, seqs)
    BY <2>2
  <2>4. walk[k] = walk[k - 1] \o seqs[k] /\ seqs[k] \in Seq(A)
    BY <1>1, <2>1 DEF Flattens
  <2>5. walk[k] \in Seq(A)
    BY <2>2, <2>4
  <2>6. \E to : PlacedBy(walk[k], to, k, seqs)
    <3>1. PICK m \in Nat : m = k - 1 /\ m + 1 = k
      BY <2>1
    <3>2. PICK flat \in Seq(A) : flat = walk[k - 1]
      BY <2>2
    <3>3. \E to : PlacedBy(flat \o seqs[m + 1], to, m + 1, seqs)
      BY <2>3, <2>4, <3>1, <3>2, ConcatPlaced
    <3> QED
      BY <2>4, <3>1, <3>2, <3>3
  <2> QED
    BY <1>5, <2>5, <2>6
<1> QED
  BY <1>6, <1>7

-----------------------------------------------------------------------------
(* Where an update of a feed comes from. *)

(* list consists of the elements of seq at the places S, the k-th is from c[k]. *)
Picks(list, seq, S, c) ==
  /\ Len(list) \in Nat /\ DOMAIN list = 1..Len(list)
  /\ \A k \in 1..Len(list) : c[k] \in S /\ list[k] = seq[c[k]]
  /\ \A k, l \in 1..Len(list) : k < l => c[k] < c[l]
  /\ \A i \in S : \E k \in 1..Len(list) : c[k] = i

(* A filtered sequence picks the elements of the filter, in their order. *)
LEMMA FilteredPicks ==
  ASSUME NEW seq, NEW n \in Nat, NEW S \in SUBSET (1..n)
  PROVE  \E c : Picks(Filtered(seq, S), seq, S, c)
<1> DEFINE list == Filtered(seq, S)
           m == Cardinality(S)
           c == [k \in 1..m |-> Source(S, k)]
<1>1. /\ m \in Nat /\ DOMAIN list = 1..m /\ Len(list) = m
      /\ \A k \in 1..m : Source(S, k) \in S /\ list[k] = seq[Source(S, k)]
      /\ \A k, l \in 1..m : k < l => Source(S, k) < Source(S, l)
      /\ \A i \in S : \E k \in 1..m : Source(S, k) = i
  BY FilteredIs
<1> HIDE DEF m, list
<1>2. \A k \in 1..m : c[k] = Source(S, k)
  OBVIOUS
<1> HIDE DEF c
<1>3. Picks(list, seq, S, c)
  BY <1>1, <1>2 DEF Picks
<1> QED
  BY <1>3 DEF list

(* An endpoint whose updates are used for a request of these routes. *)
Fetched(e, routes) ==
  (e.routeIds = {} \/ routes = {} \/ e.routeIds \cap routes # {}) /\ e.body # None

(* The endpoints that are asked and have answered, in their order. *)
LEMMA FulfilledPicks ==
  ASSUME NEW endpoints, EndpointsOK(endpoints), NEW routes
  PROVE  LET configs == FetchConfigs(endpoints, routes)
             fulfilled == Filtered(configs, {i \in DOMAIN configs : configs[i].body # None})
         IN  \E c : Picks(fulfilled, endpoints,
                          {i \in DOMAIN endpoints : Fetched(endpoints[i], routes)}, c)
<1> DEFINE configs == FetchConfigs(endpoints, routes)
           used == {i \in DOMAIN endpoints :
                      \/ endpoints[i].routeIds = {} \/ routes = {}
                      \/ endpoints[i].routeIds \cap routes # {}}
           ok == {i \in DOMAIN configs : configs[i].body # None}
           fulfilled == Filtered(configs, ok)
           S == {i \in DOMAIN endpoints : Fetched(endpoints[i], routes)}
<1>1. Len(endpoints) \in Nat /\ DOMAIN endpoints = 1..Len(endpoints)
  BY DEF EndpointsOK, IsSequence
<1>2. PICK a : Picks(configs, endpoints, used, a)
  <2>1. used \in SUBSET (1..Len(endpoints)) /\ configs = Filtered(endpoints, used)
    BY <1>1 DEF FetchConfigs
  <2> HIDE DEF used, configs
  <2> QED
    BY <1>1, <2>1, FilteredPicks
<1>3. \A i : i \in S <=> i \in used /\ endpoints[i].body # None
  BY DEF Fetched
<1>4. \A i : i \in used => i \in 1..Len(endpoints)
  BY <1>1
<1> HIDE DEF used, S, configs
<1>5. PICK b : Picks(fulfilled, configs, ok, b)
  <2>1. Len(configs) \in Nat /\ ok \in SUBSET (1..Len(configs))
    BY <1>2 DEF Picks
  <2> HIDE DEF ok
  <2> QED
    BY <2>1, FilteredPicks
<1> DEFINE n == Len(fulfilled)
           m == Len(configs)
           c == [k \in 1..n |-> a[b[k]]]
<1>6. /\ n \in Nat /\ DOMAIN fulfilled = 1..n
      /\ \A k \in 1..n : b[k] \in ok /\ fulfilled[k] = configs[b[k]]
      /\ \A k, l \in 1..n : k < l => b[k] < b[l]
      /\ \A i \in ok : \E k \in 1..n : b[k] = i
  BY <1>5 DEF Picks
<1>7. /\ m \in Nat /\ DOMAIN configs = 1..m
      /\ \A k \in 1..m : a[k] \in used /\ configs[k] = endpoints[a[k]]
      /\ \A k, l \in 1..m : k < l => a[k] < a[l]
      /\ \A i \in used : \E k \in 1..m : a[k] = i
  BY <1>2 DEF Picks
<1>8. \A i : i \in ok <=> i \in 1..m /\ configs[i].body # None
  BY <1>7
<1> HIDE DEF ok, fulfilled, n, m
<1>9. ASSUME NEW k \in 1..n
      PROVE  c[k] = a[b[k]] /\ b[k] \in 1..m /\ c[k] \in S /\ fulfilled[k] = endpoints[c[k]]
  <2>1. c[k] = a[b[k]]
    OBVIOUS
  <2>2. b[k] \in 1..m /\ configs[b[k]].body # None /\ fulfilled[k] = configs[b[k]]
    BY <1>6, <1>8
  <2>3. a[b[k]] \in used /\ configs[b[k]] = endpoints[a[b[k]]]
    BY <1>7, <2>2
  <2> HIDE DEF c
  <2> QED
    BY <1>3, <2>1, <2>2, <2>3
<1> HIDE DEF c
<1>10. ASSUME NEW k \in 1..n, NEW l \in 1..n, k < l PROVE c[k] < c[l]
  <2>1. b[k] < b[l] /\ b[k] \in 1..m /\ b[l] \in 1..m
    BY <1>6, <1>9, <1>10
  <2>2. a[b[k]] < a[b[l]]
    BY <1>7, <2>1
  <2> QED
    BY <1>9, <2>2
<1>11. ASSUME NEW i \in S PROVE \E k \in 1..n : c[k] = i
  <2>1. i \in used /\ endpoints[i].body # None
    BY <1>3
  <2>2. PICK j \in 1..m : a[j] = i
    BY <1>7, <2>1
  <2>3. j \in ok
    BY <1>7, <1>8, <2>1, <2>2
  <2>4. PICK k \in 1..n : b[k] = j
    BY <1>6, <2>3
  <2> QED
    BY <1>9, <2>2, <2>4
<1>12. Picks(fulfilled, endpoints, S, c)
  BY <1>6, <1>9, <1>10, <1>11 DEF Picks, n
<1> QED
  BY <1>12 DEF fulfilled, ok, configs, S

(* at[l] tells which entity of which endpoint the l-th update is. *)
TakenFrom(updates, at, endpoints, routes) ==
  /\ Len(updates) \in Nat /\ DOMAIN updates = 1..Len(updates)
  /\ \A l \in 1..Len(updates) :
       LET e == endpoints[at[l][1]] IN
       /\ at[l][1] \in DOMAIN endpoints /\ Fetched(e, routes)
       /\ at[l][2] \in DOMAIN e.body /\ updates[l] = e.body[at[l][2]] /\ updates[l] # None
  /\ \A i \in DOMAIN endpoints : Fetched(endpoints[i], routes) =>
       \A j \in DOMAIN endpoints[i].body : endpoints[i].body[j] # None =>
         \E l \in 1..Len(updates) : at[l] = <<i, j>>
  /\ \A l, m \in 1..Len(updates) : l < m =>
       at[l][1] < at[m][1] \/ (at[l][1] = at[m][1] /\ at[l][2] < at[m][2])

(* The trip updates of a set of routes are taken from the endpoints that
   are fetched for it, in the order of the endpoints and of their answers. *)
LEMMA UpdatesTaken ==
  ASSUME NEW endpoints, EndpointsOK(endpoints), NEW routes
  PROVE  \E at : TakenFrom(TripUpdates(endpoints, routes), at, endpoints, routes)
<1> DEFINE configs == FetchConfigs(endpoints, routes)
           fulfilled == Filtered(configs, {i \in DOMAIN configs : configs[i].body # None})
           S == {i \in DOMAIN endpoints : Fetched(endpoints[i], routes)}
           kept(body) == {j \in DOMAIN body : body[j] # None}
           decoded == [k \in DOMAIN fulfilled |-> DecodeTripUpdatesOnly(fulfilled[k].body)]
           updates == TripUpdates(endpoints, routes)
           n == Len(fulfilled)
           A == UNION {ToSet(endpoints[i].body) : i \in S}
<1>1. PICK c : Picks(fulfilled, endpoints, S, c)
  BY FulfilledPicks
<1>2. updates = FlattenSeq(decoded)
  BY DEF TripUpdates
<1>3. Len(endpoints) \in Nat /\ DOMAIN endpoints = 1..Len(endpoints)
  BY DEF EndpointsOK, IsSequence
<1>4. ASSUME NEW i \in S PROVE /\ i \in DOMAIN endpoints /\ IsSequence(endpoints[i].body)
                               /\ Fetched(endpoints[i], routes)
  BY DEF EndpointsOK, Fetched
<1>5. \A i \in DOMAIN endpoints : Fetched(endpoints[i], routes) => i \in S
  OBVIOUS
<1> HIDE DEF fulfilled, S
<1>6. /\ n \in Nat /\ DOMAIN fulfilled = 1..n
      /\ \A k \in 1..n : c[k] \in S /\ fulfilled[k] = endpoints[c[k]]
      /\ \A k, l \in 1..n : k < l => c[k] < c[l]
      /\ \A i \in S : \E k \in 1..n : c[k] = i
  BY <1>1 DEF Picks
<1> HIDE DEF n
<1> DEFINE body(k) == endpoints[c[k]].body
           src(k) == CHOOSE s : Picks(decoded[k], body(k), kept(body(k)), s)
<1>7. ASSUME NEW k \in 1..n
      PROVE  Picks(decoded[k], body(k), kept(body(k)), src(k)) /\ decoded[k] \in Seq(A)
  <2>1. IsSequence(body(k)) /\ c[k] \in S
    BY <1>4, <1>6
  <2>2. decoded[k] = Filtered(body(k), kept(body(k)))
    BY <1>6 DEF DecodeTripUpdatesOnly
  <2>3. Len(body(k)) \in Nat /\ kept(body(k)) \in SUBSET (1..Len(body(k)))
    BY <2>1 DEF IsSequence
  <2>4. \E s : Picks(decoded[k], body(k), kept(body(k)), s)
    <3> HIDE DEF decoded, body, kept
    <3> QED
      BY <2>2, <2>3, FilteredPicks
  <2>5. decoded[k] \in Seq(A)
    <3>1. ToSet(body(k)) \subseteq A
      BY <2>1
    <3>2. decoded[k] \in Seq(ToSet(body(k)))
      <4>1. body(k) \in Seq(ToSet(body(k))) /\ kept(body(k)) \in SUBSET (DOMAIN body(k))
        BY <2>1 DEF IsSequence
      <4> HIDE DEF decoded, body, kept, A
      <4> QED
        BY <2>2, <4>1, FilteredSeq
    <3> HIDE DEF decoded, body, kept, A
    <3> QED
      BY <3>1, <3>2
  <2> HIDE DEF decoded, body, kept, A
  <2> QED
    BY <2>4, <2>5
<1>8. PICK p : PlacedBy(updates, p, n, decoded)
  <2>1. decoded = [k \in 1..n |-> decoded[k]]
    BY <1>6
  <2>2. \A k \in 1..n : decoded[k] \in Seq(A)
    BY <1>7
  <2> HIDE DEF decoded, A
  <2> QED
    BY <1>2, <1>6, <2>1, <2>2, FlattenedPlaces
<1>9. updates \in Seq(A)
  <2>1. decoded = [k \in 1..n |-> decoded[k]] /\ \A k \in 1..n : decoded[k] \in Seq(A)
    BY <1>6, <1>7
  <2> HIDE DEF decoded, A
  <2> QED
    BY <1>2, <1>6, <2>1, FlattenedIs
<1>10. Len(updates) \in Nat /\ DOMAIN updates = 1..Len(updates)
  <2> HIDE DEF updates, A
  <2> QED
    BY <1>9
<1> HIDE DEF decoded, updates, A, src
<1> DEFINE at == [l \in 1..Len(updates) |-> <<c[p[l][1]], src(p[l][1])[p[l][2]]>>]
<1>11. ASSUME NEW k \in 1..n
       PROVE  /\ Len(decoded[k]) \in Nat
              /\ \A j \in 1..Len(decoded[k]) :
                   /\ src(k)[j] \in DOMAIN body(k) /\ body(k)[src(k)[j]] # None
                   /\ decoded[k][j] = body(k)[src(k)[j]]
              /\ \A i, j \in 1..Len(decoded[k]) : i < j => src(k)[i] < src(k)[j]
              /\ \A i \in DOMAIN body(k) : body(k)[i] # None =>
                   \E j \in 1..Len(decoded[k]) : src(k)[j] = i
  <2>1. Picks(decoded[k], body(k), kept(body(k)), src(k))
    BY <1>7
  <2> HIDE DEF body
  <2> QED
    BY <2>1 DEF Picks
<1>12. ASSUME NEW l \in 1..Len(updates)
       PROVE  /\ at[l] = <<c[p[l][1]], src(p[l][1])[p[l][2]]>>
              /\ p[l][1] \in 1..n /\ p[l][2] \in 1..Len(decoded[p[l][1]])
              /\ updates[l] = decoded[p[l][1]][p[l][2]]
  BY <1>8 DEF PlacedBy
<1> HIDE DEF at
<1>13. ASSUME NEW l \in 1..Len(updates)
       PROVE  LET e == endpoints[at[l][1]] IN
              /\ at[l][1] \in DOMAIN endpoints /\ Fetched(e, routes)
              /\ at[l][2] \in DOMAIN e.body /\ updates[l] = e.body[at[l][2]] /\ updates[l] # None
  <2> DEFINE k == p[l][1]
             j == p[l][2]
  <2>1. at[l] = <<c[k], src(k)[j]>> /\ k \in 1..n /\ j \in 1..Len(decoded[k]) /\ updates[l] = decoded[k][j]
    BY <1>12
  <2> HIDE DEF k, j
  <2>2. at[l][1] = c[k] /\ at[l][2] = src(k)[j]
    BY <2>1
  <2>3. c[k] \in S
    BY <1>6, <2>1
  <2>4. /\ src(k)[j] \in DOMAIN body(k) /\ body(k)[src(k)[j]] # None
        /\ decoded[k][j] = body(k)[src(k)[j]]
    BY <1>11, <2>1
  <2> QED
    BY <1>4, <2>1, <2>2, <2>3, <2>4
<1>14. ASSUME NEW i \in DOMAIN endpoints, Fetched(endpoints[i], routes),
              NEW j \in DOMAIN endpoints[i].body, endpoints[i].body[j] # None
       PROVE  \E l \in 1..Len(updates) : at[l] = <<i, j>>
  <2>1. PICK k \in 1..n : c[k] = i
    BY <1>5, <1>6, <1>14
  <2>2. PICK h \in 1..Len(decoded[k]) : src(k)[h] = j
    BY <1>11, <1>14, <2>1
  <2>3. PICK l \in 1..Len(updates) : p[l] = <<k, h>>
    BY <1>8 DEF PlacedBy
  <2>4. p[l][1] = k /\ p[l][2] = h
    BY <2>3
  <2> QED
    BY <1>12, <2>1, <2>2, <2>4
<1>15. ASSUME NEW l \in 1..Len(updates), NEW m \in 1..Len(updates), l < m
       PROVE  at[l][1] < at[m][1] \/ (at[l][1] = at[m][1] /\ at[l][2] < at[m][2])
  <2>1. p[l][1] < p[m][1] \/ (p[l][1] = p[m][1] /\ p[l][2] < p[m][2])
    BY <1>8, <1>15 DEF PlacedBy
  <2>2. /\ at[l][1] = c[p[l][1]] /\ at[l][2] = src(p[l][1])[p[l][2]]
        /\ at[m][1] = c[p[m][1]] /\ at[m][2] = src(p[m][1])[p[m][2]]
    BY <1>12
  <2>3. /\ p[l][1] \in 1..n /\ p[m][1] \in 1..n
        /\ p[l][2] \in 1..Len(decoded[p[l][1]]) /\ p[m][2] \in 1..Len(decoded[p[m][1]])
    BY <1>12
  <2>4. CASE p[l][1] < p[m][1]
    BY <1>6, <2>2, <2>3, <2>4
  <2>5. CASE p[l][1] = p[m][1] /\ p[l][2] < p[m][2]
    <3>1. PICK k : k = p[l][1]
      OBVIOUS
    <3>2. PICK i, j : i = p[l][2] /\ j = p[m][2]
      OBVIOUS
    <3>3. k \in 1..n /\ i \in 1..Len(decoded[k]) /\ j \in 1..Len(decoded[k]) /\ i < j
      BY <2>3, <2>5, <3>1, <3>2
    <3>4. src(k)[i] < src(k)[j]
      BY <1>11, <3>3
    <3>5. at[l][1] = c[k] /\ at[m][1] = c[k] /\ at[l][2] = src(k)[i] /\ at[m][2] = src(k)[j]
      BY <2>2, <2>5, <3>1, <3>2
    <3> QED
      BY <3>4, <3>5
  <2> QED
    BY <2>1, <2>4, <2>5
<1>16. TakenFrom(updates, at, endpoints, routes)
  <2> HIDE DEF body
  <2> QED
    BY <1>10, <1>13, <1>14, <1>15, Zenon DEF TakenFrom
<1> QED
  BY <1>16 DEF updates

-----------------------------------------------------------------------------
(* Updates that a trip is matched with, among more of them. *)

(* An update that the trip t can be matched with. *)
Names(u, t) == u.trip # None /\ (u.trip = t \/ <<t, u.trip>> \in Contained)

(* few are some of the updates, in the same order, and e tells which; among
   them are all that can be about t. *)
Thinned(few, many, e, t) ==
  /\ DOMAIN few = 1..Len(few) /\ Len(few) \in Nat
  /\ DOMAIN many = 1..Len(many) /\ Len(many) \in Nat
  /\ \A l \in 1..Len(few) : e[l] \in 1..Len(many) /\ few[l] = many[e[l]]
  /\ \A l, m \in 1..Len(few) : l < m => e[l] < e[m]
  /\ \A k \in 1..Len(many) : Names(many[k], t) => \E l \in 1..Len(few) : e[l] = k

(* U is what the increasing function e makes of T. *)
Mapped(n, e, T, U) ==
  /\ n \in Nat /\ T \in SUBSET (1..n)
  /\ \A l \in 1..n : e[l] \in Nat
  /\ \A l, m \in 1..n : l < m => e[l] < e[m]
  /\ \A k : k \in U <=> \E l \in T : k = e[l]

(* It maps the least to the least. *)
LEMMA LeastMapped ==
  ASSUME NEW n, NEW e, NEW T, NEW U, Mapped(n, e, T, U), T # {}
  PROVE  Min(U) = e[Min(T)] /\ Min(T) \in T /\ Min(T) \in 1..n
<1>0. /\ n \in Nat /\ \A l \in T : l \in 1..n
      /\ \A l \in 1..n : e[l] \in Nat
      /\ \A l, m \in 1..n : l < m => e[l] < e[m]
      /\ \A k : k \in U <=> \E l \in T : k = e[l]
  BY DEF Mapped
<1>1. T \in SUBSET Nat /\ U \in SUBSET Nat /\ U # {}
  <2>1. ASSUME NEW k \in U PROVE k \in Nat
    <3>1. PICK l \in T : k = e[l]
      BY <1>0
    <3> QED
      BY <1>0, <3>1
  <2>2. U # {}
    <3>1. PICK l : l \in T
      OBVIOUS
    <3>2. e[l] \in U
      BY <1>0, <3>1
    <3> QED
      BY <3>2
  <2>3. T \in SUBSET Nat
    BY <1>0
  <2> QED
    BY <2>1, <2>2, <2>3
<1>2. Min(T) \in T /\ \A x \in T : Min(T) <= x
  BY <1>1, MinIsLeast
<1>3. Min(U) \in U /\ \A x \in U : Min(U) <= x
  BY <1>1, MinIsLeast
<1>4. PICK l \in T : Min(U) = e[l]
  BY <1>0, <1>3
<1>5. Min(U) <= e[Min(T)]
  <2>1. e[Min(T)] \in U
    BY <1>0, <1>2
  <2> QED
    BY <1>3, <2>1
<1>6. Min(T) \in 1..n /\ l \in 1..n /\ Min(T) <= l
  BY <1>0, <1>2
<1>7. e[Min(T)] \in Nat /\ e[l] \in Nat
  BY <1>0, <1>6
<1>8. Min(T) = l \/ Min(T) < l
  BY <1>6, <1>0
<1>9. Min(T) < l => e[Min(T)] < e[l]
  BY <1>0, <1>6
<1> QED
  BY <1>2, <1>4, <1>5, <1>6, <1>7, <1>8, <1>9

(* Of both a row is matched with the same update. *)
MatchedAlike(row, few, many, fuzzy) ==
  MatchTripUpdate(row, few, fuzzy) = MatchTripUpdate(row, many, fuzzy)

(* A row is matched with the same update. *)
LEMMA SameMatch ==
  ASSUME NEW few, NEW many, NEW e, NEW row, NEW fuzzy, Thinned(few, many, e, row.trip)
  PROVE  MatchedAlike(row, few, many, fuzzy)
<1> SUFFICES MatchTripUpdate(row, few, fuzzy) = MatchTripUpdate(row, many, fuzzy)
  BY DEF MatchedAlike
<1> DEFINE n == Len(few)
           Dated(updates) == {i \in DOMAIN updates : /\ updates[i].trip # None
                                                     /\ updates[i].start \in {row.start, None}}
           Exact(updates) == {i \in Dated(updates) : updates[i].trip = row.trip}
           Similar(updates) == {i \in Dated(updates) : <<row.trip, updates[i].trip>> \in Contained}
           Groups(updates) == {GroupOf(updates, i) : i \in Similar(updates)}
           Earliest(updates) == Min(Groups(updates))
           Taken(updates) == {i \in Similar(updates) : GroupOf(updates, i) = Earliest(updates)}
<1>1. ASSUME NEW updates
      PROVE  MatchTripUpdate(row, updates, fuzzy) =
               IF Exact(updates) # {} THEN updates[Min(Exact(updates))]
               ELSE IF fuzzy /\ Similar(updates) # {} THEN updates[Min(Taken(updates))] ELSE None
  BY DEF MatchTripUpdate
<1>2. /\ n \in Nat /\ DOMAIN few = 1..n
      /\ \A l \in 1..n : e[l] \in DOMAIN many /\ e[l] \in Nat /\ few[l] = many[e[l]]
      /\ \A l, m \in 1..n : l < m => e[l] < e[m]
      /\ \A k \in DOMAIN many : Names(many[k], row.trip) => \E l \in 1..n : e[l] = k
  BY DEF Thinned
<1> HIDE DEF n
<1>3. /\ Exact(few) \in SUBSET (1..n)
      /\ \A k : k \in Exact(many) <=> \E l \in Exact(few) : k = e[l]
  <2>1. ASSUME NEW k \in Exact(many) PROVE \E l \in Exact(few) : k = e[l]
    <3>1. Names(many[k], row.trip)
      BY DEF Names
    <3>2. PICK l \in 1..n : e[l] = k
      BY <1>2, <3>1
    <3>3. l \in Exact(few)
      BY <1>2, <3>2
    <3> QED
      BY <3>2, <3>3
  <2>2. ASSUME NEW l \in Exact(few) PROVE e[l] \in Exact(many)
    BY <1>2
  <2> QED
    BY <1>2, <2>1, <2>2
<1>4. /\ Similar(few) \in SUBSET (1..n)
      /\ \A k : k \in Similar(many) <=> \E l \in Similar(few) : k = e[l]
  <2>1. ASSUME NEW k \in Similar(many) PROVE \E l \in Similar(few) : k = e[l]
    <3>1. Names(many[k], row.trip)
      BY DEF Names
    <3>2. PICK l \in 1..n : e[l] = k
      BY <1>2, <3>1
    <3>3. l \in Similar(few)
      BY <1>2, <3>2
    <3> QED
      BY <3>2, <3>3
  <2>2. ASSUME NEW l \in Similar(few) PROVE e[l] \in Similar(many)
    BY <1>2
  <2> QED
    BY <1>2, <2>1, <2>2
<1>5. ASSUME NEW l \in Similar(few)
      PROVE  GroupOf(few, l) \in 1..n /\ GroupOf(many, e[l]) = e[GroupOf(few, l)]
  <2> DEFINE T == {j \in DOMAIN few : few[j].trip = few[l].trip}
             U == {j \in DOMAIN many : many[j].trip = many[e[l]].trip}
  <2>1. l \in 1..n /\ Names(few[l], row.trip) /\ few[l] = many[e[l]]
    BY <1>2 DEF Names
  <2>2. GroupOf(few, l) = Min(T) /\ GroupOf(many, e[l]) = Min(U)
    BY DEF GroupOf
  <2>3. T \in SUBSET (1..n) /\ l \in T
    BY <1>2, <2>1
  <2>4. ASSUME NEW k \in U PROVE \E j \in T : k = e[j]
    <3>1. Names(many[k], row.trip)
      BY <2>1 DEF Names
    <3>2. PICK j \in 1..n : e[j] = k
      BY <1>2, <3>1
    <3>3. j \in T
      BY <1>2, <2>1, <3>2
    <3> QED
      BY <3>2, <3>3
  <2>5. ASSUME NEW j \in T PROVE e[j] \in U
    BY <1>2, <2>1
  <2>6. \A k : k \in U <=> \E j \in T : k = e[j]
    BY <2>4, <2>5
  <2> HIDE DEF T, U
  <2>7. Mapped(n, e, T, U)
    BY <1>2, <2>3, <2>6, Zenon DEF Mapped
  <2>8. Min(U) = e[Min(T)] /\ Min(T) \in 1..n
    BY <2>3, <2>7, LeastMapped
  <2> QED
    BY <2>2, <2>8
<1>6. CASE Exact(few) # {}
  <2>1. Min(Exact(many)) = e[Min(Exact(few))] /\ Min(Exact(few)) \in 1..n
    <3> HIDE DEF Exact
    <3>1. Mapped(n, e, Exact(few), Exact(many))
      BY <1>2, <1>3, Zenon DEF Mapped
    <3> QED
      BY <1>6, <3>1, LeastMapped
  <2>2. Exact(many) # {}
    BY <1>3, <1>6
  <2> HIDE DEF Exact
  <2> QED
    BY <1>1, <1>2, <1>6, <2>1, <2>2
<1>7. CASE Exact(few) = {} /\ Similar(few) = {}
  <2>1. Exact(many) = {} /\ Similar(many) = {}
    <3> HIDE DEF Exact, Similar
    <3> QED
      BY <1>3, <1>4, <1>7
  <2> QED
    BY <1>1, <1>7, <2>1
<1>8. CASE Exact(few) = {} /\ Similar(few) # {}
  <2>1. Exact(many) = {} /\ Similar(many) # {}
    <3> HIDE DEF Exact, Similar
    <3> QED
      BY <1>3, <1>4, <1>8
  <2>2. Earliest(many) = e[Earliest(few)] /\ Earliest(few) \in 1..n
    <3>1. Groups(few) \in SUBSET (1..n) /\ Groups(few) # {}
      <4>1. ASSUME NEW g \in Groups(few) PROVE g \in 1..n
        BY <1>5
      <4>2. Groups(few) # {}
        BY <1>8
      <4> QED
        BY <4>1, <4>2
    <3>2. \A k : k \in Groups(many) <=> \E g \in Groups(few) : k = e[g]
      <4>1. ASSUME NEW k \in Groups(many) PROVE \E g \in Groups(few) : k = e[g]
        <5>1. PICK i \in Similar(many) : k = GroupOf(many, i)
          OBVIOUS
        <5>2. PICK l \in Similar(few) : i = e[l]
          BY <1>4, <5>1
        <5> QED
          BY <1>5, <5>1, <5>2
      <4>2. ASSUME NEW g \in Groups(few) PROVE e[g] \in Groups(many)
        <5>1. PICK l \in Similar(few) : g = GroupOf(few, l)
          OBVIOUS
        <5>2. e[l] \in Similar(many) /\ e[g] = GroupOf(many, e[l])
          BY <1>4, <1>5, <5>1
        <5> QED
          BY <5>2
      <4> HIDE DEF Groups
      <4> QED
        BY <4>1, <4>2
    <3> HIDE DEF Groups
    <3>3. Mapped(n, e, Groups(few), Groups(many))
      BY <1>2, <3>1, <3>2, Zenon DEF Mapped
    <3> QED
      BY <3>1, <3>3, LeastMapped
  <2>3. /\ Taken(few) \in SUBSET (1..n) /\ Taken(few) # {}
        /\ \A k : k \in Taken(many) <=> \E l \in Taken(few) : k = e[l]
    <3>0. Earliest(few) \in Groups(few)
      <4>1. Groups(few) \in SUBSET Nat /\ Groups(few) # {}
        <5>1. ASSUME NEW g \in Groups(few) PROVE g \in Nat
          <6>1. PICK l \in Similar(few) : g = GroupOf(few, l)
            OBVIOUS
          <6>2. g \in 1..n
            BY <1>5, <6>1
          <6> QED
            BY <1>2, <6>2
        <5>2. Groups(few) # {}
          BY <1>8
        <5> QED
          BY <5>1, <5>2
      <4> HIDE DEF Groups
      <4> QED
        BY <4>1, MinIsLeast
    <3>1. Taken(few) # {}
      BY <3>0
    <3>2. \A g, h \in 1..n : e[g] = e[h] => g = h
      <4>1. \A g, h \in 1..n : g < h \/ h < g \/ g = h
        OBVIOUS
      <4>2. \A g, h \in 1..n : g < h => e[g] # e[h]
        BY <1>2
      <4> QED
        BY <4>1, <4>2
    <3> HIDE DEF Earliest
    <3>3. ASSUME NEW k \in Taken(many) PROVE \E l \in Taken(few) : k = e[l]
      <4>1. PICK l \in Similar(few) : k = e[l]
        BY <1>4
      <4>2. e[GroupOf(few, l)] = e[Earliest(few)] /\ GroupOf(few, l) \in 1..n
        BY <1>5, <2>2, <4>1
      <4>3. GroupOf(few, l) = Earliest(few)
        BY <2>2, <3>2, <4>2
      <4> QED
        BY <4>1, <4>3
    <3>4. ASSUME NEW l \in Taken(few) PROVE e[l] \in Taken(many)
      BY <1>4, <1>5, <2>2
    <3>5. Taken(few) \in SUBSET (1..n)
      BY <1>4
    <3> HIDE DEF Taken
    <3> QED
      BY <3>1, <3>3, <3>4, <3>5
  <2>4. Min(Taken(many)) = e[Min(Taken(few))] /\ Min(Taken(few)) \in 1..n
    <3> HIDE DEF Taken
    <3>1. Mapped(n, e, Taken(few), Taken(many))
      BY <1>2, <2>3, Zenon DEF Mapped
    <3> QED
      BY <2>3, <3>1, LeastMapped
  <2> HIDE DEF Exact, Similar, Taken
  <2>5. few[Min(Taken(few))] = many[Min(Taken(many))]
    BY <1>2, <2>4
  <2> QED
    BY <1>1, <1>8, <2>1, <2>5
<1> QED
  BY <1>6, <1>7, <1>8

(* The updates of other endpoints are none for trips of the route. *)
UpdatesApart(endpoints, routes) ==
  \A i \in DOMAIN endpoints : LET e == endpoints[i] IN
    e.routeIds # {} /\ e.body # None => \A j \in DOMAIN e.body : e.body[j] # None =>
      \A t \in DOMAIN table.trips :
        table.trips[t].route \in routes \ e.routeIds => ~Names(e.body[j], t)

(* So what is fetched for one route is enough for its trips. *)
LEMMA FewerUpdates ==
  ASSUME NEW endpoints, EndpointsOK(endpoints), NEW routes, UpdatesApart(endpoints, routes),
         NEW t \in DOMAIN table.trips, table.trips[t].route \in routes
  PROVE  \E e : Thinned(TripUpdates(endpoints, {table.trips[t].route}),
                        TripUpdates(endpoints, routes), e, t)
<1> DEFINE route == table.trips[t].route
           few == TripUpdates(endpoints, {route})
           many == TripUpdates(endpoints, routes)
<1>1. PICK a : TakenFrom(few, a, endpoints, {route})
  BY UpdatesTaken
<1>2. PICK b : TakenFrom(many, b, endpoints, routes)
  BY UpdatesTaken
<1>3. \A i \in DOMAIN endpoints : Fetched(endpoints[i], {route}) => Fetched(endpoints[i], routes)
  BY DEF Fetched
<1>4. Len(endpoints) \in Nat /\ DOMAIN endpoints = 1..Len(endpoints)
  BY DEF EndpointsOK, IsSequence
<1>5. \A i \in DOMAIN endpoints : endpoints[i].body # None => DOMAIN endpoints[i].body \in SUBSET Nat
  <2>1. \A i \in DOMAIN endpoints : endpoints[i].body # None => IsSequence(endpoints[i].body)
    BY DEF EndpointsOK
  <2> QED
    BY <2>1 DEF IsSequence
<1> HIDE DEF few, many
<1>6. /\ Len(few) \in Nat /\ DOMAIN few = 1..Len(few)
      /\ Len(many) \in Nat /\ DOMAIN many = 1..Len(many)
  BY <1>1, <1>2 DEF TakenFrom
<1>7. ASSUME NEW l \in 1..Len(few)
      PROVE  /\ a[l][1] \in DOMAIN endpoints /\ Fetched(endpoints[a[l][1]], {route})
             /\ a[l][2] \in DOMAIN endpoints[a[l][1]].body
             /\ few[l] = endpoints[a[l][1]].body[a[l][2]] /\ few[l] # None
             /\ a[l][1] \in Nat /\ a[l][2] \in Nat
  <2>1. /\ a[l][1] \in DOMAIN endpoints /\ Fetched(endpoints[a[l][1]], {route})
        /\ a[l][2] \in DOMAIN endpoints[a[l][1]].body
        /\ few[l] = endpoints[a[l][1]].body[a[l][2]] /\ few[l] # None
    BY <1>1 DEF TakenFrom
  <2>2. endpoints[a[l][1]].body # None
    BY <2>1 DEF Fetched
  <2> QED
    BY <1>4, <1>5, <2>1, <2>2
<1>8. ASSUME NEW l \in 1..Len(many)
      PROVE  /\ b[l][1] \in DOMAIN endpoints /\ Fetched(endpoints[b[l][1]], routes)
             /\ b[l][2] \in DOMAIN endpoints[b[l][1]].body
             /\ many[l] = endpoints[b[l][1]].body[b[l][2]] /\ many[l] # None
  BY <1>2 DEF TakenFrom
<1> DEFINE e == [l \in 1..Len(few) |->
                   CHOOSE k \in 1..Len(many) : b[k][1] = a[l][1] /\ b[k][2] = a[l][2]]
<1>9. ASSUME NEW l \in 1..Len(few)
      PROVE  /\ e[l] \in 1..Len(many) /\ b[e[l]][1] = a[l][1] /\ b[e[l]][2] = a[l][2]
             /\ few[l] = many[e[l]]
  <2>1. \E k \in 1..Len(many) : b[k][1] = a[l][1] /\ b[k][2] = a[l][2]
    <3>1. /\ a[l][1] \in DOMAIN endpoints /\ Fetched(endpoints[a[l][1]], routes)
          /\ a[l][2] \in DOMAIN endpoints[a[l][1]].body
          /\ endpoints[a[l][1]].body[a[l][2]] # None
      BY <1>3, <1>7
    <3>2. PICK k \in 1..Len(many) : b[k] = <<a[l][1], a[l][2]>>
      BY <1>2, <3>1 DEF TakenFrom
    <3> QED
      BY <3>2
  <2>2. e[l] \in 1..Len(many) /\ b[e[l]][1] = a[l][1] /\ b[e[l]][2] = a[l][2]
    BY <2>1
  <2> HIDE DEF e
  <2> QED
    BY <1>7, <1>8, <2>2
<1> HIDE DEF e
<1>10. ASSUME NEW l \in 1..Len(few), NEW m \in 1..Len(few), l < m PROVE e[l] < e[m]
  <2>1. a[l][1] < a[m][1] \/ (a[l][1] = a[m][1] /\ a[l][2] < a[m][2])
    BY <1>1, <1>10 DEF TakenFrom
  <2>2. /\ a[l][1] \in Nat /\ a[l][2] \in Nat /\ a[m][1] \in Nat /\ a[m][2] \in Nat
    BY <1>7
  <2>3. /\ e[l] \in 1..Len(many) /\ e[m] \in 1..Len(many)
        /\ b[e[l]][1] = a[l][1] /\ b[e[l]][2] = a[l][2]
        /\ b[e[m]][1] = a[m][1] /\ b[e[m]][2] = a[m][2]
    BY <1>9
  <2>4. e[l] # e[m]
    BY <2>1, <2>2, <2>3
  <2>5. ~(e[m] < e[l])
    <3> SUFFICES ASSUME e[m] < e[l] PROVE FALSE
      OBVIOUS
    <3>1. b[e[m]][1] < b[e[l]][1] \/ (b[e[m]][1] = b[e[l]][1] /\ b[e[m]][2] < b[e[l]][2])
      BY <1>2, <2>3 DEF TakenFrom
    <3> QED
      BY <2>1, <2>2, <2>3, <3>1
  <2> QED
    BY <1>6, <2>3, <2>4, <2>5
<1>11. ASSUME NEW k \in 1..Len(many), Names(many[k], t) PROVE \E l \in 1..Len(few) : e[l] = k
  <2> DEFINE i == b[k][1]
             j == b[k][2]
  <2>1. /\ i \in DOMAIN endpoints /\ Fetched(endpoints[i], routes) /\ j \in DOMAIN endpoints[i].body
        /\ many[k] = endpoints[i].body[j] /\ many[k] # None
    BY <1>8
  <2> HIDE DEF i, j
  <2>2. Fetched(endpoints[i], {route})
    <3>1. endpoints[i].routeIds = {} \/ route \in endpoints[i].routeIds
      BY <1>11, <2>1 DEF UpdatesApart, Fetched
    <3> QED
      BY <2>1, <3>1 DEF Fetched
  <2>3. PICK l \in 1..Len(few) : a[l] = <<i, j>>
    BY <1>1, <2>1, <2>2 DEF TakenFrom
  <2>4. b[e[l]][1] = b[k][1] /\ b[e[l]][2] = b[k][2] /\ e[l] \in 1..Len(many)
    BY <1>9, <2>3 DEF i, j
  <2>5. /\ b[k][1] \in Nat /\ b[k][2] \in Nat
    <3>1. a[l][1] \in Nat /\ a[l][2] \in Nat
      BY <1>7
    <3> QED
      BY <2>3, <3>1 DEF i, j
  <2>6. ~(e[l] < k) /\ ~(k < e[l])
    <3>1. e[l] < k => b[e[l]][1] < b[k][1] \/ (b[e[l]][1] = b[k][1] /\ b[e[l]][2] < b[k][2])
      BY <1>2, <2>4 DEF TakenFrom
    <3>2. k < e[l] => b[k][1] < b[e[l]][1] \/ (b[k][1] = b[e[l]][1] /\ b[k][2] < b[e[l]][2])
      BY <1>2, <2>4 DEF TakenFrom
    <3> QED
      BY <2>4, <2>5, <3>1, <3>2
  <2> QED
    BY <1>6, <2>4, <2>6
<1>12. Thinned(few, many, e, t)
  BY <1>6, <1>9, <1>10, <1>11, Zenon DEF Thinned
<1> QED
  BY <1>12 DEF few, many

(* So a row is resolved alike. *)
LEMMA SameResolved ==
  ASSUME NEW endpoints, EndpointsOK(endpoints), NEW routes, UpdatesApart(endpoints, routes),
         NEW row, row.trip \in DOMAIN table.trips, NEW route,
         table.trips[row.trip].route = route, route \in routes, NEW fuzzy
  PROVE  Resolved(row, TripUpdates(endpoints, {route}), fuzzy)
           = Resolved(row, TripUpdates(endpoints, routes), fuzzy)
<1> DEFINE few == TripUpdates(endpoints, {route})
           many == TripUpdates(endpoints, routes)
<1>1. \E e : Thinned(few, many, e, row.trip)
  BY FewerUpdates
<1> HIDE DEF few, many
<1>2. MatchedAlike(row, few, many, fuzzy)
  BY <1>1, SameMatch
<1>3. Resolved(row, few, fuzzy) = Resolved(row, many, fuzzy)
  BY <1>2, Zenon DEF Resolved, MatchedAlike
<1> QED
  BY <1>3 DEF few, many

-----------------------------------------------------------------------------
(* What a provider answers for pairs, and for each of them alone. *)

(* Every trip of the answer is one for a pair alone, and of every trip for a
   pair alone there is one in the answer with its times. *)
Pairwise(p, pairs) ==
  LET all == ProviderTrips(p, pairs)
      alone(i) == ProviderTrips(p, <<pairs[i]>>)
  IN  /\ \A i \in DOMAIN pairs : TripsOK(alone(i)) /\ alone(i) # Failed
      /\ \A t \in all : \E i \in DOMAIN pairs : t \in alone(i)
      /\ \A i \in DOMAIN pairs : \A t \in alone(i) :
           \E u \in all : u.trip = t.trip /\ u.arr = t.arr /\ u.dep = t.dep

(* An answer that is made of those for the pairs. *)
LEMMA MadeOfPairs ==
  ASSUME NEW p, NEW pairs, ~TripsOK(Failed), TripsOK(ProviderTrips(p, pairs)),
         ProviderTrips(p, pairs) = UNION {ProviderTrips(p, <<pairs[i]>>) : i \in DOMAIN pairs}
  PROVE  Pairwise(p, pairs)
<1> DEFINE all == ProviderTrips(p, pairs)
           alone(i) == ProviderTrips(p, <<pairs[i]>>)
<1>1. \A i \in DOMAIN pairs : alone(i) \subseteq all
  OBVIOUS
<1>2. \A t \in all : \E i \in DOMAIN pairs : t \in alone(i)
  OBVIOUS
<1> HIDE DEF all, alone
<1>3. ASSUME NEW i \in DOMAIN pairs PROVE TripsOK(alone(i)) /\ alone(i) # Failed
  <2>1. IsFiniteSet(all) /\ \A t \in all : TimedTrip(t)
    BY DEF TripsOK, all
  <2>2. TripsOK(alone(i))
    BY <1>1, <2>1, FS_Subset DEF TripsOK
  <2> QED
    BY <2>2
<1> QED
  BY <1>1, <1>2, <1>3 DEF Pairwise, all, alone

(* One pair is one route at one stop. *)
LEMMA OnePair ==
  ASSUME NEW pair
  PROVE  /\ DOMAIN <<pair>> = {1} /\ DOMAIN <<pair>> = 1..1 /\ <<pair>>[1] = pair
         /\ StopsOf(<<pair>>) = {pair.stop} /\ RoutesAt(<<pair>>, pair.stop) = {pair.route}
         /\ {<<pair>>[j].route : j \in DOMAIN <<pair>>} = {pair.route}
<1>1. DOMAIN <<pair>> = {1} /\ DOMAIN <<pair>> = 1..1 /\ <<pair>>[1] = pair
  OBVIOUS
<1>2. StopsOf(<<pair>>) = {pair.stop} /\ {<<pair>>[j].route : j \in DOMAIN <<pair>>} = {pair.route}
  BY <1>1 DEF StopsOf
<1>3. RoutesAt(<<pair>>, pair.stop) = {pair.route}
  <2>1. {j \in DOMAIN <<pair>> : <<pair>>[j].stop = pair.stop} = {1}
    BY <1>1
  <2>2. RoutesAt(<<pair>>, pair.stop) = {<<pair>>[j].route : j \in {1}}
    BY <2>1 DEF RoutesAt
  <2> QED
    BY <1>1, <2>2
<1> QED
  BY <1>1, <1>2, <1>3

(* The rows of a pair are those that it has alone. *)
LEMMA RowsOfPair ==
  ASSUME TableOK, Served, Timely, now \in Int,
         NEW gtfs, EndpointsOK(gtfs.endpoints), NEW pairs,
         UpdatesApart(gtfs.endpoints, {pairs[j].route : j \in DOMAIN pairs}),
         NEW i \in DOMAIN pairs, NEW date \in ScheduleDates, NEW r
  PROVE  [date |-> date, pair |-> i, r |-> r] \in RowsOf(gtfs, pairs, date, i)
           <=> [date |-> date, pair |-> 1, r |-> r] \in RowsOf(gtfs, <<pairs[i]>>, date, 1)
<1> DEFINE one == <<pairs[i]>>
           rows == ScheduleForRouteAtStop(pairs[i].route, pairs[i].stop, now \div Day + date)
           many == TripUpdates(gtfs.endpoints, {pairs[j].route : j \in DOMAIN pairs})
           few == TripUpdates(gtfs.endpoints, {pairs[i].route})
<1>1. one[1] = pairs[i] /\ {one[j].route : j \in DOMAIN one} = {pairs[i].route}
  BY OnePair, Zenon
<1>2. /\ RowsOf(gtfs, pairs, date, i) =
           {[date |-> date, pair |-> i, r |-> Resolved(row, many, gtfs.fuzzy)] : row \in rows}
      /\ RowsOf(gtfs, one, date, 1) =
           {[date |-> date, pair |-> 1, r |-> Resolved(row, few, gtfs.fuzzy)] : row \in rows}
  BY <1>1, Zenon DEF RowsOf
<1>3. ASSUME NEW row \in rows
      PROVE  Resolved(row, few, gtfs.fuzzy) = Resolved(row, many, gtfs.fuzzy)
  <2>1. now \div Day + date \in Int
    BY DayAssumption DEF ScheduleDates
  <2>2. row.trip \in RouteTrips(pairs[i].route, now \div Day + date)
    BY <2>1, ScheduleRows DEF RowOK
  <2>3. row.trip \in DOMAIN table.trips /\ table.trips[row.trip].route = pairs[i].route
    BY <2>2 DEF RouteTrips
  <2>4. pairs[i].route \in {pairs[j].route : j \in DOMAIN pairs}
    OBVIOUS
  <2> QED
    BY <2>3, <2>4, SameResolved
<1> HIDE DEF rows, few, many, one
<1> QED
  <2>1. [date |-> date, pair |-> i, r |-> r] \in RowsOf(gtfs, pairs, date, i)
          <=> \E row \in rows : r = Resolved(row, many, gtfs.fuzzy)
    BY <1>2
  <2>2. [date |-> date, pair |-> 1, r |-> r] \in RowsOf(gtfs, one, date, 1)
          <=> \E row \in rows : r = Resolved(row, few, gtfs.fuzzy)
    BY <1>2
  <2> QED
    BY <1>3, <2>1, <2>2 DEF one

(* The row x as one of the pair i. *)
As(x, i) == [date |-> x.date, pair |-> i, r |-> x.r]

(* So are those that are shown. *)
LEMMA ShownOfPair ==
  ASSUME TableOK, Served, Timely, now \in Int,
         NEW gtfs, EndpointsOK(gtfs.endpoints), NEW pairs,
         UpdatesApart(gtfs.endpoints, {pairs[j].route : j \in DOMAIN pairs}),
         NEW i \in DOMAIN pairs
  PROVE  /\ \A x \in ShownRows(gtfs, pairs) : x.pair = i => As(x, 1) \in ShownRows(gtfs, <<pairs[i]>>)
         /\ \A x \in ShownRows(gtfs, <<pairs[i]>>) : As(x, i) \in ShownRows(gtfs, pairs)
<1> DEFINE one == <<pairs[i]>>
           Row(date, k, r) == [date |-> date, pair |-> k, r |-> r]
<1>1. \A date \in ScheduleDates : \A r :
        Row(date, i, r) \in RowsOf(gtfs, pairs, date, i) <=> Row(date, 1, r) \in RowsOf(gtfs, one, date, 1)
  BY RowsOfPair
<1>2. DOMAIN one = {1}
  BY OnePair
<1> HIDE DEF one
<1>3. ASSUME NEW ps, NEW x
      PROVE  x \in ShownRows(gtfs, ps) <=>
               /\ \E date \in ScheduleDates : \E k \in DOMAIN ps : x \in RowsOf(gtfs, ps, date, k)
               /\ x.r.times.dep >= now /\ ~Hidden(x.r)
  BY DEF ShownRows
<1>4. ASSUME NEW ps, NEW date, NEW k, NEW x \in RowsOf(gtfs, ps, date, k)
      PROVE  x = Row(date, k, x.r) /\ x.date = date /\ x.pair = k
  <2>1. PICK r : x = Row(date, k, r)
    BY Zenon DEF RowsOf
  <2> QED
    BY <2>1
<1>5. ASSUME NEW x, NEW k PROVE As(x, k).r = x.r /\ As(x, k) = Row(x.date, k, x.r)
  BY DEF As
<1>6. ASSUME NEW x \in ShownRows(gtfs, pairs), x.pair = i PROVE As(x, 1) \in ShownRows(gtfs, one)
  <2>1. PICK date \in ScheduleDates : \E k \in DOMAIN pairs : x \in RowsOf(gtfs, pairs, date, k)
    BY <1>3
  <2>2. x \in RowsOf(gtfs, pairs, date, i) /\ x = Row(date, i, x.r) /\ x.date = date
    BY <1>4, <1>6, <2>1
  <2>3. As(x, 1) \in RowsOf(gtfs, one, date, 1)
    <3> HIDE DEF Row
    <3> QED
      BY <1>1, <1>5, <2>2
  <2>4. x.r.times.dep >= now /\ ~Hidden(x.r)
    BY <1>3
  <2>5. As(x, 1).r.times.dep >= now /\ ~Hidden(As(x, 1).r)
    BY <1>5, <2>4
  <2> HIDE DEF Row
  <2> QED
    BY <1>2, <1>3, <2>3, <2>5
<1>7. ASSUME NEW x \in ShownRows(gtfs, one) PROVE As(x, i) \in ShownRows(gtfs, pairs)
  <2>1. PICK date \in ScheduleDates : x \in RowsOf(gtfs, one, date, 1)
    BY <1>2, <1>3
  <2>2. x = Row(date, 1, x.r) /\ x.date = date
    BY <1>4, <2>1
  <2>3. As(x, i) \in RowsOf(gtfs, pairs, date, i)
    <3> HIDE DEF Row
    <3> QED
      BY <1>1, <1>5, <2>1, <2>2
  <2>4. x.r.times.dep >= now /\ ~Hidden(x.r)
    BY <1>3
  <2>5. As(x, i).r.times.dep >= now /\ ~Hidden(As(x, i).r)
    BY <1>5, <2>4
  <2> HIDE DEF Row
  <2> QED
    BY <1>3, <2>3, <2>5
<1> QED
  BY <1>6, <1>7 DEF one

(* The timetable's trips for pairs are those for each of them, but for one
   with the same times at another stop. *)
LEMMA GtfsByPair ==
  ASSUME TableOK, Served, Timely, now \in Int, ~TripsOK(Failed),
         NEW gtfs, gtfs.kind = "gtfs", EndpointsOK(gtfs.endpoints),
         NEW n \in Nat, NEW pairs, DOMAIN pairs = 1..n,
         UpdatesApart(gtfs.endpoints, {pairs[j].route : j \in DOMAIN pairs})
  PROVE  Pairwise(gtfs, pairs)
<1> DEFINE Trip(x) == [trip |-> x.r.row.trip, route |-> x.r.row.route, stop |-> x.r.row.stop,
                       dir |-> x.r.row.dir, arr |-> x.r.times.arr, dep |-> x.r.times.dep,
                       realtime |-> x.r.times.realtime]
           Foremost(shown, y) == y \in shown /\ ~\E z \in shown : SameKey(y, z) /\ Before(z, y)
<1>1. ASSUME NEW ps
      PROVE  /\ ProviderTrips(gtfs, ps) = GtfsTrips(gtfs, ps)
             /\ \A t : t \in GtfsTrips(gtfs, ps) <=>
                         \E x : Foremost(ShownRows(gtfs, ps), x) /\ t = Trip(x)
  <2>1. ProviderTrips(gtfs, ps) = GtfsTrips(gtfs, ps)
    BY Zenon DEF ProviderTrips
  <2> QED
    BY <2>1 DEF GtfsTrips
<1>2. ASSUME NEW x, NEW k
      PROVE  /\ Trip(As(x, k)) = Trip(x) /\ As(x, k).date = x.date /\ As(x, k).pair = k
             /\ \A y, l : SameKey(As(x, k), As(y, l)) <=> SameKey(x, y)
             /\ \A y : (SameKey(As(x, k), y) <=> SameKey(x, y)) /\ (SameKey(y, As(x, k)) <=> SameKey(y, x))
  BY DEF As, SameKey
<1> HIDE DEF Trip, Foremost
<1>3. \A x \in ShownRows(gtfs, pairs) : x.date \in ScheduleDates /\ x.pair \in 1..n
  BY ShownRowsAre DEF ShownOK
<1>4. ASSUME NEW i \in DOMAIN pairs
      PROVE  \A x \in ShownRows(gtfs, <<pairs[i]>>) : x.date \in ScheduleDates /\ x.pair = 1
  <2>1. DOMAIN <<pairs[i]>> = 1..1 /\ 1 \in Nat /\ \A k : k \in 1..1 <=> k = 1
    BY OnePair
  <2>2. \A x \in ShownRows(gtfs, <<pairs[i]>>) : ShownOK(gtfs, <<pairs[i]>>, x)
    BY <2>1, ShownRowsAre
  <2> QED
    BY <2>1, <2>2 DEF ShownOK
<1>5. ASSUME NEW i \in DOMAIN pairs
      PROVE  TripsOK(ProviderTrips(gtfs, <<pairs[i]>>)) /\ ProviderTrips(gtfs, <<pairs[i]>>) # Failed
  <2>1. DOMAIN <<pairs[i]>> = 1..1 /\ 1 \in Nat
    BY OnePair
  <2>2. TripsOK(GtfsTrips(gtfs, <<pairs[i]>>))
    BY <2>1, GtfsTripsAre
  <2> QED
    BY <1>1, <2>2
<1>6. ASSUME NEW t \in ProviderTrips(gtfs, pairs)
      PROVE  \E i \in DOMAIN pairs : t \in ProviderTrips(gtfs, <<pairs[i]>>)
  <2>1. PICK x : Foremost(ShownRows(gtfs, pairs), x) /\ t = Trip(x)
    BY <1>1
  <2>2. /\ x \in ShownRows(gtfs, pairs)
        /\ ~\E z \in ShownRows(gtfs, pairs) : SameKey(x, z) /\ Before(z, x)
    BY <2>1 DEF Foremost
  <2>3. PICK i \in DOMAIN pairs : x.pair = i
    BY <1>3, <2>2
  <2>4. As(x, 1) \in ShownRows(gtfs, <<pairs[i]>>)
    BY <2>2, <2>3, ShownOfPair
  <2>5. ASSUME NEW z \in ShownRows(gtfs, <<pairs[i]>>), SameKey(As(x, 1), z), Before(z, As(x, 1))
        PROVE  FALSE
    <3>1. As(z, i) \in ShownRows(gtfs, pairs)
      BY ShownOfPair
    <3>2. SameKey(x, As(z, i))
      BY <1>2, <2>5
    <3>3. z.date < x.date
      BY <1>2, <1>4, <2>5 DEF Before
    <3>4. Before(As(z, i), x)
      BY <1>2, <3>3 DEF Before
    <3> QED
      BY <2>2, <3>1, <3>2, <3>4
  <2>6. Foremost(ShownRows(gtfs, <<pairs[i]>>), As(x, 1))
    BY <2>4, <2>5 DEF Foremost
  <2>7. t = Trip(As(x, 1))
    BY <1>2, <2>1
  <2> QED
    BY <1>1, <2>6, <2>7
<1>7. ASSUME NEW i \in DOMAIN pairs, NEW t \in ProviderTrips(gtfs, <<pairs[i]>>)
      PROVE  \E u \in ProviderTrips(gtfs, pairs) : u.trip = t.trip /\ u.arr = t.arr /\ u.dep = t.dep
  <2>1. PICK x : Foremost(ShownRows(gtfs, <<pairs[i]>>), x) /\ t = Trip(x)
    BY <1>1
  <2>2. As(x, i) \in ShownRows(gtfs, pairs)
    BY <2>1, ShownOfPair DEF Foremost
  <2> DEFINE shown == ShownRows(gtfs, pairs)
  <2>3. \A y \in shown : y.date \in ScheduleDates /\ y.pair \in 1..n
    BY <1>3
  <2> HIDE DEF shown
  <2>4. PICK z \in shown : SameKey(As(x, i), z) /\ ~\E w \in shown : SameKey(z, w) /\ Before(w, z)
    BY <2>2, <2>3, FirstOfKey DEF shown
  <2>5. Trip(z) \in ProviderTrips(gtfs, pairs)
    BY <1>1, <2>4 DEF Foremost, shown
  <2>6. SameKey(x, z)
    BY <1>2, <2>4
  <2>7. Trip(z).trip = Trip(x).trip /\ Trip(z).arr = Trip(x).arr /\ Trip(z).dep = Trip(x).dep
    BY <2>6 DEF SameKey, Trip
  <2> QED
    BY <2>1, <2>5, <2>7
<1> QED
  BY <1>5, <1>6, <1>7, Zenon DEF Pairwise

-----------------------------------------------------------------------------
(* The boards of the other services. *)

(* No trip is listed under two routes. *)
OneRoute(list) == \A i, j \in DOMAIN list : list[i].trip = list[j].trip => list[i].route = list[j].route

OneRouteEach(boards, stops) ==
  \A stop \in stops : \A k \in 1..NullRetries :
    boards[stop][k] \notin {None, Failed} => OneRoute(boards[stop][k])

(* What is listed is from one reply. *)
LEMMA ListedInReply ==
  ASSUME NEW replies, \A k \in 1..NullRetries : ReplyOK(replies[k]),
         \A k \in 1..NullRetries : replies[k] \notin {None, Failed} => OneRoute(replies[k]),
         ArrivalsAndDepartures(replies) \notin {None, Failed}
  PROVE  OneRoute(ArrivalsAndDepartures(replies))
<1> DEFINE tries == {i \in 1..NullRetries : replies[i] # None}
           reply == IF tries = {} THEN None ELSE replies[Min(tries)]
           keys == [i \in DOMAIN reply |-> ArrivalKey(reply[i])]
           list == ArrivalsAndDepartures(replies)
<1>1. reply \in {None, Failed} \/ (ReplyOK(reply) /\ OneRoute(reply))
  <2> SUFFICES ASSUME tries # {} PROVE reply \in {None, Failed} \/ (ReplyOK(reply) /\ OneRoute(reply))
    OBVIOUS
  <2>1. tries \in SUBSET Nat
    BY NullRetriesAssumption
  <2>2. Min(tries) \in tries
    <3> HIDE DEF tries
    <3> QED
      BY <2>1, MinIsLeast
  <2> QED
    BY <2>2
<1>2. list = CASE reply \in {None, Failed} -> reply
               [] reply = <<>> -> None
               [] OTHER -> StablySorted(reply, keys)
  BY Zenon DEF ArrivalsAndDepartures
<1> HIDE DEF reply, keys
<1>3. list = reply \/ list = None \/ list = StablySorted(reply, keys)
  BY <1>2, Zenon
<1>4. reply \in {None, Failed} => list \in {None, Failed}
  BY <1>2, Zenon
<1> HIDE DEF list
<1>5. list \notin {None, Failed} /\ IsSequence(reply) /\ (\A i \in DOMAIN reply : ArrivalOK(reply[i]))
      /\ OneRoute(reply)
  BY <1>1, <1>4 DEF ReplyOK, list
<1>6. CASE list = reply
  BY <1>5, <1>6 DEF list
<1>7. CASE list = StablySorted(reply, keys)
  <2>1. \A i \in DOMAIN reply : keys[i] \in Int
    BY <1>5 DEF keys, ArrivalKey, ArrivalOK, Optional
  <2>2. \A i \in DOMAIN list : \E j \in DOMAIN reply : list[i] = reply[j]
    BY <1>5, <1>7, <2>1, StablySortedIs DEF IsSequence
  <2>3. OneRoute(list)
    BY <1>5, <2>2 DEF OneRoute
  <2> QED
    BY <2>3 DEF list
<1> QED
  BY <1>3, <1>5, <1>6, <1>7

(* The entries shown for one of the routes are those of it that are shown
   for all. *)
OfRoute(some, all, r) == some = {x \in all : x.route = r}

(* An entry is of one of the routes. *)
OfRoutes(all, seq, routes) == \A x \in all : x.route \in routes /\ x \in ToSet(seq)

(* One more entry changes nothing of it. *)
LEMMA NextOfRoute ==
  ASSUME NEW seq, OneRoute(seq), NEW routes, NEW r \in routes, NEW time, NEW k \in DOMAIN seq,
         NEW some, NEW all, OfRoute(some, all, r), OfRoutes(all, seq, routes)
  PROVE  /\ OfRoute(NextShown(some, seq[k], {r}, time), NextShown(all, seq[k], routes, time), r)
         /\ OfRoutes(NextShown(all, seq[k], routes, time), seq, routes)
<1> DEFINE ad == seq[k]
           Newer(shown) == \E old \in shown : old.trip = ad.trip /\ LastUpdate(old) >= LastUpdate(ad)
           Gone == ~ad.enabled \/ ResolveArrival(ad).dep < time
           Skipped(shown, rs) == ad.route \notin rs \/ Newer(shown) \/ Gone
           Added(shown) == {old \in shown : old.trip # ad.trip} \cup {ad}
<1>1. ASSUME NEW shown, NEW rs
      PROVE  NextShown(shown, ad, rs, time) = IF Skipped(shown, rs) THEN shown ELSE Added(shown)
  BY Zenon DEF NextShown
<1>2. ad \in ToSet(seq)
  BY DEF ToSet
<1>3. \A x \in all : x.trip = ad.trip => x.route = ad.route
  <2> SUFFICES ASSUME NEW x \in all, x.trip = ad.trip PROVE x.route = ad.route
    OBVIOUS
  <2>1. PICK j \in DOMAIN seq : x = seq[j]
    BY DEF OfRoutes, ToSet
  <2> QED
    BY <2>1 DEF OneRoute
<1>4. \A x : x \in some <=> x \in all /\ x.route = r
  BY DEF OfRoute
<1>5. \A x \in all : x.route \in routes /\ x \in ToSet(seq)
  BY DEF OfRoutes
<1>6. ad.route = r => (Newer(some) <=> Newer(all))
  BY <1>3, <1>4
<1> HIDE DEF ad, Newer, Gone
<1>7. CASE ad.route = r
  <2>1. Skipped(some, {r}) <=> Skipped(all, routes)
    BY <1>6, <1>7
  <2>2. \A x : x \in Added(some) <=> x \in Added(all) /\ x.route = r
    BY <1>4, <1>7
  <2>3. \A x \in Added(all) : x.route \in routes /\ x \in ToSet(seq)
    BY <1>2, <1>5, <1>7
  <2> HIDE DEF Skipped, Added
  <2>4. Added(some) = {x \in Added(all) : x.route = r}
    BY <2>2
  <2> QED
    BY <1>1, <2>1, <2>3, <2>4 DEF OfRoute, OfRoutes, ad
<1>8. CASE ad.route # r
  <2>1. Skipped(some, {r})
    BY <1>8
  <2>2. \A x : x \in some <=> x \in Added(all) /\ x.route = r
    BY <1>3, <1>4, <1>8
  <2>3. ~Skipped(all, routes) => \A x \in Added(all) : x.route \in routes /\ x \in ToSet(seq)
    BY <1>2, <1>5
  <2> HIDE DEF Skipped, Added
  <2>4. OfRoute(some, Added(all), r) /\ (~Skipped(all, routes) => OfRoutes(Added(all), seq, routes))
    BY <2>2, <2>3 DEF OfRoute, OfRoutes
  <2>5. NextShown(some, ad, {r}, time) = some
    BY <1>1, <2>1
  <2>6. /\ Skipped(all, routes) => NextShown(all, ad, routes, time) = all
        /\ ~Skipped(all, routes) => NextShown(all, ad, routes, time) = Added(all)
    BY <1>1
  <2>7. /\ OfRoute(NextShown(some, ad, {r}, time), NextShown(all, ad, routes, time), r)
        /\ OfRoutes(NextShown(all, ad, routes, time), seq, routes)
    BY <2>4, <2>5, <2>6
  <2> QED
    BY <2>7 DEF ad
<1> QED
  BY <1>7, <1>8

(* So it is for all of them. *)
LEMMA ShownOfRoute ==
  ASSUME NEW seq, IsSequence(seq), OneRoute(seq), NEW routes, NEW r \in routes, NEW time
  PROVE  /\ OfRoute(ShownArrivals(seq, {r}, time), ShownArrivals(seq, routes, time), r)
         /\ OfRoutes(ShownArrivals(seq, routes, time), seq, routes)
<1>1. seq \in Seq(ToSet(seq))
  BY DEF IsSequence
<1>2. PICK some : ShowsArrivals(some, seq, {r}, time)
  BY <1>1, ShownArrivalsIs
<1>3. PICK all : ShowsArrivals(all, seq, routes, time)
  BY <1>1, ShownArrivalsIs
<1>4. Len(seq) \in Nat /\ DOMAIN seq = 1..Len(seq)
  BY <1>1
<1> DEFINE Fine(k) == OfRoute(some[k], all[k], r) /\ OfRoutes(all[k], seq, routes)
           C == {k \in 0..Len(seq) : ~Fine(k)}
<1>5. Fine(0)
  BY <1>2, <1>3 DEF ShowsArrivals, OfRoute, OfRoutes
<1>6. ASSUME NEW k \in 1..Len(seq), Fine(k - 1) PROVE Fine(k)
  <2>1. /\ some[k] = NextShown(some[k - 1], seq[k], {r}, time)
        /\ all[k] = NextShown(all[k - 1], seq[k], routes, time)
    BY <1>2, <1>3 DEF ShowsArrivals
  <2> QED
    BY <1>4, <1>6, <2>1, NextOfRoute
<1> HIDE DEF Fine
<1>7. C = {}
  <2> SUFFICES ASSUME C # {} PROVE FALSE
    OBVIOUS
  <2>1. C \in SUBSET Nat
    BY <1>4
  <2>2. PICK k \in C : \A j \in C : k <= j
    <3> HIDE DEF C
    <3> QED
      BY <2>1, LeastNatural
  <2>3. k \in 1..Len(seq) /\ ~Fine(k)
    BY <1>4, <1>5, <2>2
  <2>4. k - 1 \in 0..Len(seq) /\ k - 1 \notin C
    BY <1>4, <2>2, <2>3
  <2> QED
    BY <1>6, <2>3, <2>4
<1>8. Fine(Len(seq))
  BY <1>4, <1>7
<1> QED
  BY <1>2, <1>3, <1>8 DEF Fine, ShowsArrivals

(* A OneBusAway feed answers for each pair alone. *)
LEMMA OneBusAwayByPair ==
  ASSUME ~TripsOK(Failed), NEW p, p.kind = "onebusaway",
         NEW n \in Nat, NEW pairs, DOMAIN pairs = 1..n, ProviderOK(p, StopsOf(pairs)),
         OneRouteEach(p.boards, StopsOf(pairs)), ProviderTrips(p, pairs) # Failed
  PROVE  Pairwise(p, pairs)
<1> DEFINE at(stop) == ArrivalsAndDepartures(p.boards[stop])
           shown(stop, routes) == IF at(stop) = None THEN {} ELSE ShownArrivals(at(stop), routes, now)
           trip(stop, ad) ==
             [trip |-> ad.trip, route |-> ad.route, stop |-> stop, dir |-> ad.dir,
              arr |-> ResolveArrival(ad).arr, dep |-> ResolveArrival(ad).dep,
              realtime |-> ResolveArrival(ad).realtime]
           Trips(ps) == UNION {{trip(stop, ad) : ad \in shown(stop, RoutesAt(ps, stop))} : stop \in StopsOf(ps)}
           all == ProviderTrips(p, pairs)
           alone(i) == ProviderTrips(p, <<pairs[i]>>)
<1>1. ASSUME NEW ps
      PROVE  /\ ProviderTrips(p, ps) = OneBusAwayTrips(p.boards, ps, now)
             /\ ProviderTrips(p, ps) = IF \E stop \in StopsOf(ps) : at(stop) = Failed THEN Failed
                                       ELSE Trips(ps)
  <2>1. ProviderTrips(p, ps) = OneBusAwayTrips(p.boards, ps, now)
    BY Zenon DEF ProviderTrips
  <2>2. OneBusAwayTrips(p.boards, ps, now) = IF \E stop \in StopsOf(ps) : at(stop) = Failed THEN Failed
                                             ELSE Trips(ps)
    BY Zenon DEF OneBusAwayTrips
  <2> QED
    BY <2>1, <2>2
<1>2. \A stop \in StopsOf(pairs) : \A k \in 1..NullRetries : ReplyOK(p.boards[stop][k])
  BY DEF ProviderOK
<1>3. TripsOK(all)
  BY <1>1, <1>2, OneBusAwayTripsAre
<1>4. (\A stop \in StopsOf(pairs) : at(stop) # Failed) /\ all = Trips(pairs)
  BY <1>1
<1>5. ASSUME NEW stop \in StopsOf(pairs), NEW r \in RoutesAt(pairs, stop)
      PROVE  /\ OfRoute(shown(stop, {r}), shown(stop, RoutesAt(pairs, stop)), r)
             /\ \A ad \in shown(stop, RoutesAt(pairs, stop)) : ad.route \in RoutesAt(pairs, stop)
  <2>1. CASE at(stop) = None
    BY <2>1 DEF OfRoute
  <2>2. CASE at(stop) # None
    <3>1. at(stop) \notin {None, Failed}
      BY <1>4, <2>2
    <3>2. \A k \in 1..NullRetries : ReplyOK(p.boards[stop][k])
      BY <1>2
    <3>3. \A k \in 1..NullRetries : p.boards[stop][k] \notin {None, Failed} => OneRoute(p.boards[stop][k])
      BY DEF OneRouteEach
    <3>4. IsSequence(at(stop))
      BY <3>1, <3>2, ArrivalsAre
    <3>5. OneRoute(at(stop))
      BY <3>1, <3>2, <3>3, ListedInReply
    <3>6. \A routes : shown(stop, routes) = ShownArrivals(at(stop), routes, now)
      BY <2>2
    <3> DEFINE list == at(stop)
               routes == RoutesAt(pairs, stop)
    <3>7. /\ shown(stop, {r}) = ShownArrivals(list, {r}, now)
          /\ shown(stop, routes) = ShownArrivals(list, routes, now)
          /\ IsSequence(list) /\ OneRoute(list) /\ r \in routes
      BY <3>4, <3>5, <3>6
    <3> HIDE DEF shown, list, routes
    <3>8. /\ OfRoute(ShownArrivals(list, {r}, now), ShownArrivals(list, routes, now), r)
          /\ OfRoutes(ShownArrivals(list, routes, now), list, routes)
      BY <3>7, ShownOfRoute
    <3>9. /\ OfRoute(shown(stop, {r}), shown(stop, routes), r)
          /\ \A ad \in shown(stop, routes) : ad.route \in routes
      BY <3>7, <3>8 DEF OfRoutes
    <3> QED
      BY <3>9 DEF routes
  <2> QED
    BY <2>1, <2>2
<1>6. ASSUME NEW i \in DOMAIN pairs
      PROVE  alone(i) = {trip(pairs[i].stop, ad) : ad \in shown(pairs[i].stop, {pairs[i].route})}
  <2>1. StopsOf(<<pairs[i]>>) = {pairs[i].stop} /\ RoutesAt(<<pairs[i]>>, pairs[i].stop) = {pairs[i].route}
    BY OnePair
  <2>2. pairs[i].stop \in StopsOf(pairs)
    BY DEF StopsOf
  <2>3. alone(i) = Trips(<<pairs[i]>>)
    BY <1>1, <1>4, <2>1, <2>2
  <2> DEFINE one == <<pairs[i]>>
             its == {trip(pairs[i].stop, ad) : ad \in shown(pairs[i].stop, RoutesAt(one, pairs[i].stop))}
  <2>4. Trips(one) = UNION {its}
    <3>1. StopsOf(one) = {pairs[i].stop}
      BY <2>1
    <3> HIDE DEF one, trip, shown
    <3> QED
      BY <3>1
  <2> HIDE DEF alone, trip, shown
  <2>5. its = {trip(pairs[i].stop, ad) : ad \in shown(pairs[i].stop, {pairs[i].route})}
    BY <2>1
  <2> HIDE DEF its
  <2> QED
    BY <2>3, <2>4, <2>5
<1>7. \A i \in DOMAIN pairs :
        pairs[i].stop \in StopsOf(pairs) /\ pairs[i].route \in RoutesAt(pairs, pairs[i].stop)
  BY DEF StopsOf, RoutesAt
<1>8. \A stop \in StopsOf(pairs) : \A r \in RoutesAt(pairs, stop) :
        \E i \in DOMAIN pairs : pairs[i].stop = stop /\ pairs[i].route = r
  BY DEF StopsOf, RoutesAt
<1>9. \A t : t \in all <=> \E stop \in StopsOf(pairs) : \E ad \in shown(stop, RoutesAt(pairs, stop)) :
                             t = trip(stop, ad)
  BY <1>4
<1> HIDE DEF shown, all, alone, trip
<1>10. ASSUME NEW t \in all PROVE \E i \in DOMAIN pairs : t \in alone(i)
  <2>1. PICK stop \in StopsOf(pairs) : \E ad \in shown(stop, RoutesAt(pairs, stop)) : t = trip(stop, ad)
    BY <1>9
  <2>2. PICK ad \in shown(stop, RoutesAt(pairs, stop)) : t = trip(stop, ad)
    BY <2>1
  <2>3. RoutesAt(pairs, stop) # {}
    BY <1>7, <1>8 DEF StopsOf
  <2>4. ad.route \in RoutesAt(pairs, stop)
    BY <1>5, <2>3
  <2>5. ad \in shown(stop, {ad.route})
    BY <1>5, <2>4 DEF OfRoute
  <2>6. PICK i \in DOMAIN pairs : pairs[i].stop = stop /\ pairs[i].route = ad.route
    BY <1>8, <2>4
  <2> QED
    BY <1>6, <2>2, <2>5, <2>6
<1>11. ASSUME NEW i \in DOMAIN pairs, NEW t \in alone(i) PROVE t \in all
  <2>1. PICK ad \in shown(pairs[i].stop, {pairs[i].route}) : t = trip(pairs[i].stop, ad)
    BY <1>6
  <2>2. ad \in shown(pairs[i].stop, RoutesAt(pairs, pairs[i].stop))
    BY <1>5, <1>7 DEF OfRoute
  <2> QED
    BY <1>7, <1>9, <2>1, <2>2
<1>12. all = UNION {alone(i) : i \in DOMAIN pairs}
  BY <1>10, <1>11
<1> QED
  BY <1>3, <1>12, MadeOfPairs DEF all, alone

(* The routes of a stop are those of its pairs. *)
LEMMA RoutesOfStop ==
  ASSUME NEW pairs
  PROVE  /\ \A i \in DOMAIN pairs : /\ pairs[i].stop \in StopsOf(pairs)
                                    /\ pairs[i].route \in RoutesAt(pairs, pairs[i].stop)
         /\ \A stop \in StopsOf(pairs) : \A r \in RoutesAt(pairs, stop) :
              \E i \in DOMAIN pairs : pairs[i].stop = stop /\ pairs[i].route = r
BY DEF StopsOf, RoutesAt

(* A HAFAS feed answers for each pair alone. *)
LEMMA HafasByPair ==
  ASSUME ~TripsOK(Failed), NEW p, p.kind = "hafas",
         NEW n \in Nat, NEW pairs, DOMAIN pairs = 1..n, ProviderOK(p, StopsOf(pairs)),
         ProviderTrips(p, pairs) # Failed
  PROVE  Pairwise(p, pairs)
<1> DEFINE at(stop) == TripsForStop(p.boards[stop], stop)
           shown(stop, routes) == {t \in at(stop) : t.dep >= now /\ t.route \in routes}
           all == ProviderTrips(p, pairs)
           alone(i) == ProviderTrips(p, <<pairs[i]>>)
<1>1. ASSUME NEW ps
      PROVE  /\ ProviderTrips(p, ps) = HafasTrips(p.boards, ps, now)
             /\ ProviderTrips(p, ps) = IF \E stop \in StopsOf(ps) : p.boards[stop] = Failed THEN Failed
                                       ELSE UNION {shown(stop, RoutesAt(ps, stop)) : stop \in StopsOf(ps)}
  <2>1. ProviderTrips(p, ps) = HafasTrips(p.boards, ps, now)
    BY Zenon DEF ProviderTrips
  <2> QED
    BY <2>1, Zenon DEF HafasTrips
<1>2. TripsOK(all)
  <2>1. \A stop \in StopsOf(pairs) : LET board == p.boards[stop] IN
           board = Failed \/ (EntriesOK(board.departures) /\ EntriesOK(board.arrivals))
    BY DEF ProviderOK
  <2> QED
    BY <1>1, <2>1, HafasTripsAre
<1>3. /\ \A stop \in StopsOf(pairs) : p.boards[stop] # Failed
      /\ all = UNION {shown(stop, RoutesAt(pairs, stop)) : stop \in StopsOf(pairs)}
  BY <1>1
<1>4. /\ \A i \in DOMAIN pairs : /\ pairs[i].stop \in StopsOf(pairs)
                                 /\ pairs[i].route \in RoutesAt(pairs, pairs[i].stop)
      /\ \A stop \in StopsOf(pairs) : \A r \in RoutesAt(pairs, stop) :
           \E i \in DOMAIN pairs : pairs[i].stop = stop /\ pairs[i].route = r
  BY RoutesOfStop
<1>5. ASSUME NEW i \in DOMAIN pairs PROVE alone(i) = shown(pairs[i].stop, {pairs[i].route})
  <2> DEFINE one == <<pairs[i]>>
             stop == pairs[i].stop
  <2>1. StopsOf(one) = {stop} /\ RoutesAt(one, stop) = {pairs[i].route}
    BY OnePair
  <2>2. p.boards[stop] # Failed
    BY <1>3, <1>4
  <2>3. alone(i) = UNION {shown(s, RoutesAt(one, s)) : s \in StopsOf(one)}
    <3>1. ~\E s \in StopsOf(one) : p.boards[s] = Failed
      BY <2>1, <2>2
    <3> QED
      BY <1>1, <3>1
  <2> HIDE DEF one, stop, shown
  <2>4. UNION {shown(s, RoutesAt(one, s)) : s \in StopsOf(one)} = shown(stop, RoutesAt(one, stop))
    BY <2>1
  <2> QED
    BY <2>1, <2>3, <2>4 DEF stop
<1>6. ASSUME NEW stop, NEW routes, NEW t
      PROVE  /\ t \in shown(stop, routes) => t \in shown(stop, {t.route}) /\ t.route \in routes
             /\ \A r \in routes : t \in shown(stop, {r}) => t \in shown(stop, routes)
  OBVIOUS
<1> HIDE DEF shown, all, alone
<1>7. ASSUME NEW t \in all PROVE \E i \in DOMAIN pairs : t \in alone(i)
  <2>1. PICK stop \in StopsOf(pairs) : t \in shown(stop, RoutesAt(pairs, stop))
    BY <1>3
  <2>2. t \in shown(stop, {t.route}) /\ t.route \in RoutesAt(pairs, stop)
    BY <1>6, <2>1
  <2>3. PICK i \in DOMAIN pairs : pairs[i].stop = stop /\ pairs[i].route = t.route
    BY <1>4, <2>2
  <2> QED
    BY <1>5, <2>2, <2>3
<1>8. ASSUME NEW i \in DOMAIN pairs, NEW t \in alone(i) PROVE t \in all
  <2>1. t \in shown(pairs[i].stop, {pairs[i].route})
    BY <1>5
  <2>2. t \in shown(pairs[i].stop, RoutesAt(pairs, pairs[i].stop))
    BY <1>4, <1>6, <2>1
  <2> QED
    BY <1>3, <1>4, <2>2
<1>9. all = UNION {alone(i) : i \in DOMAIN pairs}
  BY <1>7, <1>8
<1> QED
  BY <1>2, <1>9, MadeOfPairs DEF all, alone

(* The entries of a board that run on one of the routes. *)
RunningOn(board, routes, time) ==
  {i \in DOMAIN board : board[i].line \in routes /\ ~board[i].cancelled /\ board[i].expected >= time}

(* The first of each id among them is shown. *)
LEMMA DeparturesAre ==
  ASSUME NEW board, IsSequence(board), NEW routes, NEW time
  PROVE  \A d : d \in DeparturesShown(Running(board, routes, time)) <=>
           \E i \in RunningOn(board, routes, time) :
             /\ d = board[i]
             /\ \A j \in RunningOn(board, routes, time) : j < i => MvgTripId(board[j]) # MvgTripId(board[i])
<1> DEFINE S == RunningOn(board, routes, time)
           list == Running(board, routes, time)
<1>1. S \in SUBSET (1..Len(board)) /\ Len(board) \in Nat
  BY DEF IsSequence, RunningOn
<1>2. list = Filtered(board, S)
  BY Zenon DEF Running, RunningOn
<1> HIDE DEF S, list
<1>3. PICK c : Picks(list, board, S, c)
  BY <1>1, <1>2, FilteredPicks
<1>4. /\ Len(list) \in Nat /\ DOMAIN list = 1..Len(list)
      /\ \A k \in 1..Len(list) : c[k] \in S /\ list[k] = board[c[k]]
      /\ \A k, l \in 1..Len(list) : k < l => c[k] < c[l]
      /\ \A i \in S : \E k \in 1..Len(list) : c[k] = i
  BY <1>3 DEF Picks
<1>5. \A i \in S : i \in Nat
  BY <1>1
<1>6. \A k, l \in 1..Len(list) : k < l <=> c[k] < c[l]
  <2> SUFFICES ASSUME NEW k \in 1..Len(list), NEW l \in 1..Len(list), ~(k < l) PROVE ~(c[k] < c[l])
    BY <1>4
  <2>1. k = l \/ l < k
    BY <1>4
  <2>2. c[k] = c[l] \/ c[l] < c[k]
    BY <1>4, <2>1
  <2>3. c[k] \in Nat /\ c[l] \in Nat
    BY <1>4, <1>5
  <2> QED
    BY <2>2, <2>3
<1>7. ASSUME NEW d
      PROVE  d \in DeparturesShown(list) <=>
               \E k \in 1..Len(list) :
                 d = list[k] /\ \A l \in 1..Len(list) : l < k => MvgTripId(list[l]) # MvgTripId(list[k])
  <2>1. \A k \in 1..Len(list) : \A l : l \in 1..(k - 1) <=> l \in 1..Len(list) /\ l < k
    BY <1>4
  <2>2. DeparturesShown(list) =
          {list[k] : k \in {j \in 1..Len(list) : \A l \in 1..(j - 1) : MvgTripId(list[l]) # MvgTripId(list[j])}}
    BY <1>4 DEF DeparturesShown
  <2> QED
    BY <2>1, <2>2
<1>8. ASSUME NEW d
      PROVE  d \in DeparturesShown(list) <=>
               \E i \in S : d = board[i] /\ \A j \in S : j < i => MvgTripId(board[j]) # MvgTripId(board[i])
  <2>1. ASSUME NEW k \in 1..Len(list), d = list[k],
               \A l \in 1..Len(list) : l < k => MvgTripId(list[l]) # MvgTripId(list[k])
        PROVE  \E i \in S : d = board[i] /\ \A j \in S : j < i => MvgTripId(board[j]) # MvgTripId(board[i])
    <3>1. ASSUME NEW j \in S, j < c[k] PROVE MvgTripId(board[j]) # MvgTripId(board[c[k]])
      <4>1. PICK l \in 1..Len(list) : c[l] = j
        BY <1>4
      <4>2. l < k
        BY <1>6, <3>1, <4>1
      <4> QED
        BY <1>4, <2>1, <4>1, <4>2
    <3>2. c[k] \in S /\ d = board[c[k]]
      BY <1>4, <2>1
    <3> QED
      BY <3>1, <3>2
  <2>2. ASSUME NEW i \in S, d = board[i], \A j \in S : j < i => MvgTripId(board[j]) # MvgTripId(board[i])
        PROVE  \E k \in 1..Len(list) :
                 d = list[k] /\ \A l \in 1..Len(list) : l < k => MvgTripId(list[l]) # MvgTripId(list[k])
    <3>1. PICK k \in 1..Len(list) : c[k] = i
      BY <1>4
    <3>2. ASSUME NEW l \in 1..Len(list), l < k PROVE MvgTripId(list[l]) # MvgTripId(list[k])
      <4>1. c[l] \in S /\ c[l] < i
        BY <1>4, <3>1, <3>2
      <4> QED
        BY <1>4, <2>2, <3>1, <4>1
    <3> QED
      BY <1>4, <2>2, <3>1, <3>2
  <2> QED
    BY <1>7, <2>1, <2>2
<1> QED
  BY <1>8 DEF S, list

(* An id tells the line: those of a line are shown for all lines. *)
LEMMA DeparturesOfLine ==
  ASSUME NEW board, IsSequence(board), NEW routes, NEW r \in routes, NEW time
  PROVE  /\ \A d : d \in DeparturesShown(Running(board, {r}, time)) <=>
                     d \in DeparturesShown(Running(board, routes, time)) /\ d.line = r
         /\ \A d \in DeparturesShown(Running(board, routes, time)) : d.line \in routes
<1> DEFINE few == RunningOn(board, {r}, time)
           many == RunningOn(board, routes, time)
           Comes(i, S) == i \in S /\ \A j \in S : j < i => MvgTripId(board[j]) # MvgTripId(board[i])
<1>1. \A i : i \in few <=> i \in many /\ board[i].line = r
  BY DEF RunningOn
<1>2. \A i \in many : board[i].line \in routes
  BY DEF RunningOn
<1>3. \A i, j : MvgTripId(board[i]) = MvgTripId(board[j]) => board[i].line = board[j].line
  BY DEF MvgTripId
<1> HIDE DEF few, many
<1>4. \A i : Comes(i, few) <=> Comes(i, many) /\ board[i].line = r
  BY <1>1, <1>3
<1>5. /\ \A d : d \in DeparturesShown(Running(board, {r}, time)) <=> \E i : Comes(i, few) /\ d = board[i]
      /\ \A d : d \in DeparturesShown(Running(board, routes, time)) <=> \E i : Comes(i, many) /\ d = board[i]
  <2>1. ASSUME NEW rs
        PROVE  \A d : d \in DeparturesShown(Running(board, rs, time))
                       <=> \E i : Comes(i, RunningOn(board, rs, time)) /\ d = board[i]
    <3> DEFINE S == RunningOn(board, rs, time)
               shown == DeparturesShown(Running(board, rs, time))
    <3>1. \A d : d \in shown <=>
            \E i \in S : d = board[i] /\ \A j \in S : j < i => MvgTripId(board[j]) # MvgTripId(board[i])
      BY DeparturesAre
    <3> HIDE DEF S, shown
    <3>2. \A d : d \in shown <=> \E i : Comes(i, S) /\ d = board[i]
      BY <3>1
    <3> QED
      BY <3>2 DEF S, shown
  <2> HIDE DEF Comes
  <2> QED
    BY <2>1, Zenon DEF few, many
<1>6. \A i : Comes(i, many) => board[i].line \in routes
  BY <1>2
<1> HIDE DEF Comes
<1>7. ASSUME NEW d
      PROVE  d \in DeparturesShown(Running(board, {r}, time)) <=>
               d \in DeparturesShown(Running(board, routes, time)) /\ d.line = r
  <2>1. (\E i : Comes(i, few) /\ d = board[i]) <=> (\E i : Comes(i, many) /\ d = board[i]) /\ d.line = r
    BY <1>4
  <2> QED
    BY <1>5, <2>1, Zenon
<1>8. ASSUME NEW d \in DeparturesShown(Running(board, routes, time)) PROVE d.line \in routes
  <2>1. PICK i : Comes(i, many) /\ d = board[i]
    BY <1>5, Zenon
  <2> QED
    BY <1>6, <2>1
<1> QED
  BY <1>7, <1>8, Zenon

(* An MVG feed answers for each pair alone. *)
LEMMA MvgByPair ==
  ASSUME ~TripsOK(Failed), NEW p, p.kind = "mvg",
         NEW n \in Nat, NEW pairs, DOMAIN pairs = 1..n, ProviderOK(p, StopsOf(pairs)),
         ProviderTrips(p, pairs) # Failed
  PROVE  Pairwise(p, pairs)
<1> DEFINE listed(stop, routes) == DeparturesShown(Running(p.boards[stop], routes, now))
           trip(stop, d) == [trip |-> MvgTripId(d), route |-> d.line, stop |-> stop, dir |-> None,
                             arr |-> d.expected, dep |-> d.expected, realtime |-> d.live]
           shown(stop, routes) == {trip(stop, d) : d \in listed(stop, routes)}
           all == ProviderTrips(p, pairs)
           alone(i) == ProviderTrips(p, <<pairs[i]>>)
<1>1. ASSUME NEW ps
      PROVE  /\ ProviderTrips(p, ps) = MvgTrips(p.boards, ps, now)
             /\ ProviderTrips(p, ps) = IF \E stop \in StopsOf(ps) : p.boards[stop] = Failed THEN Failed
                                       ELSE UNION {shown(stop, RoutesAt(ps, stop)) : stop \in StopsOf(ps)}
  <2>1. ProviderTrips(p, ps) = MvgTrips(p.boards, ps, now)
    BY Zenon DEF ProviderTrips
  <2>2. MvgTrips(p.boards, ps, now) =
          IF \E stop \in StopsOf(ps) : p.boards[stop] = Failed THEN Failed
          ELSE UNION {shown(stop, RoutesAt(ps, stop)) : stop \in StopsOf(ps)}
    BY Zenon DEF MvgTrips
  <2> QED
    BY <2>1, <2>2
<1>2. \A stop \in StopsOf(pairs) : LET board == p.boards[stop] IN
        board = Failed \/ (IsSequence(board) /\ \A i \in DOMAIN board : board[i].expected \in Int)
  BY DEF ProviderOK
<1>3. TripsOK(all)
  BY <1>1, <1>2, MvgTripsAre
<1>4. /\ \A stop \in StopsOf(pairs) : p.boards[stop] # Failed
      /\ all = UNION {shown(stop, RoutesAt(pairs, stop)) : stop \in StopsOf(pairs)}
  BY <1>1
<1>5. /\ \A i \in DOMAIN pairs : /\ pairs[i].stop \in StopsOf(pairs)
                                 /\ pairs[i].route \in RoutesAt(pairs, pairs[i].stop)
      /\ \A stop \in StopsOf(pairs) : \A r \in RoutesAt(pairs, stop) :
           \E i \in DOMAIN pairs : pairs[i].stop = stop /\ pairs[i].route = r
  BY RoutesOfStop
<1>6. ASSUME NEW stop \in StopsOf(pairs), NEW r \in RoutesAt(pairs, stop)
      PROVE  /\ \A d : d \in listed(stop, {r}) <=> d \in listed(stop, RoutesAt(pairs, stop)) /\ d.line = r
             /\ \A d \in listed(stop, RoutesAt(pairs, stop)) : d.line \in RoutesAt(pairs, stop)
  <2>1. IsSequence(p.boards[stop])
    BY <1>2, <1>4
  <2> QED
    BY <2>1, DeparturesOfLine
<1>7. ASSUME NEW i \in DOMAIN pairs PROVE alone(i) = shown(pairs[i].stop, {pairs[i].route})
  <2> DEFINE one == <<pairs[i]>>
             stop == pairs[i].stop
  <2>1. StopsOf(one) = {stop} /\ RoutesAt(one, stop) = {pairs[i].route}
    BY OnePair
  <2>2. p.boards[stop] # Failed
    BY <1>4, <1>5
  <2>3. alone(i) = UNION {shown(s, RoutesAt(one, s)) : s \in StopsOf(one)}
    <3>1. ~\E s \in StopsOf(one) : p.boards[s] = Failed
      BY <2>1, <2>2
    <3> QED
      BY <1>1, <3>1
  <2> HIDE DEF one, stop, shown
  <2>4. UNION {shown(s, RoutesAt(one, s)) : s \in StopsOf(one)} = shown(stop, RoutesAt(one, stop))
    BY <2>1
  <2> QED
    BY <2>1, <2>3, <2>4 DEF stop
<1> HIDE DEF listed, trip, all, alone
<1>8. ASSUME NEW t
      PROVE  t \in all <=> \E stop \in StopsOf(pairs) :
               \E d \in listed(stop, RoutesAt(pairs, stop)) : t = trip(stop, d)
  BY <1>4
<1>9. ASSUME NEW t \in all PROVE \E i \in DOMAIN pairs : t \in alone(i)
  <2>1. PICK stop \in StopsOf(pairs) : \E d \in listed(stop, RoutesAt(pairs, stop)) : t = trip(stop, d)
    BY <1>8
  <2>2. PICK d \in listed(stop, RoutesAt(pairs, stop)) : t = trip(stop, d)
    BY <2>1
  <2>3. PICK r : r \in RoutesAt(pairs, stop)
    BY <1>5 DEF StopsOf
  <2>4. d.line \in RoutesAt(pairs, stop)
    BY <1>6, <2>3
  <2>5. d \in listed(stop, {d.line})
    BY <1>6, <2>4
  <2>6. PICK i \in DOMAIN pairs : pairs[i].stop = stop /\ pairs[i].route = d.line
    BY <1>5, <2>4
  <2>7. t \in shown(pairs[i].stop, {pairs[i].route})
    BY <2>2, <2>5, <2>6
  <2> QED
    BY <1>7, <2>7, Zenon
<1>10. ASSUME NEW i \in DOMAIN pairs, NEW t \in alone(i) PROVE t \in all
  <2>1. t \in shown(pairs[i].stop, {pairs[i].route})
    <3> HIDE DEF shown
    <3> QED
      BY <1>7
  <2>2. PICK d \in listed(pairs[i].stop, {pairs[i].route}) : t = trip(pairs[i].stop, d)
    BY <2>1, Zenon
  <2>3. d \in listed(pairs[i].stop, RoutesAt(pairs, pairs[i].stop))
    BY <1>5, <1>6
  <2> QED
    BY <1>5, <1>8, <2>2, <2>3
<1>11. all = UNION {alone(i) : i \in DOMAIN pairs}
  BY <1>9, <1>10
<1> QED
  BY <1>3, <1>11, MadeOfPairs DEF all, alone

-----------------------------------------------------------------------------
(* Asking all feeds. *)

(* What the services answer a request of these pairs with keeps the routes
   apart: no update is about a trip of a route that its endpoint is not for,
   and no OneBusAway server lists a trip under two routes. *)
RoutesApart(p, pairs) ==
  /\ p.kind = "gtfs" => UpdatesApart(p.endpoints, {pairs[i].route : i \in DOMAIN pairs})
  /\ p.kind = "onebusaway" => OneRouteEach(p.boards, StopsOf(pairs))

KeptApart == \A f \in Asked : RoutesApart(feeds[f], AskedPairs(f))

(* Then every kind of provider answers for each pair alone. *)
LEMMA ProviderByPair ==
  ASSUME TableOK, Served, Timely, now \in Int, ~TripsOK(Failed),
         NEW n \in Nat, NEW pairs, DOMAIN pairs = 1..n,
         NEW p, ProviderOK(p, StopsOf(pairs)), RoutesApart(p, pairs), ProviderTrips(p, pairs) # Failed
  PROVE  Pairwise(p, pairs)
<1>1. CASE p.kind = "gtfs"
  <2>1. EndpointsOK(p.endpoints) /\ UpdatesApart(p.endpoints, {pairs[i].route : i \in DOMAIN pairs})
    BY <1>1 DEF ProviderOK, RoutesApart
  <2> QED
    BY <1>1, <2>1, GtfsByPair
<1>2. CASE p.kind = "onebusaway"
  <2>1. OneRouteEach(p.boards, StopsOf(pairs))
    BY <1>2 DEF RoutesApart
  <2> QED
    BY <1>2, <2>1, OneBusAwayByPair
<1>3. CASE p.kind = "hafas"
  BY <1>3, HafasByPair
<1>4. CASE p.kind = "mvg"
  BY <1>4, MvgByPair
<1> QED
  BY <1>1, <1>2, <1>3, <1>4 DEF ProviderOK

(* A trip under global ids is one of the feed. *)
LEMMA GlobalOf ==
  ASSUME NEW trips, TripsOK(trips), NEW f, NEW g \in Globally(f, trips)
  PROVE  \E t \in trips : g.trip = ToGlobalId(f, t.trip) /\ g.arr = t.arr /\ g.dep = t.dep
<1>1. PICK t \in trips : g = [t EXCEPT !.trip = ToGlobalId(f, @), !.route = ToGlobalId(f, @),
                                       !.stop = ToGlobalId(f, @)]
  BY DEF Globally
<1>2. TimedTrip(t)
  BY DEF TripsOK
<1>3. g = [trip |-> ToGlobalId(f, t.trip), route |-> ToGlobalId(f, t.route),
           stop |-> ToGlobalId(f, t.stop), dir |-> t.dir, arr |-> t.arr, dep |-> t.dep,
           realtime |-> t.realtime]
  BY <1>1, <1>2 DEF TimedTrip
<1> QED
  BY <1>3

(* The pair i of a request to all feeds, as its feed knows it. *)
Local(i) == [route |-> request.pairs[i].route.id, stop |-> request.pairs[i].stop.id]

Alone(i) == ProviderTrips(feeds[request.pairs[i].stop.feed], <<Local(i)>>)

(* The feeds that are asked answer pair by pair. *)
LEMMA AskedByPair ==
  ASSUME TypeOK, KeptApart, ~TripsOK(Failed), request.feed = None, "trips" \in DOMAIN UpcomingTrips,
         NEW i \in DOMAIN request.pairs
  PROVE  LET f == request.pairs[i].stop.feed
             all == ProviderTrips(feeds[f], AskedPairs(f))
         IN  /\ TripsOK(all) /\ TripsOK(Alone(i)) /\ Alone(i) # Failed
             /\ \A t \in all : \E j \in DOMAIN request.pairs :
                  request.pairs[j].stop.feed = f /\ t \in Alone(j)
             /\ \A t \in Alone(i) : \E u \in all : u.trip = t.trip /\ u.arr = t.arr /\ u.dep = t.dep
<1> DEFINE f == request.pairs[i].stop.feed
           its == AskedPairs(f)
           all == ProviderTrips(feeds[f], its)
<1>1. f \in Asked /\ all # Failed
  BY AllFeedsAnswer
<1>2. its = PairsOfFeed(request.pairs, f)
  BY DEF AskedPairs
<1>3. Len(request.pairs) \in Nat /\ DOMAIN request.pairs = 1..Len(request.pairs)
  BY DEF TypeOK, RequestOK, IsSequence
<1>4. /\ \E m \in Nat : DOMAIN its = 1..m
      /\ \A k \in DOMAIN its : \E j \in DOMAIN request.pairs :
           request.pairs[j].stop.feed = f /\ its[k] = Local(j)
      /\ \A j \in DOMAIN request.pairs : request.pairs[j].stop.feed = f =>
           \E k \in DOMAIN its : its[k] = Local(j)
  <2>1. PairsFor(its, request.pairs, f)
    <3> HIDE DEF its, f
    <3> QED
      BY <1>2, <1>3, PairsOfFeedAre
  <2> HIDE DEF its, f
  <2> QED
    BY <2>1, Zenon DEF PairsFor, Local
<1>5. TripsOK(all)
  BY <1>1, AskedTripsAre
<1>6. Pairwise(feeds[f], its)
  <2>1. ProviderOK(feeds[f], StopsOf(its)) /\ RoutesApart(feeds[f], its)
    BY <1>1 DEF TypeOK, ProvidersOK, KeptApart
  <2>2. TableOK /\ Served /\ Timely /\ now \in Int
    BY DEF TypeOK
  <2> HIDE DEF its, f
  <2> QED
    BY <1>1, <1>4, <2>1, <2>2, ProviderByPair
<1>7. \A j \in DOMAIN request.pairs : request.pairs[j].stop.feed = f =>
        Alone(j) = ProviderTrips(feeds[f], <<Local(j)>>)
  BY DEF Alone
<1> HIDE DEF its
<1>8. /\ \A k \in DOMAIN its : /\ TripsOK(ProviderTrips(feeds[f], <<its[k]>>))
                               /\ ProviderTrips(feeds[f], <<its[k]>>) # Failed
      /\ \A t \in all : \E k \in DOMAIN its : t \in ProviderTrips(feeds[f], <<its[k]>>)
      /\ \A k \in DOMAIN its : \A t \in ProviderTrips(feeds[f], <<its[k]>>) :
           \E u \in all : u.trip = t.trip /\ u.arr = t.arr /\ u.dep = t.dep
  BY <1>6, Zenon DEF Pairwise
<1> HIDE DEF all, f
<1>9. PICK k \in DOMAIN its : its[k] = Local(i)
  BY <1>4 DEF f
<1>10. Alone(i) = ProviderTrips(feeds[f], <<its[k]>>)
  BY <1>7, <1>9 DEF f
<1>11. ASSUME NEW t \in all
       PROVE  \E j \in DOMAIN request.pairs : request.pairs[j].stop.feed = f /\ t \in Alone(j)
  <2>1. PICK l \in DOMAIN its : t \in ProviderTrips(feeds[f], <<its[l]>>)
    BY <1>8
  <2>2. PICK j \in DOMAIN request.pairs : request.pairs[j].stop.feed = f /\ its[l] = Local(j)
    BY <1>4
  <2>3. t \in Alone(j)
    BY <1>7, <2>1, <2>2
  <2> QED
    BY <2>2, <2>3
<1>12. \A t \in Alone(i) : \E u \in all : u.trip = t.trip /\ u.arr = t.arr /\ u.dep = t.dep
  BY <1>8, <1>10
<1>13. TripsOK(Alone(i)) /\ Alone(i) # Failed
  BY <1>8, <1>10
<1> QED
  BY <1>5, <1>11, <1>12, <1>13 DEF all, its, f

(* And so does the provider of all feeds. *)
LEMMA BoardPairByPair ==
  ASSUME Inv, KeptApart, ~TripsOK(Failed) PROVE PairByPair
<1> SUFFICES ASSUME Answered, request.feed = None
             PROVE  LET alone(i) == ProviderTrips(feeds[request.pairs[i].stop.feed],
                                                  <<[route |-> request.pairs[i].route.id,
                                                     stop |-> request.pairs[i].stop.id]>>)
                        globally(i) == Globally(request.pairs[i].stop.feed, alone(i))
                    IN  /\ \A i \in DOMAIN request.pairs : alone(i) # Failed
                        /\ UpcomingTrips.trips \subseteq UNION {globally(i) : i \in DOMAIN request.pairs}
                        /\ \A i \in DOMAIN request.pairs : \A t \in globally(i) :
                             \E u \in UpcomingTrips.trips : u.trip = t.trip /\ u.arr = t.arr /\ u.dep = t.dep
  BY DEF PairByPair
<1> DEFINE Feed(i) == request.pairs[i].stop.feed
           Of(f) == ProviderTrips(feeds[f], AskedPairs(f))
           globally(i) == Globally(Feed(i), Alone(i))
<1>1. TypeOK /\ "trips" \in DOMAIN UpcomingTrips
  BY DEF Inv, AnswerOK, Answered
<1>2. UpcomingTrips.trips = UNION {Globally(f, Of(f)) : f \in {Feed(i) : i \in DOMAIN request.pairs}}
  BY <1>1, AllFeedsAnswer
<1> DEFINE all == UpcomingTrips.trips
<1>3. \A g : g \in all <=> \E i \in DOMAIN request.pairs : g \in Globally(Feed(i), Of(Feed(i)))
  <2> HIDE DEF Feed, Of, all
  <2> QED
    BY <1>2 DEF all
<1>4. ASSUME NEW i \in DOMAIN request.pairs
      PROVE  /\ TripsOK(Of(Feed(i))) /\ TripsOK(Alone(i)) /\ Alone(i) # Failed
             /\ \A t \in Of(Feed(i)) : \E j \in DOMAIN request.pairs : Feed(j) = Feed(i) /\ t \in Alone(j)
             /\ \A t \in Alone(i) : \E u \in Of(Feed(i)) : u.trip = t.trip /\ u.arr = t.arr /\ u.dep = t.dep
  BY <1>1, AskedByPair
<1> HIDE DEF all, Of, Feed
<1>5. ASSUME NEW g \in all PROVE \E i \in DOMAIN request.pairs : g \in globally(i)
  <2>1. PICK i \in DOMAIN request.pairs : g \in Globally(Feed(i), Of(Feed(i)))
    BY <1>3
  <2>2. PICK t \in Of(Feed(i)) : \A some : t \in some => g \in Globally(Feed(i), some)
    BY <2>1 DEF Globally
  <2>3. PICK j \in DOMAIN request.pairs : Feed(j) = Feed(i) /\ t \in Alone(j)
    BY <1>4
  <2>4. g \in Globally(Feed(j), Alone(j))
    BY <2>2, <2>3
  <2> QED
    BY <2>4
<1>6. ASSUME NEW i \in DOMAIN request.pairs, NEW g \in globally(i)
      PROVE  \E u \in all : u.trip = g.trip /\ u.arr = g.arr /\ u.dep = g.dep
  <2>1. PICK t \in Alone(i) : g.trip = ToGlobalId(Feed(i), t.trip) /\ g.arr = t.arr /\ g.dep = t.dep
    BY <1>4, GlobalOf
  <2>2. PICK u \in Of(Feed(i)) : u.trip = t.trip /\ u.arr = t.arr /\ u.dep = t.dep
    BY <1>4
  <2>3. TimedTrip(u)
    BY <1>4 DEF TripsOK
  <2>4. PICK h \in Globally(Feed(i), Of(Feed(i))) :
          h.trip = ToGlobalId(Feed(i), u.trip) /\ h.arr = u.arr /\ h.dep = u.dep
    BY <2>3, GlobalTrip
  <2>5. h \in all
    BY <1>3
  <2> QED
    BY <2>1, <2>2, <2>4, <2>5
<1>7. all \subseteq UNION {globally(i) : i \in DOMAIN request.pairs}
  BY <1>5
<1>8. \A i \in DOMAIN request.pairs :
        Alone(i) = ProviderTrips(feeds[request.pairs[i].stop.feed],
                                 <<[route |-> request.pairs[i].route.id,
                                    stop |-> request.pairs[i].stop.id]>>)
  BY DEF Alone, Local
<1> QED
  BY <1>4, <1>6, <1>7, Zenon DEF Alone, Local, all, Feed

(* The answers of the services do not change in a scenario, and the
   timetable's trips keep their routes. *)
LEMMA KeptApartKept ==
  ASSUME TypeOK, KeptApart, [Next]_vars PROVE KeptApart'
<1>1. UNCHANGED <<feeds, request>>
  BY DEF Next, vars, Ask, Tick
<1>2. table'.trips = table.trips
  <2>1. CASE UNCHANGED table
    BY <2>1
  <2>2. CASE \/ table' = [table EXCEPT !.stopTimes = [t \in DOMAIN @ |-> FillArrivals(@[t])]]
             \/ table' = [table EXCEPT !.stopTimes = [t \in DOMAIN @ |-> FillDepartures(@[t])]]
    BY <2>2 DEF TypeOK, TableOK
  <2> QED
    BY <2>1, <2>2 DEF Next, vars, Ask, Tick, timetableVars, PostProcess, CheckEmptyArrivals,
                      FailPostProcessing, InterpolateEmptyArrivalTimes, UpdateEmptyDepartureTimes
<1> QED
  BY <1>1, <1>2 DEF KeptApart, RoutesApart, Asked, AskedPairs, UpdatesApart, Names, OneRouteEach, OneRoute

(***************************************************************************)
(* Asking all feeds at once is asking for each pair alone: no feed's ids   *)
(* are taken for another's, no pair is left out of an answer, and asking   *)
(* for more pairs gives none of them more or fewer trips.  A feed's routes *)
(* must be kept apart by the services that are asked: with trip updates of *)
(* another route's endpoint, or a trip under two routes, a pair alone      *)
(* would be told less.  (Failed stands for a request that throws: it is no *)
(* set of trips.)                                                          *)
(***************************************************************************)
THEOREM AllFeedsArePairByPair ==
  ASSUME ~TripsOK(Failed) PROVE Spec /\ KeptApart => []PairByPair
<1>1. Inv /\ KeptApart => PairByPair
  BY BoardPairByPair
<1>2. Inv /\ KeptApart /\ [Next]_vars => KeptApart'
  BY KeptApartKept DEF Inv
<1> QED
  BY <1>1, <1>2, Invariant, PTL DEF Spec
=============================================================================
