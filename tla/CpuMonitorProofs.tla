--------------------------- MODULE CpuMonitorProofs ---------------------------
(***************************************************************************)
(* The window of CpuMonitor for all settings: a timer that is never later  *)
(* than Punctual keeps it ready, and the average of its samples is then    *)
(* near the share of CPU time that was used.                               *)
(*                                                                         *)
(* The invariant relates each sample to the one after it, and the oldest   *)
(* one to the edge of the window: what it measures begins before the       *)
(* window does, or as long ago as anything has been measured.              *)
(***************************************************************************)
EXTENDS CpuMonitor, FiniteSetTheorems, SequenceTheorems, NaturalsInduction, TLAPS

LEMMA LeastNatural ==
  ASSUME NEW S \in SUBSET Nat, S # {}
  PROVE  \E m \in S : \A x \in S : m <= x
<1>1. PICK m \in S : \A x \in S : ~ (<<x, m>> \in OpToRel(<, Nat))
  BY NatLessThanWellFounded, WFMin
<1>2. ASSUME NEW x \in S PROVE m <= x
  <2>1. x \in Nat /\ m \in Nat
    OBVIOUS
  <2>2. <<x, m>> \in Nat \X Nat /\ <<x, m>>[1] = x /\ <<x, m>>[2] = m
    BY <2>1
  <2>3. ~ (<<x, m>>[1] < <<x, m>>[2])
    BY <1>1, <2>2 DEF OpToRel
  <2> QED
    BY <2>1, <2>2, <2>3
<1> QED
  BY <1>2

-----------------------------------------------------------------------------
(* Sums over the samples.  A fold of SequencesExt is defined by a recursive
   function over the sets of indices; what it is for a set is shown from the
   smallest set for which it would be otherwise. *)

Chosen(s) == CHOOSE x \in s : TRUE

IsSum(f, S, g) ==
  g = [s \in SUBSET S |-> IF s = {} THEN 0 ELSE f[Chosen(s)] + g[s \ {Chosen(s)}]]

SumOf(f, S) == CHOOSE g : IsSum(f, S, g)

(* The sum of f[x] over the x of S. *)
Total(f, S) == SumOf(f, S)[S]

(* Every nonempty set of finite sets has one that includes no other. *)
LEMMA SmallestSubset ==
  ASSUME NEW S, IsFiniteSet(S), NEW C \in SUBSET (SUBSET S), C # {}
  PROVE  \E T \in C : \A U \in C : U \subseteq T => U = T
<1>1. IsWellFoundedOn(StrictSubsetOrdering(S), SUBSET S)
  BY FS_StrictSubsetOrderingWellFounded, FS_FiniteSubsetsOfFinite
<1>2. PICK T \in C : \A U \in C : ~ (<<U, T>> \in StrictSubsetOrdering(S))
  BY <1>1, WFMin
<1> QED
  BY <1>2 DEF StrictSubsetOrdering

(* Two such functions agree where both are defined. *)
LEMMA SumsAgree ==
  ASSUME NEW f, NEW S, NEW T, T \subseteq S, IsFiniteSet(T),
         NEW g, IsSum(f, S, g), NEW h, IsSum(f, T, h)
  PROVE  g[T] = h[T]
<1> DEFINE C == {U \in SUBSET T : g[U] # h[U]}
<1>1. CASE C = {}
  BY <1>1
<1>2. CASE C # {}
  <2>1. PICK U \in C : \A V \in C : V \subseteq U => V = U
    <3> HIDE DEF C
    <3>1. C \in SUBSET (SUBSET T)
      BY DEF C
    <3> QED
      BY <1>2, <3>1, SmallestSubset
  <2>2. /\ U \subseteq T /\ U \subseteq S /\ g[U] # h[U]
    BY <2>1
  <2>3. /\ g[U] = IF U = {} THEN 0 ELSE f[Chosen(U)] + g[U \ {Chosen(U)}]
        /\ h[U] = IF U = {} THEN 0 ELSE f[Chosen(U)] + h[U \ {Chosen(U)}]
    BY <2>2 DEF IsSum
  <2>4. U # {} /\ g[U \ {Chosen(U)}] # h[U \ {Chosen(U)}]
    BY <2>2, <2>3
  <2>5. U \ {Chosen(U)} \in C /\ Chosen(U) \in U
    BY <2>2, <2>4 DEF Chosen
  <2> QED
    BY <2>1, <2>5
<1> QED
  BY <1>1, <1>2

LEMMA SumExists ==
  ASSUME NEW f, NEW S, IsFiniteSet(S) PROVE IsSum(f, S, SumOf(f, S))
<1> SUFFICES \E g : IsSum(f, S, g)
  BY DEF SumOf
<1> DEFINE C == {U \in SUBSET S : ~ \E g : IsSum(f, U, g)}
<1>1. CASE C = {}
  BY <1>1
<1>2. CASE C # {}
  <2>1. PICK U \in C : \A V \in C : V \subseteq U => V = U
    <3> HIDE DEF C
    <3>1. C \in SUBSET (SUBSET S)
      BY DEF C
    <3> QED
      BY <1>2, <3>1, SmallestSubset
  <2>2. U \subseteq S /\ ~ \E g : IsSum(f, U, g)
    BY <2>1
  <2>3. ASSUME NEW V, V \subseteq U, V # U PROVE IsSum(f, V, SumOf(f, V)) /\ IsFiniteSet(V)
    <3>1. \E g : IsSum(f, V, g)
      BY <2>1, <2>2, <2>3
    <3>2. IsFiniteSet(V)
      BY <2>2, <2>3, FS_Subset
    <3> QED
      BY <3>1, <3>2 DEF SumOf
  <2> DEFINE Below(s) == f[Chosen(s)] + SumOf(f, s \ {Chosen(s)})[s \ {Chosen(s)}]
             g == [s \in SUBSET U |-> IF s = {} THEN 0 ELSE Below(s)]
  <2>4. ASSUME NEW V \in SUBSET U, V # U PROVE g[V] = SumOf(f, V)[V]
    <3>1. SumOf(f, V)[V] = IF V = {} THEN 0
                           ELSE f[Chosen(V)] + SumOf(f, V)[V \ {Chosen(V)}]
      BY <2>3, <2>4 DEF IsSum
    <3>2. CASE V = {}
      BY <3>1, <3>2
    <3>3. CASE V # {}
      <4>1. /\ V \ {Chosen(V)} \subseteq V /\ V \ {Chosen(V)} \subseteq U
            /\ V \ {Chosen(V)} # U /\ Chosen(V) \in V
        BY <2>4, <3>3 DEF Chosen
      <4>2. SumOf(f, V)[V \ {Chosen(V)}] = SumOf(f, V \ {Chosen(V)})[V \ {Chosen(V)}]
        BY <2>3, <2>4, <4>1, SumsAgree
      <4> QED
        BY <3>1, <3>3, <4>2
    <3> QED
      BY <3>2, <3>3
  <2>5. ASSUME NEW s \in SUBSET U, s # {}
        PROVE  g[s \ {Chosen(s)}] = SumOf(f, s \ {Chosen(s)})[s \ {Chosen(s)}]
    <3>1. s \ {Chosen(s)} \in SUBSET U /\ s \ {Chosen(s)} # U
      BY <2>5 DEF Chosen
    <3> QED
      BY <2>4, <3>1
  <2>6. IsSum(f, U, g)
    <3> DEFINE G == [s \in SUBSET U |-> IF s = {} THEN 0 ELSE f[Chosen(s)] + g[s \ {Chosen(s)}]]
    <3>1. ASSUME NEW s \in SUBSET U PROVE g[s] = G[s]
      BY <2>5
    <3> SUFFICES g = G
      BY Zenon DEF IsSum
    <3>2. DOMAIN g = DOMAIN G /\ DOMAIN g = SUBSET U
      OBVIOUS
    <3>3. g = [s \in SUBSET U |-> g[s]] /\ G = [s \in SUBSET U |-> G[s]]
      OBVIOUS
    <3> HIDE DEF g, G
    <3> QED
      BY <3>1, <3>3
  <2> QED
    BY <2>2, <2>6
<1> QED
  BY <1>1, <1>2

LEMMA TotalStep ==
  ASSUME NEW f, NEW S, IsFiniteSet(S)
  PROVE  /\ S = {} => Total(f, S) = 0
         /\ S # {} => /\ Chosen(S) \in S
                      /\ Total(f, S) = f[Chosen(S)] + Total(f, S \ {Chosen(S)})
<1>1. IsSum(f, S, SumOf(f, S))
  BY SumExists
<1>2. SumOf(f, S)[S] = IF S = {} THEN 0 ELSE f[Chosen(S)] + SumOf(f, S)[S \ {Chosen(S)}]
  BY <1>1 DEF IsSum
<1> DEFINE T == S \ {Chosen(S)}
<1>3. IsFiniteSet(T) /\ T \subseteq S
  BY FS_Subset
<1> HIDE DEF T
<1>4. IsSum(f, T, SumOf(f, T))
  BY <1>3, SumExists
<1>5. SumOf(f, S)[T] = SumOf(f, T)[T]
  BY <1>1, <1>3, <1>4, SumsAgree
<1>6. S # {} => Chosen(S) \in S
  BY DEF Chosen
<1> QED
  BY <1>2, <1>5, <1>6 DEF T, Total

(* The fold that adds the gaps is the sum of them, and so on: it chooses a
   function of the same equation. *)
Gaps == [i \in DOMAIN samples |-> samples[i].gap]

Utilizations == [i \in DOMAIN samples |-> samples[i].utilization]

SumOfUsed == FoldSeq(LAMBDA s, sum : s.utilization * s.gap + sum, 0, samples)

Used == [i \in DOMAIN samples |-> samples[i].utilization * samples[i].gap]

LEMMA CoveredIsTotal ==
  ASSUME IsFiniteSet(DOMAIN samples) PROVE Covered = Total(Gaps, DOMAIN samples)
<1> DEFINE S == DOMAIN samples
           Folds(g) == g = [s \in SUBSET S |-> IF s = {} THEN 0
                              ELSE samples[Chosen(s)].gap + g[s \ {Chosen(s)}]]
<1>1. Covered = (CHOOSE g : Folds(g))[S]
  BY Zenon DEF Covered, FoldSeq, FoldFunction, FoldFunctionOnSet, MapThenFoldSet, Chosen
<1>2. ASSUME NEW g PROVE Folds(g) <=> IsSum(Gaps, S, g)
  <2>1. ASSUME NEW s \in SUBSET S, s # {} PROVE Gaps[Chosen(s)] = samples[Chosen(s)].gap
    BY <2>1 DEF Gaps, Chosen
  <2>2. [s \in SUBSET S |-> IF s = {} THEN 0 ELSE Gaps[Chosen(s)] + g[s \ {Chosen(s)}]] =
        [s \in SUBSET S |-> IF s = {} THEN 0
                              ELSE samples[Chosen(s)].gap + g[s \ {Chosen(s)}]]
    BY <2>1
  <2> QED
    BY <2>2 DEF IsSum
<1> HIDE DEF Folds
<1>3. IsSum(Gaps, S, SumOf(Gaps, S))
  BY SumExists
<1>4. Folds(CHOOSE g : Folds(g))
  BY <1>2, <1>3
<1>5. IsSum(Gaps, S, CHOOSE g : Folds(g))
  BY <1>2, <1>4
<1> QED
  BY <1>1, <1>3, <1>5, SumsAgree DEF Total

LEMMA UtilizationsAreTotal ==
  ASSUME IsFiniteSet(DOMAIN samples) PROVE SumOfUtilizations = Total(Utilizations, DOMAIN samples)
<1> DEFINE S == DOMAIN samples
           Folds(g) == g = [s \in SUBSET S |-> IF s = {} THEN 0
                              ELSE samples[Chosen(s)].utilization + g[s \ {Chosen(s)}]]
<1>1. SumOfUtilizations = (CHOOSE g : Folds(g))[S]
  BY Zenon DEF SumOfUtilizations, FoldSeq, FoldFunction, FoldFunctionOnSet, MapThenFoldSet, Chosen
<1>2. ASSUME NEW g PROVE Folds(g) <=> IsSum(Utilizations, S, g)
  <2>1. ASSUME NEW s \in SUBSET S, s # {} PROVE Utilizations[Chosen(s)] = samples[Chosen(s)].utilization
    BY <2>1 DEF Utilizations, Chosen
  <2>2. [s \in SUBSET S |-> IF s = {} THEN 0 ELSE Utilizations[Chosen(s)] + g[s \ {Chosen(s)}]] =
        [s \in SUBSET S |-> IF s = {} THEN 0
                              ELSE samples[Chosen(s)].utilization + g[s \ {Chosen(s)}]]
    BY <2>1
  <2> QED
    BY <2>2 DEF IsSum
<1> HIDE DEF Folds
<1>3. IsSum(Utilizations, S, SumOf(Utilizations, S))
  BY SumExists
<1>4. Folds(CHOOSE g : Folds(g))
  BY <1>2, <1>3
<1>5. IsSum(Utilizations, S, CHOOSE g : Folds(g))
  BY <1>2, <1>4
<1> QED
  BY <1>1, <1>3, <1>5, SumsAgree DEF Total

LEMMA UsedIsTotal ==
  ASSUME IsFiniteSet(DOMAIN samples) PROVE SumOfUsed = Total(Used, DOMAIN samples)
<1> DEFINE S == DOMAIN samples
           Folds(g) == g = [s \in SUBSET S |-> IF s = {} THEN 0
                              ELSE samples[Chosen(s)].utilization * samples[Chosen(s)].gap + g[s \ {Chosen(s)}]]
<1>1. SumOfUsed = (CHOOSE g : Folds(g))[S]
  BY Zenon DEF SumOfUsed, FoldSeq, FoldFunction, FoldFunctionOnSet, MapThenFoldSet, Chosen
<1>2. ASSUME NEW g PROVE Folds(g) <=> IsSum(Used, S, g)
  <2>1. ASSUME NEW s \in SUBSET S, s # {} PROVE Used[Chosen(s)] = samples[Chosen(s)].utilization * samples[Chosen(s)].gap
    BY <2>1 DEF Used, Chosen
  <2>2. [s \in SUBSET S |-> IF s = {} THEN 0 ELSE Used[Chosen(s)] + g[s \ {Chosen(s)}]] =
        [s \in SUBSET S |-> IF s = {} THEN 0
                              ELSE samples[Chosen(s)].utilization * samples[Chosen(s)].gap + g[s \ {Chosen(s)}]]
    BY <2>1
  <2> QED
    BY <2>2 DEF IsSum
<1> HIDE DEF Folds
<1>3. IsSum(Used, S, SumOf(Used, S))
  BY SumExists
<1>4. Folds(CHOOSE g : Folds(g))
  BY <1>2, <1>3
<1>5. IsSum(Used, S, CHOOSE g : Folds(g))
  BY <1>2, <1>4
<1> QED
  BY <1>1, <1>3, <1>5, SumsAgree DEF Total

-----------------------------------------------------------------------------
(* How old a sample may be when the timer is punctual. *)

Reading == [age : Nat, gap : Gap, utilization : {0, 100}]

Samples == Seq(Reading)

(* Each sample is older than the next by what that one measures. *)
Chained(all) == \A i \in 1..(Len(all) - 1) : all[i].age = all[i + 1].age + all[i + 1].gap

(* No late sample was taken in the last p. *)
NoneLate(all, p) == \A i \in DOMAIN all : all[i].gap > Punctual => p <= all[i].age

(* What is measured begins before the window, or p ago. *)
Reaches(all, p) ==
  IF all = <<>> THEN p = 0
  ELSE all[1].age + all[1].gap > Window \/ p <= all[1].age + all[1].gap

Measures(all, p) ==
  /\ all \in Samples /\ Chained(all) /\ NoneLate(all, p) /\ Reaches(all, p)
  /\ all # <<>> => Last(all).age = 0

WindowInv ==
  /\ punctual \in 0..Settled
  /\ Measures(samples, punctual)
  /\ \A i \in DOMAIN samples : InWindow(samples[i])

LEMMA SamplesAre ==
  ASSUME NEW all \in Samples
  PROVE  /\ Len(all) \in Nat /\ DOMAIN all = 1..Len(all)
         /\ all # <<>> => 1 \in 1..Len(all)
         /\ \A i \in 1..Len(all) :
              /\ all[i] \in Reading /\ all[i].age \in Nat /\ all[i].gap \in Nat
              /\ all[i].gap >= Interval /\ all[i].utilization \in {0, 100}
<1>1. Len(all) \in Nat /\ DOMAIN all = 1..Len(all)
  BY LenProperties DEF Samples
<1>2. all # <<>> => 1 \in 1..Len(all)
  BY EmptySeq DEF Samples
<1>3. ASSUME NEW i \in 1..Len(all) PROVE all[i] \in Reading
  BY ElementOfSeq DEF Samples
<1> QED
  BY <1>1, <1>2, <1>3, CpuAssumption DEF Reading

(* The k-th sample from the end is at most k gaps old. *)
LEMMA AgesAreGaps ==
  ASSUME NEW all \in Samples, Chained(all), all # <<>>, Last(all).age = 0,
         \A i \in DOMAIN all : all[i].gap <= Punctual
  PROVE  all[1].age <= (Len(all) - 1) * Punctual
<1> DEFINE n == Len(all)
           C == {k \in 0..(n - 1) : all[n - k].age > k * Punctual}
<1>1. n \in Nat \ {0} /\ DOMAIN all = 1..n /\ Punctual \in Nat
  BY CpuAssumption, SamplesAre
<1>2. \A i \in 1..n : all[i].age \in Nat /\ all[i].gap \in Nat
  BY SamplesAre
<1>3. C = {}
  <2>1. SUFFICES ASSUME C # {} PROVE FALSE
    OBVIOUS
  <2>2. PICK k \in C : \A m \in C : k <= m
    <3>1. C \in SUBSET Nat
      BY <1>1
    <3> HIDE DEF C
    <3> QED
      BY <2>1, <3>1, LeastNatural
  <2>3. k \in 0..(n - 1) /\ all[n - k].age > k * Punctual
    BY <2>2
  <2>4. k # 0
    BY <1>1, <2>3 DEF Last
  <2>5. k - 1 \in 0..(n - 1) /\ k - 1 \notin C
    <3> HIDE DEF C
    <3> QED
      BY <1>1, <2>2, <2>3, <2>4
  <2>6. ~ (all[n - (k - 1)].age > (k - 1) * Punctual)
    BY <2>5
  <2>7. n - k \in 1..(n - 1) /\ n - (k - 1) = n - k + 1 /\ n - k + 1 \in 1..n
    BY <1>1, <2>3, <2>4
  <2>8. all[n - k].age = all[n - k + 1].age + all[n - k + 1].gap
    BY <2>7 DEF Chained
  <2>9. (k - 1) * Punctual + Punctual = k * Punctual
    BY <1>1, <2>3
  <2>10. /\ all[n - k + 1].age \in Nat /\ all[n - k + 1].gap \in Nat
         /\ all[n - k + 1].gap <= Punctual /\ all[n - k].age \in Nat
    BY <1>1, <1>2, <2>7
  <2>11. (k - 1) * Punctual \in Int /\ k * Punctual \in Int
    BY <1>1, <2>3
  <2>12. all[n - k + 1].age <= (k - 1) * Punctual
    BY <2>6, <2>7, <2>10, <2>11
  <2> HIDE DEF n
  <2> QED
    BY <1>1, <2>3, <2>8, <2>9, <2>10, <2>11, <2>12
<1>4. n - 1 \in 0..(n - 1) /\ n - (n - 1) = 1
  BY <1>1
<1>5. ~ (all[n - (n - 1)].age > (n - 1) * Punctual)
  BY <1>3, <1>4
<1> QED
  BY <1>1, <1>2, <1>4, <1>5

-----------------------------------------------------------------------------
(* One sample more. *)

LEMMA LeastOfTwo ==
  ASSUME NEW a \in Int, NEW b \in Int
  PROVE  Min({a, b}) = IF a <= b THEN a ELSE b
BY DEF Min

LEMMA OlderReading ==
  ASSUME NEW x \in Reading, NEW gap \in Nat
  PROVE  LET y == [x EXCEPT !.age = @ + gap]
         IN  y \in Reading /\ y.age = x.age + gap /\ y.gap = x.gap
<1>1. PICK a \in Nat : a = x.age + gap
  BY DEF Reading
<1>2. [x EXCEPT !.age = a] \in Reading
  BY DEF Reading
<1>3. [x EXCEPT !.age = a].age = a /\ [x EXCEPT !.age = a].gap = x.gap
  BY DEF Reading
<1>4. [x EXCEPT !.age = @ + gap] = [x EXCEPT !.age = a]
  BY <1>1
<1> QED
  BY <1>1, <1>2, <1>3, <1>4

(* All samples are older, and a new one has been added. *)
Follows(more, all, gap) ==
  /\ more \in Samples /\ Len(more) = Len(all) + 1
  /\ more[Len(all) + 1].age = 0 /\ more[Len(all) + 1].gap = gap
  /\ \A i \in 1..Len(all) : more[i].age = all[i].age + gap /\ more[i].gap = all[i].gap

LEMMA OlderAndOne ==
  ASSUME NEW all \in Samples, NEW gap \in Gap, NEW utilization \in {0, 100}
  PROVE  Follows(Append([i \in DOMAIN all |-> [all[i] EXCEPT !.age = @ + gap]],
                        [age |-> 0, gap |-> gap, utilization |-> utilization]), all, gap)
<1> DEFINE n == Len(all)
           older == [i \in DOMAIN all |-> [all[i] EXCEPT !.age = @ + gap]]
           new == [age |-> 0, gap |-> gap, utilization |-> utilization]
<1>1. n \in Nat /\ DOMAIN all = 1..n /\ \A i \in 1..n : all[i] \in Reading
  BY SamplesAre
<1>a. gap \in Nat
  BY CpuAssumption
<1>2. ASSUME NEW i \in 1..n
      PROVE  /\ older[i] \in Reading
             /\ older[i].age = all[i].age + gap /\ older[i].gap = all[i].gap
  <2>1. older[i] = [all[i] EXCEPT !.age = @ + gap]
    BY <1>1, <1>2
  <2>2. all[i] \in Reading
    BY <1>1, <1>2
  <2> HIDE DEF older
  <2> QED
    BY <1>a, <2>1, <2>2, OlderReading
<1>3. older \in [1..n -> Reading]
  BY <1>1, <1>2
<1>4. new \in Reading /\ new.age = 0 /\ new.gap = gap
  BY DEF Reading
<1> HIDE DEF older, new, n
<1>5. older \in Seq(Reading) /\ Len(older) = n
  BY <1>1, <1>3
<1>6. /\ Append(older, new) \in Seq(Reading) /\ Len(Append(older, new)) = n + 1
      /\ Append(older, new)[n + 1] = new
      /\ \A i \in 1..n : Append(older, new)[i] = older[i]
  <2>1. PICK m \in Nat : m = n
    BY <1>1
  <2> QED
    BY <1>4, <1>5, AppendProperties
<1>7. Follows(Append(older, new), all, gap)
  BY <1>2, <1>4, <1>6 DEF Follows, Samples, n
<1> QED
  BY <1>7 DEF older, new

LEMMA OneMore ==
  ASSUME NEW all \in Samples, NEW p \in Nat, Measures(all, p),
         NEW gap \in Nat, NEW more, Follows(more, all, gap),
         NEW q \in Nat, q <= p + gap, gap > Punctual => q = 0
  PROVE  Measures(more, q) /\ more # <<>>
<1> DEFINE n == Len(all)
<1>1. n \in Nat /\ DOMAIN all = 1..n /\ Punctual \in Nat /\ Window \in Nat
  BY CpuAssumption, SamplesAre
<1>2. \A i \in 1..n : all[i].age \in Nat /\ all[i].gap \in Nat
  BY SamplesAre
<1>3. \A i \in 1..n : more[i].age = all[i].age + gap /\ more[i].gap = all[i].gap
  BY DEF Follows
<1>5. more[n + 1].age = 0 /\ more[n + 1].gap = gap
  BY DEF Follows
<1>6. more \in Samples /\ Len(more) = n + 1 /\ DOMAIN more = 1..(n + 1)
  BY SamplesAre DEF Follows
<1> HIDE DEF n
<1>7. more # <<>> /\ Last(more).age = 0
  BY <1>1, <1>5, <1>6 DEF Last
<1>8. Chained(more)
  <2>1. ASSUME NEW i \in 1..n PROVE more[i].age = more[i + 1].age + more[i + 1].gap
    <3>1. CASE i = n
      <4>1. all # <<>> /\ all[n].age = 0
        BY <1>1, <2>1, <3>1, EmptySeq DEF Measures, Last, n
      <4>2. more[n].age = all[n].age + gap /\ more[n + 1].age = 0 /\ more[n + 1].gap = gap
        BY <1>3, <1>5, <1>6, <2>1, <3>1
      <4> QED
        BY <3>1, <4>1, <4>2
    <3>2. CASE i < n
      <4>1. i \in 1..(n - 1) /\ i + 1 \in 1..n
        BY <1>1, <2>1, <3>2
      <4>2. all[i].age = all[i + 1].age + all[i + 1].gap
        BY <4>1 DEF Measures, Chained, n
      <4>3. /\ all[i].age \in Nat /\ all[i + 1].age \in Nat /\ all[i + 1].gap \in Nat
        BY <1>2, <2>1, <4>1
      <4>4. /\ more[i].age = all[i].age + gap
            /\ more[i + 1].age = all[i + 1].age + gap /\ more[i + 1].gap = all[i + 1].gap
        BY <1>3, <1>6, <2>1, <4>1
      <4> QED
        BY <4>2, <4>3, <4>4
    <3> QED
      BY <1>1, <2>1, <3>1, <3>2
  <2>2. Len(more) - 1 = n
    BY <1>1, <1>6
  <2> QED
    BY <2>1, <2>2 DEF Chained
<1>9. NoneLate(more, q)
  <2>1. ASSUME NEW i \in 1..(n + 1), more[i].gap > Punctual PROVE q <= more[i].age
    <3>1. CASE i = n + 1
      BY <1>5, <1>6, <2>1, <3>1
    <3>2. CASE i # n + 1
      <4>1. i \in 1..n
        BY <1>1, <2>1, <3>2
      <4>2. p <= all[i].age /\ all[i].age \in Nat
        BY <1>1, <1>2, <1>3, <1>6, <2>1, <4>1 DEF Measures, NoneLate
      <4> QED
        BY <1>3, <1>6, <4>1, <4>2
    <3> QED
      BY <3>1, <3>2
  <2> QED
    BY <1>6, <2>1 DEF NoneLate
<1>10. Reaches(more, q)
  <2>1. CASE all = <<>>
    <3>1. n = 0 /\ p = 0
      BY <2>1, EmptySeq DEF Measures, Reaches, n
    <3>2. more[1].age = 0 /\ more[1].gap = gap
      BY <1>5, <3>1
    <3> QED
      BY <1>1, <1>5, <1>7, <3>1, <3>2 DEF Reaches
  <2>2. CASE all # <<>>
    <3>1. 1 \in 1..n
      BY <2>2, SamplesAre DEF n
    <3>2. all[1].age + all[1].gap > Window \/ p <= all[1].age + all[1].gap
      BY <2>2 DEF Measures, Reaches
    <3>3. all[1].age \in Nat /\ all[1].gap \in Nat
      BY <3>1, SamplesAre DEF n
    <3>4. more[1].age = all[1].age + gap /\ more[1].gap = all[1].gap
      BY <1>3, <1>6, <3>1
    <3> QED
      BY <1>1, <1>7, <3>2, <3>3, <3>4 DEF Reaches
  <2> QED
    BY <2>1, <2>2
<1> QED
  BY <1>6, <1>7, <1>8, <1>9, <1>10 DEF Measures

(* Those out of the window have been dropped. *)
LEMMA SomeLess ==
  ASSUME NEW all \in Samples, NEW p \in Nat, Measures(all, p),
         NEW first \in DOMAIN all, \A i \in 1..(first - 1) : ~InWindow(all[i])
  PROVE  Measures(SubSeq(all, first, Len(all)), p)
<1> DEFINE n == Len(all)
           rest == SubSeq(all, first, n)
<1>1. n \in Nat /\ DOMAIN all = 1..n /\ first \in 1..n /\ Punctual \in Nat /\ Window \in Nat
  BY CpuAssumption, SamplesAre
<1>2. \A i \in 1..n : all[i] \in Reading
  BY SamplesAre
<1>3. /\ rest \in Samples /\ Len(rest) = n - first + 1 /\ DOMAIN rest = 1..(n - first + 1)
      /\ \A i \in 1..(n - first + 1) : rest[i] = all[first + i - 1]
  <2>1. first \in Int /\ n \in Int /\ first <= n /\ \A i \in first..n : all[i] \in Reading
    BY <1>1, <1>2
  <2> HIDE DEF n
  <2>2. /\ rest \in Seq(Reading) /\ Len(rest) = IF first <= n THEN n - first + 1 ELSE 0
        /\ \A i \in 1..(n - first + 1) : rest[i] = all[first + i - 1]
    BY <2>1, SubSeqProperties
  <2> HIDE DEF rest
  <2> QED
    BY <2>1, <2>2, SamplesAre DEF Samples
<1> HIDE DEF rest
<1>4. rest # <<>> /\ Last(rest) = Last(all) /\ all # <<>>
  BY <1>1, <1>3 DEF Last
<1>5. Chained(rest)
  <2>1. ASSUME NEW i \in 1..(n - first)
        PROVE  rest[i].age = rest[i + 1].age + rest[i + 1].gap
    <3>1. /\ first + i - 1 \in 1..(n - 1) /\ first + (i + 1) - 1 = first + i - 1 + 1
          /\ i \in 1..(n - first + 1) /\ i + 1 \in 1..(n - first + 1)
      BY <1>1, <2>1
    <3>2. rest[i] = all[first + i - 1] /\ rest[i + 1] = all[first + i - 1 + 1]
      BY <1>3, <3>1
    <3> QED
      BY <3>1, <3>2 DEF Measures, Chained
  <2>2. Len(rest) - 1 = n - first
    BY <1>1, <1>3
  <2> QED
    BY <2>1, <2>2 DEF Chained
<1>6. NoneLate(rest, p)
  <2>1. ASSUME NEW i \in DOMAIN rest PROVE \E j \in DOMAIN all : rest[i] = all[j]
    <3>1. i \in 1..(n - first + 1) /\ first + i - 1 \in 1..n
      BY <1>1, <1>3, <2>1
    <3> HIDE DEF n
    <3> QED
      BY <1>1, <1>3, <3>1
  <2> QED
    BY <2>1 DEF Measures, NoneLate
<1>7. Reaches(rest, p)
  <2>1. rest[1] = all[first]
    BY <1>1, <1>3
  <2>2. CASE first = 1
    BY <1>4, <2>1, <2>2 DEF Measures, Reaches
  <2>3. CASE first # 1
    <3>1. /\ first - 1 \in 1..(n - 1) /\ first - 1 \in 1..(first - 1)
          /\ (first - 1) + 1 = first /\ first - 1 \in 1..n
      BY <1>1, <2>3
    <3>2. all[first - 1].age = all[first].age + all[first].gap
      BY <3>1 DEF Measures, Chained
    <3>3. ~ (all[first - 1].age <= Window)
      BY <3>1 DEF InWindow
    <3>4. all[first - 1].age \in Nat
      BY <3>1, SamplesAre
    <3> QED
      BY <1>1, <1>4, <2>1, <3>2, <3>3, <3>4 DEF Reaches
  <2> QED
    BY <2>2, <2>3
<1> QED
  BY <1>3, <1>4, <1>5, <1>6, <1>7 DEF Measures, rest

(* Younger samples are in the window if an older one is. *)
LEMMA YoungerInWindow ==
  ASSUME NEW all \in Samples, Chained(all), NEW first \in DOMAIN all, InWindow(all[first])
  PROVE  \A i \in first..Len(all) : InWindow(all[i])
<1> DEFINE n == Len(all)
           C == {i \in first..n : ~InWindow(all[i])}
<1>1. n \in Nat /\ DOMAIN all = 1..n /\ first \in 1..n /\ Window \in Nat
  BY CpuAssumption, SamplesAre
<1>2. \A i \in 1..n : all[i].age \in Nat /\ all[i].gap \in Nat
  BY SamplesAre
<1>3. SUFFICES ASSUME C # {} PROVE FALSE
  OBVIOUS
<1>4. PICK i \in C : \A j \in C : i <= j
  <2>1. C \in SUBSET Nat
    BY <1>1
  <2> HIDE DEF C
  <2> QED
    BY <1>3, <2>1, LeastNatural
<1>5. i \in first..n /\ i # first /\ ~InWindow(all[i])
  BY <1>4
<1>6. i - 1 \in first..n /\ i - 1 \in 1..(n - 1) /\ i - 1 + 1 = i /\ i \in 1..n /\ i - 1 \in 1..n
  BY <1>1, <1>5
<1>7. InWindow(all[i - 1])
  <2>1. i - 1 \notin C
    BY <1>4, <1>6
  <2> QED
    BY <1>6, <2>1
<1>8. all[i - 1].age = all[i].age + all[i].gap
  BY <1>6 DEF Chained
<1>9. all[i - 1].age \in Nat /\ all[i].age \in Nat /\ all[i].gap \in Nat
  BY <1>2, <1>6
<1> QED
  BY <1>1, <1>5, <1>7, <1>8, <1>9 DEF InWindow

(* A process that used none or all of its CPUs. *)
LEMMA AllOrNothing ==
  ASSUME NEW gap \in Gap, NEW busy \in {0, gap}
  PROVE  Utilization(busy, gap) \in {0, 100}
<1>1. gap \in Nat /\ gap > 0
  BY CpuAssumption
<1>2. (100 * gap) \div gap = 100 /\ (100 * 0) \div gap = 0
  BY <1>1
<1> QED
  BY <1>2 DEF Utilization

LEMMA WindowStep ==
  ASSUME WindowInv, [Next]_vars PROVE WindowInv'
<1>a. /\ punctual \in Nat /\ samples \in Samples /\ Settled \in Nat /\ Punctual \in Nat
      /\ Window \in Nat /\ punctual <= Settled
  BY CpuAssumption DEF WindowInv, Measures, Settled
<1>1. ASSUME NEW gap \in Gap, NEW busy \in {0, gap}, Sample(gap, busy) PROVE WindowInv'
  <2> DEFINE u == Utilization(busy, gap)
             all == Append([i \in DOMAIN samples |-> [samples[i] EXCEPT !.age = @ + gap]],
                           [age |-> 0, gap |-> gap, utilization |-> u])
             q == punctual'
  <2>1. gap \in Nat /\ gap > 0 /\ u \in {0, 100}
    BY CpuAssumption, AllOrNothing
  <2>2. q \in Nat /\ q <= Settled /\ q <= punctual + gap /\ (gap > Punctual => q = 0)
    <3>1. q = IF gap > Punctual THEN 0 ELSE Min({punctual + gap, Settled})
      BY <1>1 DEF Sample
    <3>2. punctual + gap \in Int /\ Settled \in Int
      BY <1>a, <2>1
    <3>3. Min({punctual + gap, Settled}) =
            IF punctual + gap <= Settled THEN punctual + gap ELSE Settled
      BY <3>2, LeastOfTwo
    <3> QED
      BY <1>a, <2>1, <3>1, <3>3
  <2>3. PICK first \in DOMAIN all :
          /\ InWindow(all[first]) /\ \A i \in 1..(first - 1) : ~InWindow(all[i])
          /\ samples' = SubSeq(all, first, Len(all))
    BY <1>1 DEF Sample, Older
  <2> HIDE DEF u
  <2>4. Measures(all, q) /\ all # <<>>
    <3>1. Measures(samples, punctual)
      BY DEF WindowInv
    <3>2. PICK more : more = all
      OBVIOUS
    <3>3. PICK r : r = q
      OBVIOUS
    <3>4. Follows(more, samples, gap)
      BY <1>a, <2>1, <3>2, OlderAndOne
    <3>5. r \in Nat /\ r <= punctual + gap /\ (gap > Punctual => r = 0)
      BY <2>2, <3>3
    <3> HIDE DEF q, all
    <3>6. Measures(more, r) /\ more # <<>>
      BY <1>a, <2>1, <3>1, <3>4, <3>5, OneMore
    <3> QED
      BY <3>2, <3>3, <3>6
  <2> HIDE DEF all
  <2>5. all \in Samples /\ Chained(all)
    BY <2>4 DEF Measures
  <2>6. Measures(samples', q)
    <3>1. PICK r : r = q
      OBVIOUS
    <3> HIDE DEF q
    <3>2. Measures(SubSeq(all, first, Len(all)), r)
      BY <2>2, <2>3, <2>4, <2>5, <3>1, SomeLess
    <3> QED
      BY <2>3, <3>1, <3>2
  <2>7. \A i \in DOMAIN samples' : InWindow(samples'[i])
    <3>1. \A i \in first..Len(all) : InWindow(all[i])
      BY <2>3, <2>5, YoungerInWindow
    <3>2. Len(all) \in Nat /\ first \in 1..Len(all)
      BY <2>3, <2>5, SamplesAre
    <3>3. ASSUME NEW i \in DOMAIN samples'
          PROVE  \E j \in first..Len(all) : samples'[i] = all[j]
      <4>1. \A j \in first..Len(all) : all[j] \in Reading
        BY <2>5, <3>2, SamplesAre
      <4>2. /\ samples' \in Seq(Reading) /\ Len(samples') = Len(all) - first + 1
            /\ \A j \in 1..(Len(all) - first + 1) : samples'[j] = all[first + j - 1]
        BY <2>3, <3>2, <4>1, SubSeqProperties
      <4>3. i \in 1..(Len(all) - first + 1)
        BY <3>3, <4>2, LenProperties
      <4>4. first + i - 1 \in first..Len(all)
        BY <3>2, <4>3
      <4> QED
        BY <4>2, <4>3, <4>4
    <3> QED
      BY <3>1, <3>3
  <2>8. q \in 0..Settled
    BY <1>a, <2>2
  <2>9. Measures(samples, punctual)' <=> Measures(samples', q)
    BY DEF Measures, Chained, NoneLate, Reaches, Last
  <2>10. (\A i \in DOMAIN samples : InWindow(samples[i]))'
    BY <2>7 DEF InWindow
  <2> QED
    BY <2>6, <2>8, <2>9, <2>10 DEF WindowInv, Settled
<1>2. ASSUME UNCHANGED <<samples, punctual>> PROVE WindowInv'
  BY <1>2 DEF WindowInv, Measures, Chained, NoneLate, Reaches, Last, Settled, InWindow
<1> QED
  BY <1>1, <1>2 DEF Next, vars, Stop

LEMMA WindowStart ==
  Init => WindowInv
<1>1. SUFFICES ASSUME Init PROVE WindowInv
  OBVIOUS
<1>2. samples = <<>> /\ punctual = 0 /\ Settled \in Nat
  BY <1>1, CpuAssumption DEF Init, Settled
<1>3. samples \in Samples /\ Len(samples) = 0 /\ DOMAIN samples = {}
  BY <1>2 DEF Samples
<1> QED
  BY <1>2, <1>3 DEF WindowInv, Measures, Chained, NoneLate, Reaches

(* When the timer has long been punctual, so are the samples of the window. *)
LEMMA SettledPunctual ==
  ASSUME Punctual > 0, WindowInv, punctual = Settled
  PROVE  \A i \in DOMAIN samples : samples[i].gap <= Punctual
<1>1. samples \in Samples /\ NoneLate(samples, punctual)
  BY DEF WindowInv, Measures
<1>2. /\ Punctual \in Nat /\ Window \in Nat /\ Interval \in Nat \ {0}
      /\ Settled = Window + Punctual
  BY CpuAssumption DEF Settled
<1>3. ASSUME NEW i \in DOMAIN samples, samples[i].gap > Punctual PROVE FALSE
  <2>1. /\ samples[i].age \in Nat /\ samples[i].gap \in Nat
    BY <1>1, <1>3, SamplesAre
  <2>2. Settled <= samples[i].age
    BY <1>1, <1>3 DEF NoneLate
  <2>3. samples[i].age <= Window
    BY <1>3 DEF WindowInv, InWindow
  <2> QED
    BY <1>2, <2>1, <2>2, <2>3
<1>4. \A i \in DOMAIN samples : samples[i].gap \in Nat
  BY <1>1, SamplesAre
<1> QED
  BY <1>2, <1>3, <1>4

-----------------------------------------------------------------------------

(* A full window that is sampled at least every Punctual counts as ready:
   with the program's defaults of 5 s and 60 s, up to 6.6 s. *)
PunctualSuffices ==
  Punctual > 0 /\ 5 * Interval * (Window \div Punctual + 1) >= 4 * Window

LEMMA FullWindowReady ==
  ASSUME PunctualSuffices, WindowInv PROVE ReadyWhilePunctual
<1>1. SUFFICES ASSUME punctual = Settled PROVE WindowReady
  BY DEF ReadyWhilePunctual
<1> DEFINE n == Len(samples)
<1>2. /\ samples \in Samples /\ Chained(samples) /\ NoneLate(samples, punctual)
      /\ Reaches(samples, punctual) /\ (samples # <<>> => Last(samples).age = 0)
  BY DEF WindowInv, Measures
<1>3. /\ Punctual \in Nat \ {0} /\ Window \in Nat /\ Interval \in Nat
      /\ Settled = Window + Punctual
      /\ n \in Nat /\ DOMAIN samples = 1..n
  BY <1>2, CpuAssumption, SamplesAre DEF Settled, PunctualSuffices
<1>4. samples # <<>>
  BY <1>1, <1>2, <1>3 DEF Reaches
<1>5. \A i \in 1..n : samples[i].age \in Nat /\ samples[i].gap \in Nat
  BY <1>2, SamplesAre
<1>6. \A i \in DOMAIN samples : samples[i].gap <= Punctual
  BY <1>1, <1>3, SettledPunctual
<1>7. samples[1].age <= (n - 1) * Punctual
  BY <1>2, <1>4, <1>6, AgesAreGaps
<1>8. 1 \in 1..n
  BY <1>2, <1>4, SamplesAre
<1>9. samples[1].age + samples[1].gap > Window
  BY <1>1, <1>2, <1>3, <1>4, <1>5, <1>8 DEF Reaches
<1>10. samples[1].age + samples[1].gap <= n * Punctual
  <2>1. samples[1].gap <= Punctual /\ samples[1].age \in Nat /\ samples[1].gap \in Nat
    BY <1>3, <1>5, <1>6, <1>8
  <2>2. (n - 1) * Punctual + Punctual = n * Punctual /\ n * Punctual \in Int
        /\ (n - 1) * Punctual \in Int
        /\ Punctual \in Int
    <3> HIDE DEF n
    <3> QED
      BY <1>3
  <2> HIDE DEF n
  <2> QED
    BY <1>7, <2>1, <2>2
<1>11. n * Punctual > Window
  <2>1. n * Punctual \in Int
    BY <1>3
  <2>2. samples[1].age \in Nat /\ samples[1].gap \in Nat
    BY <1>5, <1>8
  <2> QED
    BY <1>3, <1>9, <1>10, <2>1, <2>2
<1> DEFINE d == Window \div Punctual
<1>12. d \in Nat /\ d * Punctual <= Window
  BY <1>3
<1>13. d + 1 <= n
  <2>1. SUFFICES ASSUME n <= d PROVE FALSE
    BY <1>3, <1>12
  <2> HIDE DEF d, n
  <2>2. n * Punctual <= d * Punctual
    BY <1>3, <1>12, <2>1
  <2> QED
    BY <1>3, <1>11, <1>12, <2>2
<1>14. 5 * Interval * (d + 1) <= 5 * Interval * n
  <2> HIDE DEF d, n
  <2>1. PICK k \in Nat : n = d + 1 + k
    <3>1. n - (d + 1) \in Nat
      BY <1>3, <1>12, <1>13
    <3> QED
      BY <1>3, <1>12, <3>1
  <2>2. Interval * n = Interval * (d + 1) + Interval * k /\ Interval * k \in Nat
    BY <1>3, <1>12, <2>1
  <2> QED
    BY <1>3, <1>12, <2>1, <2>2
<1>15. 5 * n * Interval = 5 * Interval * n
  <2> HIDE DEF n
  <2> QED
    BY <1>3
<1>16. 5 * Interval * (d + 1) >= 4 * Window
  BY DEF PunctualSuffices
<1>17. 5 * Interval * (d + 1) \in Int /\ 5 * Interval * n \in Int
  <2> HIDE DEF d, n
  <2> QED
    BY <1>3, <1>12
<1> QED
  BY <1>3, <1>14, <1>15, <1>16, <1>17 DEF WindowReady

(***************************************************************************)
(* A timer that is late, but never later than Punctual, keeps the window   *)
(* ready once it has filled, for every interval and window for which       *)
(* Punctual is short enough (windowReady counts the samples).              *)
(***************************************************************************)
THEOREM ReadyIfPunctual ==
  ASSUME PunctualSuffices PROVE Spec => []ReadyWhilePunctual
<1>1. WindowInv => ReadyWhilePunctual
  BY FullWindowReady
<1> QED
  BY <1>1, WindowStart, WindowStep, PTL DEF Spec
-----------------------------------------------------------------------------
(* How far the average of a ready window can be from what was used. *)

LEMMA TotalAtLeast ==
  ASSUME NEW S, IsFiniteSet(S), NEW f, NEW least \in Nat,
         \A x \in S : f[x] \in Nat /\ f[x] >= least
  PROVE  Total(f, S) \in Nat /\ Total(f, S) >= Cardinality(S) * least
<1> DEFINE Holds(U) == Total(f, U) \in Nat /\ Total(f, U) >= Cardinality(U) * least
           C == {U \in SUBSET S : ~Holds(U)}
<1>1. SUFFICES ASSUME C # {} PROVE FALSE
  OBVIOUS
<1>2. PICK U \in C : \A V \in C : V \subseteq U => V = U
  <2>1. C \in SUBSET (SUBSET S)
    OBVIOUS
  <2> HIDE DEF C
  <2> QED
    BY <1>1, <2>1, SmallestSubset
<1>3. U \subseteq S /\ ~Holds(U) /\ IsFiniteSet(U)
  BY <1>2, FS_Subset
<1>4. CASE U = {}
  <2>1. Total(f, U) = 0 /\ Cardinality(U) = 0
    BY <1>4, FS_EmptySet, TotalStep
  <2> QED
    BY <1>3, <2>1
<1>5. CASE U # {}
  <2> DEFINE V == U \ {Chosen(U)}
  <2>1. Chosen(U) \in U /\ Total(f, U) = f[Chosen(U)] + Total(f, V)
    BY <1>3, <1>5, TotalStep
  <2>2. Holds(V)
    BY <1>2, <1>3, <2>1
  <2>3. Cardinality(V) = Cardinality(U) - 1 /\ Cardinality(U) \in Nat
    BY <1>3, <2>1, FS_RemoveElement, FS_CardinalityType
  <2>4. f[Chosen(U)] \in Nat /\ f[Chosen(U)] >= least
    BY <1>3, <2>1
  <2>5. (Cardinality(U) - 1) * least + least = Cardinality(U) * least
    BY <2>3
  <2> HIDE DEF V
  <2>6. (Cardinality(U) - 1) * least \in Int /\ Cardinality(U) * least \in Int
    BY <2>3
  <2> QED
    BY <1>3, <2>1, <2>2, <2>3, <2>4, <2>5, <2>6
<1> QED
  BY <1>4, <1>5

(* k samples in which the process used everything, which cover a, and m in
   which it used nothing, which cover b. *)
Parted(gaps, utilizations, used, S, k, m, a, b) ==
  /\ k + m = Cardinality(S)
  /\ Total(gaps, S) = a + b
  /\ Total(utilizations, S) = 100 * k /\ Total(used, S) = 100 * a
  /\ k * Interval <= a /\ a <= k * Punctual
  /\ m * Interval <= b /\ b <= m * Punctual

LEMMA SamplesParted ==
  ASSUME NEW S, IsFiniteSet(S), NEW gaps, NEW utilizations, NEW used,
         \A x \in S : /\ gaps[x] \in Nat /\ Interval <= gaps[x] /\ gaps[x] <= Punctual
                      /\ utilizations[x] \in {0, 100}
                      /\ used[x] = utilizations[x] * gaps[x]
  PROVE  \E k, m, a, b \in Nat : Parted(gaps, utilizations, used, S, k, m, a, b)
<1> DEFINE Holds(U) == \E k, m, a, b \in Nat : Parted(gaps, utilizations, used, U, k, m, a, b)
           C == {U \in SUBSET S : ~Holds(U)}
<1>1. SUFFICES ASSUME C # {} PROVE FALSE
  OBVIOUS
<1>2. PICK U \in C : \A V \in C : V \subseteq U => V = U
  <2>1. C \in SUBSET (SUBSET S)
    OBVIOUS
  <2> HIDE DEF C
  <2> QED
    BY <1>1, <2>1, SmallestSubset
<1>3. U \subseteq S /\ ~Holds(U) /\ IsFiniteSet(U)
  BY <1>2, FS_Subset
<1>4. Interval \in Nat /\ Punctual \in Nat
  BY CpuAssumption
<1>5. CASE U = {}
  <2>1. /\ Total(gaps, U) = 0 /\ Total(utilizations, U) = 0 /\ Total(used, U) = 0
        /\ Cardinality(U) = 0
    BY <1>5, FS_EmptySet, TotalStep
  <2>2. Parted(gaps, utilizations, used, U, 0, 0, 0, 0)
    BY <1>4, <2>1 DEF Parted
  <2> QED
    BY <1>3, <2>2
<1>6. CASE U # {}
  <2> DEFINE x == Chosen(U)
             V == U \ {x}
  <2>1. /\ x \in U
        /\ Total(gaps, U) = gaps[x] + Total(gaps, V)
        /\ Total(utilizations, U) = utilizations[x] + Total(utilizations, V)
        /\ Total(used, U) = used[x] + Total(used, V)
    BY <1>3, <1>6, TotalStep
  <2>2. Holds(V)
    <3>1. V \in SUBSET S /\ V \subseteq U /\ V # U
      BY <1>3, <2>1
    <3>2. V \notin C
      <4> HIDE DEF C, V
      <4> QED
        BY <1>2, <3>1
    <3> QED
      BY <3>1, <3>2
  <2>3. PICK k \in Nat, m \in Nat, a \in Nat, b \in Nat :
          Parted(gaps, utilizations, used, V, k, m, a, b)
    BY <2>2
  <2>4. Cardinality(V) = Cardinality(U) - 1 /\ Cardinality(U) \in Nat
    BY <1>3, <2>1, FS_RemoveElement, FS_CardinalityType
  <2>5. PICK g \in Nat : g = gaps[x]
    BY <1>3, <2>1
  <2>6. /\ Interval <= g /\ g <= Punctual /\ utilizations[x] \in {0, 100}
        /\ used[x] = utilizations[x] * g
    BY <1>3, <2>1, <2>5
  <2>7. /\ (k + 1) * Interval = k * Interval + Interval
        /\ (k + 1) * Punctual = k * Punctual + Punctual
        /\ (m + 1) * Interval = m * Interval + Interval
        /\ (m + 1) * Punctual = m * Punctual + Punctual
        /\ k * Interval \in Int /\ k * Punctual \in Int
        /\ m * Interval \in Int /\ m * Punctual \in Int
    BY <1>4
  <2> HIDE DEF V, x
  <2>8. CASE utilizations[x] = 100
    <3>1. used[x] = 100 * g
      BY <2>6, <2>8
    <3>2. Parted(gaps, utilizations, used, U, k + 1, m, a + g, b)
      BY <1>4, <2>1, <2>3, <2>4, <2>5, <2>6, <2>7, <2>8, <3>1 DEF Parted
    <3> QED
      BY <1>3, <3>2
  <2>9. CASE utilizations[x] = 0
    <3>1. used[x] = 0
      BY <2>6, <2>9
    <3>2. Parted(gaps, utilizations, used, U, k, m + 1, a, b + g)
      BY <1>4, <2>1, <2>3, <2>4, <2>5, <2>6, <2>7, <2>9, <3>1 DEF Parted
    <3> QED
      BY <1>3, <3>2
  <2> QED
    BY <2>6, <2>8, <2>9
<1> QED
  BY <1>5, <1>6

(* An error of 100 * (r - 1) / (r + 1), where r * r = Punctual / Interval: with
   an interval of 5 s that is at most 6.6 s, 7 percentage points.  It is
   reached when the samples of one kind are all Punctual long, those of the
   other Interval, and there are r times as many of these. *)
ErrorSuffices ==
  /\ Punctual > 0
  /\ LET c == 100 * (Punctual - Interval) - MaxError * (Interval + Punctual)
     IN  c <= 0 \/ c * c <= 4 * MaxError * MaxError * Interval * Punctual

(* A quadratic form without a positive discriminant is not negative. *)
LEMMA NotNegative ==
  ASSUME NEW p \in Nat, NEW q \in Nat, NEW c \in Int, NEW k \in Nat, NEW m \in Nat,
         c <= 0 \/ c * c <= 4 * (p * q)
  PROVE  p * (k * k) - c * (k * m) + q * (m * m) >= 0
<1> DEFINE form == p * (k * k) - c * (k * m) + q * (m * m)
<1>1. k * k \in Nat /\ k * m \in Nat /\ m * m \in Nat
  OBVIOUS
<1>2. CASE c <= 0
  <2>1. p * (k * k) >= 0 /\ q * (m * m) >= 0 /\ (-c) * (k * m) >= 0
    BY <1>1, <1>2
  <2>2. (-c) * (k * m) = -(c * (k * m))
    BY <1>1
  <2> QED
    BY <1>1, <2>1, <2>2
<1>3. CASE c > 0 /\ c * c <= 4 * (p * q)
  <2>1. p > 0
    <3>1. c * c > 0
      BY <1>3
    <3>2. p # 0
      BY <1>3, <3>1
    <3> QED
      BY <3>2
  <2>2. 4 * p * form = (2 * p * k - c * m) * (2 * p * k - c * m) + (4 * (p * q) - c * c) * (m * m)
    OBVIOUS
  <2>3. (2 * p * k - c * m) * (2 * p * k - c * m) >= 0
    OBVIOUS
  <2>4. (4 * (p * q) - c * c) * (m * m) >= 0
    BY <1>1, <1>3
  <2>5. 4 * p * form >= 0
    BY <2>2, <2>3, <2>4
  <2>6. form \in Int
    OBVIOUS
  <2> HIDE DEF form
  <2>7. form >= 0
    BY <2>1, <2>5, <2>6
  <2> QED
    BY <2>7 DEF form
<1> QED
  BY <1>2, <1>3

LEMMA WeightsNear ==
  ASSUME ErrorSuffices,
         NEW k \in Nat, NEW m \in Nat, NEW a \in Nat, NEW b \in Nat,
         k * Interval <= a, b <= m * Punctual
  PROVE  100 * (k * b - m * a) <= MaxError * (k + m) * (a + b)
<1> DEFINE I == Interval
           P == Punctual
           E == MaxError
           u == 100 * k - E * (k + m)
           v == 100 * m + E * (k + m)
<1>1. I \in Nat /\ P \in Nat /\ E \in Nat
  BY CpuAssumption
<1>2. u \in Int /\ v \in Nat /\ k * I \in Nat /\ m * P \in Nat
  BY <1>1
<1>3. E * (k + m) * (a + b) - 100 * (k * b - m * a) = a * v - b * u
  BY <1>1
<1>4. a * v - b * u >= 0
  <2>1. CASE u <= 0
    <3>1. a * v >= 0 /\ b * (-u) >= 0 /\ b * (-u) = -(b * u)
      BY <1>2, <2>1
    <3> HIDE DEF u, v
    <3>2. a * v \in Int /\ b * u \in Int
      BY <1>2
    <3> QED
      BY <3>1, <3>2
  <2>2. CASE u > 0
    <3> DEFINE c == 100 * (P - I) - E * (I + P)
    <3>1. (k * I) * v - (m * P) * u = (E * I) * (k * k) - c * (k * m) + (E * P) * (m * m)
      BY <1>1
    <3>2. c <= 0 \/ c * c <= 4 * ((E * I) * (E * P))
      <4>1. 4 * E * E * I * P = 4 * ((E * I) * (E * P))
        BY <1>1
      <4> QED
        BY <4>1 DEF ErrorSuffices
    <3>3. E * I \in Nat /\ E * P \in Nat /\ c \in Int
      BY <1>1
    <3>4. (E * I) * (k * k) - c * (k * m) + (E * P) * (m * m) >= 0
      <4> HIDE DEF c, E, I, P
      <4>1. PICK p \in Nat, q \in Nat : p = E * I /\ q = E * P
        BY <3>3
      <4>2. c <= 0 \/ c * c <= 4 * (p * q)
        BY <3>2, <4>1
      <4> QED
        BY <3>3, <4>1, <4>2, NotNegative
    <3> HIDE DEF u, v, c, I, P, E
    <3>5. (k * I) * v <= a * v
      BY <1>2 DEF I
    <3>6. b * u <= (m * P) * u
      BY <1>2, <2>2 DEF P
    <3>7. /\ (k * I) * v \in Int /\ a * v \in Int /\ b * u \in Int /\ (m * P) * u \in Int
      BY <1>2
    <3> QED
      BY <3>1, <3>4, <3>5, <3>6, <3>7
  <2> QED
    BY <1>2, <2>1, <2>2
<1>5. E * (k + m) * (a + b) \in Int /\ 100 * (k * b - m * a) \in Int
  BY <1>1
<1>6. a * v - b * u \in Int
  BY <1>2
<1> HIDE DEF u, v
<1> QED
  BY <1>3, <1>4, <1>5, <1>6

(* Rounding down brings two numbers no further apart than a whole number. *)
LEMMA FloorsNear ==
  ASSUME NEW x \in Nat, NEW y \in Nat, NEW n \in Nat \ {0}, NEW c \in Nat \ {0},
         NEW e \in Nat, x * c <= y * n + e * (n * c)
  PROVE  x \div n <= (y \div c) + e
<1> DEFINE q == x \div n
           r == y \div c
<1>1. q \in Nat /\ q * n <= x
  OBVIOUS
<1>2. r \in Nat /\ y < (r + 1) * c
  OBVIOUS
<1> HIDE DEF q, r
<1>3. SUFFICES ASSUME q >= r + 1 + e PROVE FALSE
  BY <1>1, <1>2 DEF q, r
<1>4. PICK d \in Nat : q = r + 1 + e + d
  <2>1. q - (r + 1 + e) \in Nat
    BY <1>1, <1>2, <1>3
  <2> QED
    BY <1>1, <1>2, <2>1
<1>5. (q * n) * c <= x * c
  BY <1>1
<1>6. y * n < ((r + 1) * c) * n
  BY <1>2
<1>7. (q * n) * c = ((r + 1) * c) * n + e * (n * c) + d * (n * c)
  BY <1>2, <1>4
<1>8. d * (n * c) >= 0
  <2>1. n * c \in Nat
    OBVIOUS
  <2> QED
    BY <2>1
<1>9. /\ (q * n) * c \in Int /\ x * c \in Int /\ y * n \in Int /\ ((r + 1) * c) * n \in Int
      /\ e * (n * c) \in Int /\ d * (n * c) \in Int
  BY <1>1, <1>2
<1> QED
  BY <1>5, <1>6, <1>7, <1>8, <1>9

(***************************************************************************)
(* The average of a window whose samples are all at most Punctual apart is *)
(* within MaxError of the share of CPU time that was used.                 *)
(***************************************************************************)
LEMMA AverageNear ==
  ASSUME ErrorSuffices, samples \in Samples, samples # <<>>,
         \A i \in DOMAIN samples : samples[i].gap <= Punctual
  PROVE  AverageUtilization - TrueUtilization \in (-MaxError)..MaxError
<1> DEFINE n == Len(samples)
           S == DOMAIN samples
<1>1. n \in Nat /\ n > 0 /\ S = 1..n /\ Interval \in Nat \ {0} /\ MaxError \in Nat
  BY SamplesAre, CpuAssumption
<1>2. IsFiniteSet(S) /\ Cardinality(S) = n
  BY <1>1, FS_Interval
<1>3. ASSUME NEW x \in S
      PROVE  /\ Gaps[x] \in Nat /\ Interval <= Gaps[x] /\ Gaps[x] <= Punctual
             /\ Utilizations[x] \in {0, 100} /\ Used[x] = Utilizations[x] * Gaps[x]
  <2>1. /\ Gaps[x] = samples[x].gap /\ Utilizations[x] = samples[x].utilization
        /\ Used[x] = samples[x].utilization * samples[x].gap
    BY <1>3 DEF Gaps, Utilizations, Used
  <2>2. /\ samples[x].gap \in Nat /\ samples[x].gap >= Interval
        /\ samples[x].utilization \in {0, 100}
    BY <1>1, <1>3, SamplesAre
  <2> QED
    BY <1>1, <1>3, <2>1, <2>2
<1>4. PICK k \in Nat, m \in Nat, a \in Nat, b \in Nat :
        Parted(Gaps, Utilizations, Used, S, k, m, a, b)
  <2> HIDE DEF S
  <2> QED
    BY <1>2, <1>3, SamplesParted
<1>5. Covered = a + b /\ SumOfUtilizations = 100 * k /\ SumOfUsed = 100 * a /\ k + m = n
  BY <1>2, <1>4, CoveredIsTotal, UtilizationsAreTotal, UsedIsTotal DEF Parted
<1>6. a + b > 0
  <2>1. k * Interval <= a /\ m * Interval <= b
    BY <1>4 DEF Parted
  <2>2. (k + m) * Interval = k * Interval + m * Interval /\ (k + m) * Interval > 0
    BY <1>1, <1>5
  <2>3. k * Interval \in Int /\ m * Interval \in Int
    BY <1>1
  <2> QED
    BY <2>1, <2>2, <2>3
<1>7. /\ 100 * (k * b - m * a) <= MaxError * (k + m) * (a + b)
      /\ 100 * (m * a - k * b) <= MaxError * (k + m) * (a + b)
  <2>1. /\ k * Interval <= a /\ a <= k * Punctual /\ m * Interval <= b /\ b <= m * Punctual
    BY <1>4 DEF Parted
  <2>2. 100 * (k * b - m * a) <= MaxError * (k + m) * (a + b)
    BY <2>1, WeightsNear
  <2>3. 100 * (m * a - k * b) <= MaxError * (m + k) * (b + a)
    BY <2>1, WeightsNear
  <2>4. m + k = k + m /\ b + a = a + b
    OBVIOUS
  <2> QED
    BY <2>2, <2>3, <2>4
<1> DEFINE c == a + b
<1>8. /\ (100 * k) * c <= (100 * a) * n + MaxError * (n * c)
      /\ (100 * a) * n <= (100 * k) * c + MaxError * (c * n)
  <2>1. /\ 100 * (k * b - m * a) = (100 * k) * (a + b) - (100 * a) * (k + m)
        /\ 100 * (m * a - k * b) = (100 * a) * (k + m) - (100 * k) * (a + b)
        /\ MaxError * (k + m) * (a + b) = MaxError * ((k + m) * (a + b))
        /\ (k + m) * (a + b) = (a + b) * (k + m)
    BY <1>1
  <2>2. /\ (100 * k) * (a + b) \in Int /\ (100 * a) * (k + m) \in Int
        /\ MaxError * ((k + m) * (a + b)) \in Int
    BY <1>1
  <2>3. /\ (100 * k) * (a + b) <= (100 * a) * (k + m) + MaxError * ((k + m) * (a + b))
        /\ (100 * a) * (k + m) <= (100 * k) * (a + b) + MaxError * ((k + m) * (a + b))
    BY <1>7, <2>1, <2>2
  <2> QED
    BY <1>5, <2>1, <2>3
<1>9. (100 * k) \div n <= ((100 * a) \div c) + MaxError
  <2>1. 100 * k \in Nat /\ 100 * a \in Nat /\ c \in Nat \ {0} /\ n \in Nat \ {0}
    BY <1>1, <1>6
  <2> HIDE DEF c, n
  <2> QED
    BY <1>1, <1>8, <2>1, FloorsNear
<1>10. (100 * a) \div c <= ((100 * k) \div n) + MaxError
  <2>1. 100 * k \in Nat /\ 100 * a \in Nat /\ c \in Nat \ {0} /\ n \in Nat \ {0}
    BY <1>1, <1>6
  <2> HIDE DEF c, n
  <2> QED
    BY <1>1, <1>8, <2>1, FloorsNear
<1>11. AverageUtilization = (100 * k) \div n /\ TrueUtilization = (100 * a) \div c
  BY <1>5 DEF AverageUtilization, TrueUtilization, SumOfUsed
<1>12. (100 * k) \div n \in Int /\ (100 * a) \div c \in Int
  BY <1>1, <1>6
<1> HIDE DEF n, c
<1> QED
  BY <1>1, <1>9, <1>10, <1>11, <1>12

LEMMA ReadyIsCovered ==
  ASSUME samples \in Samples, samples # <<>>, WindowReady
  PROVE  5 * Covered >= 4 * Window
<1> DEFINE n == Len(samples)
<1>1. n \in Nat /\ DOMAIN samples = 1..n /\ Interval \in Nat /\ Window \in Nat
  BY SamplesAre, CpuAssumption
<1>2. IsFiniteSet(DOMAIN samples) /\ Cardinality(DOMAIN samples) = n
  BY <1>1, FS_Interval
<1>3. \A x \in DOMAIN samples : Gaps[x] \in Nat /\ Gaps[x] >= Interval
  BY <1>1, SamplesAre DEF Gaps
<1>4. Covered \in Nat /\ Covered >= n * Interval
  BY <1>1, <1>2, <1>3, CoveredIsTotal, TotalAtLeast
<1>5. 5 * n * Interval = 5 * (n * Interval) /\ n * Interval \in Int
  <2> HIDE DEF n
  <2> QED
    BY <1>1
<1>6. 5 * n * Interval >= 4 * Window
  BY DEF WindowReady
<1> QED
  BY <1>1, <1>4, <1>5, <1>6

(***************************************************************************)
(* Whatever the interval, the window and the samples that found the CPU    *)
(* busy or idle, a ready window speaks for at least four fifths of its     *)
(* time, and with a timer that is never later than Punctual the plain      *)
(* average of its samples (evaluate reads nothing else) is within MaxError *)
(* points of the share of CPU time that was used.                          *)
(***************************************************************************)
THEOREM ReadyIsMeasured ==
  ASSUME ErrorSuffices PROVE Spec => []ReadyMeansMeasured
<1>1. WindowInv => ReadyMeansMeasured
  <2>1. SUFFICES ASSUME WindowInv, WindowReady, samples # <<>>
                 PROVE  /\ 5 * Covered >= 4 * Window
                        /\ \A i \in DOMAIN samples : samples[i].utilization \in 0..100
                        /\ punctual = Settled =>
                             AverageUtilization - TrueUtilization \in (-MaxError)..MaxError
    BY DEF ReadyMeansMeasured
  <2>2. samples \in Samples
    BY <2>1 DEF WindowInv, Measures
  <2>3. 5 * Covered >= 4 * Window
    BY <2>1, <2>2, ReadyIsCovered
  <2>4. \A i \in DOMAIN samples : samples[i].utilization \in 0..100
    <3>1. \A i \in DOMAIN samples : samples[i].utilization \in {0, 100}
      BY <2>2, SamplesAre
    <3>2. {0, 100} \subseteq 0..100
      OBVIOUS
    <3> QED
      BY <3>1, <3>2
  <2>5. ASSUME punctual = Settled
        PROVE  AverageUtilization - TrueUtilization \in (-MaxError)..MaxError
    BY <2>1, <2>2, <2>5, SettledPunctual, AverageNear DEF ErrorSuffices
  <2> QED
    BY <2>3, <2>4, <2>5
<1> QED
  BY <1>1, WindowStart, WindowStep, PTL DEF Spec
===============================================================================
