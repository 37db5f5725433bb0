---------------------- MODULE ConnectionSheddingProofs ----------------------
(***************************************************************************)
(* Proofs about ConnectionShedding for any finite set of machines, any     *)
(* settings and any number of clients: no client is lost or counted twice  *)
(* (the types of the counters rest on it), and no shedding goes below the  *)
(* floor.                                                                  *)
(*                                                                         *)
(* The sums of the module are folds of MapThenSumSet, which is defined by  *)
(* a recursive function.  What it is for a set is shown from the smallest  *)
(* set for which it would be otherwise.                                    *)
(***************************************************************************)
EXTENDS ConnectionShedding, FiniteSetTheorems, WellFoundedInduction, TLAPS

-----------------------------------------------------------------------------
(* Sums over finite sets. *)

Total(f, S) == MapThenSumSet(LAMBDA j : f[j], S)

Chosen(s) == CHOOSE x \in s : TRUE

(* The function that Total(f, S) applies to S.                              *)
IsSum(f, S, g) ==
  g = [s \in SUBSET S |-> IF s = {} THEN 0 ELSE f[Chosen(s)] + g[s \ {Chosen(s)}]]

SumOf(f, S) == CHOOSE g : IsSum(f, S, g)

(* Every nonempty set of finite sets has one that includes no other.        *)
LEMMA SmallestSubset ==
  ASSUME NEW S, IsFiniteSet(S), NEW C \in SUBSET (SUBSET S), C # {}
  PROVE  \E T \in C : \A U \in C : U \subseteq T => U = T
<1>1. IsWellFoundedOn(StrictSubsetOrdering(S), SUBSET S)
  BY FS_StrictSubsetOrderingWellFounded, FS_FiniteSubsetsOfFinite
<1>2. PICK T \in C : \A U \in C : ~ (<<U, T>> \in StrictSubsetOrdering(S))
  BY <1>1, WFMin
<1> QED
  BY <1>2 DEF StrictSubsetOrdering

LEMMA TotalIsSum ==
  ASSUME NEW f, NEW S PROVE Total(f, S) = SumOf(f, S)[S]
BY DEF Total, MapThenSumSet, MapThenFoldSet, SumOf, IsSum, Chosen

(* Two such functions agree where both are defined.                         *)
LEMMA SumsAgree ==
  ASSUME NEW f, NEW S, NEW T, T \subseteq S, IsFiniteSet(T),
         NEW g, IsSum(f, S, g), NEW h, IsSum(f, T, h)
  PROVE  g[T] = h[T]
<1> DEFINE C == {U \in SUBSET T : g[U] # h[U]}
<1>1. CASE C = {}
  BY <1>1
<1>2. CASE C # {}
  <2>1. PICK U \in C : \A V \in C : V \subseteq U => V = U
    <3> HIDE DEF C
    <3>1. C \in SUBSET (SUBSET T)
      BY DEF C
    <3> QED
      BY <1>2, <3>1, SmallestSubset
  <2>2. /\ U \subseteq T /\ U \subseteq S /\ g[U] # h[U]
    BY <2>1
  <2>3. /\ g[U] = IF U = {} THEN 0 ELSE f[Chosen(U)] + g[U \ {Chosen(U)}]
        /\ h[U] = IF U = {} THEN 0 ELSE f[Chosen(U)] + h[U \ {Chosen(U)}]
    BY <2>2 DEF IsSum
  <2>4. U # {} /\ g[U \ {Chosen(U)}] # h[U \ {Chosen(U)}]
    BY <2>2, <2>3
  <2>5. U \ {Chosen(U)} \in C /\ Chosen(U) \in U
    BY <2>2, <2>4 DEF Chosen
  <2> QED
    BY <2>1, <2>5
<1> QED
  BY <1>1, <1>2

LEMMA SumExists ==
  ASSUME NEW f, NEW S, IsFiniteSet(S) PROVE IsSum(f, S, SumOf(f, S))
<1> SUFFICES \E g : IsSum(f, S, g)
  BY DEF SumOf
<1> DEFINE C == {U \in SUBSET S : ~ \E g : IsSum(f, U, g)}
<1>1. CASE C = {}
  BY <1>1
<1>2. CASE C # {}
  <2>1. PICK U \in C : \A V \in C : V \subseteq U => V = U
    <3> HIDE DEF C
    <3>1. C \in SUBSET (SUBSET S)
      BY DEF C
    <3> QED
      BY <1>2, <3>1, SmallestSubset
  <2>2. U \subseteq S /\ ~ \E g : IsSum(f, U, g)
    BY <2>1
  <2>3. ASSUME NEW V, V \subseteq U, V # U PROVE IsSum(f, V, SumOf(f, V)) /\ IsFiniteSet(V)
    <3>1. \E g : IsSum(f, V, g)
      BY <2>1, <2>2, <2>3
    <3>2. IsFiniteSet(V)
      BY <2>2, <2>3, FS_Subset
    <3> QED
      BY <3>1, <3>2 DEF SumOf
  <2> DEFINE Below(s) == f[Chosen(s)] + SumOf(f, s \ {Chosen(s)})[s \ {Chosen(s)}]
             g == [s \in SUBSET U |-> IF s = {} THEN 0 ELSE Below(s)]
  <2>4. ASSUME NEW V \in SUBSET U, V # U PROVE g[V] = SumOf(f, V)[V]
    <3>1. SumOf(f, V)[V] = IF V = {} THEN 0
                           ELSE f[Chosen(V)] + SumOf(f, V)[V \ {Chosen(V)}]
      BY <2>3, <2>4 DEF IsSum
    <3>2. CASE V = {}
      BY <3>1, <3>2
    <3>3. CASE V # {}
      <4>1. /\ V \ {Chosen(V)} \subseteq V /\ V \ {Chosen(V)} \subseteq U
            /\ V \ {Chosen(V)} # U /\ Chosen(V) \in V
        BY <2>4, <3>3 DEF Chosen
      <4>2. SumOf(f, V)[V \ {Chosen(V)}] = SumOf(f, V \ {Chosen(V)})[V \ {Chosen(V)}]
        BY <2>3, <2>4, <4>1, SumsAgree
      <4> QED
        BY <3>1, <3>3, <4>2
    <3> QED
      BY <3>2, <3>3
  <2>5. ASSUME NEW s \in SUBSET U, s # {}
        PROVE  g[s \ {Chosen(s)}] = SumOf(f, s \ {Chosen(s)})[s \ {Chosen(s)}]
    <3>1. s \ {Chosen(s)} \in SUBSET U /\ s \ {Chosen(s)} # U
      BY <2>5 DEF Chosen
    <3> QED
      BY <2>4, <3>1
  <2>6. IsSum(f, U, g)
    <3> DEFINE G == [s \in SUBSET U |-> IF s = {} THEN 0 ELSE f[Chosen(s)] + g[s \ {Chosen(s)}]]
    <3>1. ASSUME NEW s \in SUBSET U PROVE g[s] = G[s]
      BY <2>5
    <3> SUFFICES g = G
      BY Zenon DEF IsSum
    <3>2. DOMAIN g = DOMAIN G /\ DOMAIN g = SUBSET U
      OBVIOUS
    <3>3. g = [s \in SUBSET U |-> g[s]] /\ G = [s \in SUBSET U |-> G[s]]
      OBVIOUS
    <3> HIDE DEF g, G
    <3> QED
      BY <3>1, <3>3
  <2> QED
    BY <2>2, <2>6
<1> QED
  BY <1>1, <1>2

LEMMA TotalStep ==
  ASSUME NEW f, NEW S, IsFiniteSet(S)
  PROVE  /\ S = {} => Total(f, S) = 0
         /\ S # {} => /\ Chosen(S) \in S
                      /\ Total(f, S) = f[Chosen(S)] + Total(f, S \ {Chosen(S)})
<1>1. IsSum(f, S, SumOf(f, S))
  BY SumExists
<1>2. SumOf(f, S)[S] = IF S = {} THEN 0 ELSE f[Chosen(S)] + SumOf(f, S)[S \ {Chosen(S)}]
  BY <1>1 DEF IsSum
<1> DEFINE T == S \ {Chosen(S)}
<1>3. IsFiniteSet(T) /\ T \subseteq S
  BY FS_Subset
<1> HIDE DEF T
<1>4. IsSum(f, T, SumOf(f, T))
  BY <1>3, SumExists
<1>5. SumOf(f, S)[T] = SumOf(f, T)[T]
  BY <1>1, <1>3, <1>4, SumsAgree
<1>6. S # {} => Chosen(S) \in S
  BY DEF Chosen
<1> QED
  BY <1>2, <1>5, <1>6, TotalIsSum DEF T

(* A sum of naturals is a natural.                                          *)
LEMMA TotalType ==
  ASSUME NEW S, IsFiniteSet(S), NEW f, \A x \in S : f[x] \in Nat
  PROVE  Total(f, S) \in Nat
<1> DEFINE C == {U \in SUBSET S : Total(f, U) \notin Nat}
<1>1. CASE C = {}
  BY <1>1
<1>2. CASE C # {}
  <2>1. PICK U \in C : \A V \in C : V \subseteq U => V = U
    <3> HIDE DEF C
    <3>1. C \in SUBSET (SUBSET S)
      BY DEF C
    <3> QED
      BY <1>2, <3>1, SmallestSubset
  <2>2. U \subseteq S /\ Total(f, U) \notin Nat /\ IsFiniteSet(U)
    BY <2>1, FS_Subset
  <2>0. U # {}
    <3>1. U = {} => Total(f, U) = 0
      BY <2>2, TotalStep
    <3> QED
      BY <2>2, <3>1
  <2>3. Chosen(U) \in U /\ Total(f, U) = f[Chosen(U)] + Total(f, U \ {Chosen(U)})
    BY <2>0, <2>2, TotalStep
  <2>4. Total(f, U \ {Chosen(U)}) \in Nat
    BY <2>1, <2>2, <2>3
  <2> QED
    BY <2>2, <2>3, <2>4
<1> QED
  BY <1>1, <1>2

(* Any term can be taken first.                                             *)
LEMMA TotalRemove ==
  ASSUME NEW S, IsFiniteSet(S), NEW f, \A x \in S : f[x] \in Nat, NEW i \in S
  PROVE  Total(f, S) = f[i] + Total(f, S \ {i})
<1> DEFINE C == {U \in SUBSET S : \E y \in U : Total(f, U) # f[y] + Total(f, U \ {y})}
<1>1. CASE C = {}
  BY <1>1
<1>2. CASE C # {}
  <2>1. PICK U \in C : \A V \in C : V \subseteq U => V = U
    <3> HIDE DEF C
    <3>1. C \in SUBSET (SUBSET S)
      BY DEF C
    <3> QED
      BY <1>2, <3>1, SmallestSubset
  <2>2. PICK y \in U : Total(f, U) # f[y] + Total(f, U \ {y})
    BY <2>1
  <2>3. U \subseteq S /\ U # {} /\ IsFiniteSet(U)
    BY <2>1, <2>2, FS_Subset
  <2> DEFINE x == Chosen(U)
             V == U \ {y}
             W == U \ {x}
             R == (U \ {y}) \ {x}
  <2>4. x \in U /\ Total(f, U) = f[x] + Total(f, W)
    BY <2>3, TotalStep
  <2>5. x # y
    BY <2>2, <2>4
  <2>6. V \in SUBSET S /\ V \notin C /\ x \in V /\ W \in SUBSET S /\ W \notin C /\ y \in W
    BY <2>1, <2>2, <2>3, <2>4, <2>5
  <2>7. R = W \ {y} /\ R \subseteq S /\ IsFiniteSet(R)
    BY <2>3, FS_Subset
  <2>8. Total(f, V) = f[x] + Total(f, R)
    BY <2>6
  <2>9. Total(f, W) = f[y] + Total(f, R)
    BY <2>6, <2>7
  <2>10. Total(f, R) \in Nat /\ f[x] \in Nat /\ f[y] \in Nat
    BY <2>2, <2>3, <2>4, <2>7, TotalType
  <2> HIDE DEF x, V, W, R
  <2>11. Total(f, U) = f[y] + Total(f, V)
    BY <2>4, <2>8, <2>9, <2>10
  <2> QED
    BY <2>2, <2>11 DEF V
<1> QED
  BY <1>1, <1>2

(* The sum is one of the terms over the set alone.                          *)
LEMMA TotalSame ==
  ASSUME NEW S, IsFiniteSet(S), NEW f, NEW g, \A x \in S : f[x] = g[x]
  PROVE  Total(f, S) = Total(g, S)
<1> DEFINE C == {U \in SUBSET S : Total(f, U) # Total(g, U)}
<1>1. CASE C = {}
  BY <1>1
<1>2. CASE C # {}
  <2>1. PICK U \in C : \A V \in C : V \subseteq U => V = U
    <3> HIDE DEF C
    <3>1. C \in SUBSET (SUBSET S)
      BY DEF C
    <3> QED
      BY <1>2, <3>1, SmallestSubset
  <2>2. U \subseteq S /\ Total(f, U) # Total(g, U) /\ IsFiniteSet(U)
    BY <2>1, FS_Subset
  <2>3. U # {}
    BY <2>2, TotalStep
  <2>4. /\ Chosen(U) \in U
        /\ Total(f, U) = f[Chosen(U)] + Total(f, U \ {Chosen(U)})
        /\ Total(g, U) = g[Chosen(U)] + Total(g, U \ {Chosen(U)})
    BY <2>2, <2>3, TotalStep
  <2>5. U \ {Chosen(U)} \notin C
    BY <2>1, <2>4
  <2> QED
    BY <2>2, <2>4, <2>5
<1> QED
  BY <1>1, <1>2

(* One term is changed.                                                     *)
LEMMA TotalExcept ==
  ASSUME NEW S, IsFiniteSet(S), NEW f \in [S -> Nat], NEW g \in [S -> Nat], NEW i \in S,
         \A x \in S \ {i} : g[x] = f[x]
  PROVE  /\ Total(g, S) = Total(f, S) - f[i] + g[i]
         /\ Total(f, S) \in Nat /\ f[i] <= Total(f, S)
<1> DEFINE R == S \ {i}
<1>1. IsFiniteSet(R) /\ (\A x \in R : f[x] = g[x])
      /\ (\A x \in S : f[x] \in Nat /\ g[x] \in Nat) /\ (\A x \in R : f[x] \in Nat)
  BY FS_Subset
<1>2. Total(f, S) = f[i] + Total(f, R) /\ Total(g, S) = g[i] + Total(g, R)
  BY <1>1, TotalRemove
<1> HIDE DEF R
<1>3. Total(f, R) = Total(g, R) /\ Total(f, R) \in Nat
  BY <1>1, TotalSame, TotalType
<1> QED
  BY <1>1, <1>2, <1>3

LEMMA TotalIncludes ==
  ASSUME NEW S, IsFiniteSet(S), NEW f \in [S -> Nat], NEW i \in S
  PROVE  f[i] <= Total(f, S)
<1> DEFINE g == [f EXCEPT ![i] = 0]
<1>1. g \in [S -> Nat] /\ \A x \in S \ {i} : g[x] = f[x]
  OBVIOUS
<1> HIDE DEF g
<1> QED
  BY <1>1, TotalExcept

-----------------------------------------------------------------------------
(* The clients are conserved: each has an open socket, or has to connect    *)
(* again.  Clients is a bound of every counter for that reason.             *)

SheddingTypes ==
  /\ phase \in [Instance -> {"new", "up", "draining", "down"}]
  /\ open \in [Instance -> Nat]
  /\ away \in Nat
  /\ reported \in [Instance -> 0..Clients]
  /\ eval \in [Instance -> Evaluation]
  /\ cooling \in [Instance -> BOOLEAN]
  /\ batchesLeft \in [Instance -> 0..DrainBatches]
  /\ leavesLeft \in 0..MaxLeaves

Conserved == Total(open, Instance) + away = Clients

SheddingInv == SheddingTypes /\ Conserved

LEMMA ClientsNat == ASSUME IsFiniteSet(Instance) PROVE Clients \in Nat /\ Clients = Total(Initially, Instance)
<1>1. Clients = Total(Initially, Instance)
  BY DEF Clients, Total
<1> QED
  BY <1>1, TotalType, InitiallyAssumption

LEMMA OpenBounded ==
  ASSUME IsFiniteSet(Instance), SheddingInv
  PROVE  /\ \A i \in Instance : open[i] \in 0..Clients
         /\ away \in 0..Clients /\ Clients \in Nat
<1>1. Total(open, Instance) \in Nat
  BY TotalType DEF SheddingInv, SheddingTypes
<1>2. ASSUME NEW i \in Instance PROVE open[i] <= Total(open, Instance)
  BY TotalIncludes DEF SheddingInv, SheddingTypes
<1> QED
  BY <1>1, <1>2, ClientsNat DEF SheddingInv, SheddingTypes, Conserved

(* The sockets of one instance that close, or open.                         *)
LEMMA SocketsMove ==
  ASSUME IsFiniteSet(Instance), SheddingInv, NEW i \in Instance, NEW n \in Nat, NEW m \in Nat,
         open' = [open EXCEPT ![i] = n], away' = m, n + m = open[i] + away
  PROVE  /\ open' \in [Instance -> Nat] /\ away' \in Nat /\ Conserved'
<1>1. open \in [Instance -> Nat] /\ away \in Nat
  BY DEF SheddingInv, SheddingTypes
<1>c. Clients' = Clients
  OBVIOUS
<1> DEFINE moved == [open EXCEPT ![i] = n]
<1>2. Total(moved, Instance) = Total(open, Instance) - open[i] + n /\ Total(open, Instance) \in Nat
  <2>1. /\ moved \in [Instance -> Nat] /\ moved[i] = n
        /\ \A x \in Instance \ {i} : moved[x] = open[x]
    BY <1>1
  <2> HIDE DEF moved
  <2> QED
    BY <1>1, <2>1, TotalExcept
<1>3. Total(open, Instance)' = Total(moved, Instance)
  OBVIOUS
<1> HIDE DEF moved
<1>4. open[i] \in Nat /\ Total(open, Instance) + away = Clients
  BY <1>1 DEF SheddingInv, Conserved
<1>5. Total(moved, Instance) + m = Clients
  BY <1>1, <1>2, <1>4
<1>6. open' \in [Instance -> Nat] /\ away' \in Nat
  BY <1>1
<1> QED
  BY <1>c, <1>3, <1>5, <1>6 DEF Conserved

LEMMA SocketsStay ==
  ASSUME SheddingInv, UNCHANGED sockets
  PROVE  open' \in [Instance -> Nat] /\ away' \in Nat /\ Conserved'
<1>1. open' = open /\ away' = away
  BY DEF sockets
<1>2. Total(open, Instance)' = Total(open, Instance)
  BY <1>1
<1>3. Clients' = Clients
  OBVIOUS
<1> QED
  BY <1>1, <1>2, <1>3 DEF SheddingInv, SheddingTypes, Conserved, sockets

LEMMA NoEvaluationType ==
  ASSUME IsFiniteSet(Instance) PROVE NoEvaluation \in Evaluation
BY ClientsNat DEF NoEvaluation, Evaluation

(* shedConnections closes no more sockets than are open.                    *)
LEMMA ShedType ==
  ASSUME IsFiniteSet(Instance), SheddingInv, NEW i \in Instance, NEW target \in Nat,
         ShedConnections(i, target)
  PROVE  open' \in [Instance -> Nat] /\ away' \in Nat /\ Conserved'
<1> DEFINE closed == AtMost(target, open[i])
<1>1. open[i] \in Nat /\ away \in Nat
  BY DEF SheddingInv, SheddingTypes
<1>2. closed \in 0..open[i]
  BY <1>1 DEF AtMost
<1>3. open' = [open EXCEPT ![i] = open[i] - closed] /\ away' = away + closed
  BY DEF ShedConnections
<1> HIDE DEF closed
<1>4. open[i] - closed \in Nat /\ away + closed \in Nat
      /\ (open[i] - closed) + (away + closed) = open[i] + away
  BY <1>1, <1>2
<1> QED
  BY <1>3, <1>4, SocketsMove

LEMMA DepartedType ==
  ASSUME SheddingInv, NEW i \in Instance, NEW n \in Nat, Departed(i, n)
  PROVE  eval' \in [Instance -> Evaluation]
<1>1. eval \in [Instance -> Evaluation] /\ eval' = [eval EXCEPT ![i].left = eval[i].left + n]
  BY DEF SheddingInv, SheddingTypes, Departed
<1>2. eval[i] \in Evaluation
  BY <1>1
<1>3. [eval[i] EXCEPT !.left = eval[i].left + n] \in Evaluation
  BY <1>2 DEF Evaluation
<1> QED
  BY <1>1, <1>3

LEMMA SheddingStep ==
  ASSUME IsFiniteSet(Instance), SheddingInv, [Next]_vars PROVE SheddingInv'
<1>t. /\ phase \in [Instance -> {"new", "up", "draining", "down"}]
      /\ open \in [Instance -> Nat] /\ away \in Nat
      /\ reported \in [Instance -> 0..Clients]
      /\ eval \in [Instance -> Evaluation]
      /\ cooling \in [Instance -> BOOLEAN]
      /\ batchesLeft \in [Instance -> 0..DrainBatches]
      /\ leavesLeft \in 0..MaxLeaves
  BY DEF SheddingInv, SheddingTypes
<1>b. /\ \A i \in Instance : open[i] \in 0..Clients
      /\ Clients \in Nat /\ MaxLeaves \in Nat /\ BatchSize \in Nat
  BY OpenBounded, SettingAssumption, BoundAssumption
<1>c. Clients' = Clients /\ Evaluation' = Evaluation
  OBVIOUS
<1>e. ASSUME NEW i \in Instance, NEW e \in Evaluation
      PROVE  [eval EXCEPT ![i] = e] \in [Instance -> Evaluation]
  BY <1>t
<1>n. NoEvaluation \in Evaluation
  BY NoEvaluationType
(* What is left to show of a step, given what it does to the sockets.       *)
<1>q. ASSUME phase' \in [Instance -> {"new", "up", "draining", "down"}],
             open' \in [Instance -> Nat] /\ away' \in Nat /\ Conserved',
             reported' \in [Instance -> 0..Clients],
             eval' \in [Instance -> Evaluation],
             cooling' \in [Instance -> BOOLEAN],
             batchesLeft' \in [Instance -> 0..DrainBatches],
             leavesLeft' \in 0..MaxLeaves
      PROVE  SheddingInv'
  BY <1>c, <1>q DEF SheddingInv, SheddingTypes
<1>v. ASSUME NEW i \in Instance, Vanish(i) PROVE SheddingInv'
  <2>1. open' = [open EXCEPT ![i] = 0] /\ away' = away + open[i]
    BY <1>v DEF Vanish
  <2>2. open[i] \in Nat /\ away + open[i] \in Nat /\ 0 + (away + open[i]) = open[i] + away
    BY <1>t
  <2>3. open' \in [Instance -> Nat] /\ away' \in Nat /\ Conserved'
    BY <2>1, <2>2, SocketsMove
  <2>4. eval' \in [Instance -> Evaluation]
    BY <1>v, <1>e, <1>n DEF Vanish
  <2>5. /\ phase' \in [Instance -> {"new", "up", "draining", "down"}]
        /\ reported' \in [Instance -> 0..Clients]
        /\ cooling' \in [Instance -> BOOLEAN]
        /\ batchesLeft' \in [Instance -> 0..DrainBatches]
        /\ leavesLeft' \in 0..MaxLeaves
    <3>1. /\ phase' = [phase EXCEPT ![i] = "down"] /\ cooling' = [cooling EXCEPT ![i] = FALSE]
          /\ batchesLeft' = [batchesLeft EXCEPT ![i] = 0]
          /\ UNCHANGED <<reported, leavesLeft>>
      BY <1>v DEF Vanish
    <3>2. /\ phase' \in [Instance -> {"new", "up", "draining", "down"}]
          /\ cooling' \in [Instance -> BOOLEAN]
      BY <1>t, <3>1
    <3>3. batchesLeft' \in [Instance -> 0..DrainBatches]
      <4>1. batchesLeft \in [Instance -> 0..DrainBatches] /\ 0 \in 0..DrainBatches
        BY <1>t, SettingAssumption
      <4> QED
        BY <3>1, <4>1
    <3> QED
      BY <1>t, <3>1, <3>2, <3>3
  <2> QED
    BY <1>q, <2>3, <2>4, <2>5
<1>1. ASSUME NEW i \in Instance,
             Start(i) \/ Report(i) \/ Cool(i) \/ BeginDrain(i) \/ Forget(i)
      PROVE  SheddingInv'
  <2>1. UNCHANGED <<sockets, eval, batchesLeft, leavesLeft>>
    BY <1>1 DEF Start, Report, Cool, BeginDrain, Forget
  <2>2. /\ phase' \in [Instance -> {"new", "up", "draining", "down"}]
        /\ cooling' \in [Instance -> BOOLEAN]
    BY <1>1, <1>t DEF Start, Report, Cool, BeginDrain, Forget
  <2>3. reported' \in [Instance -> 0..Clients]
    <3>1. CASE Report(i)
      <4>1. reported[i] \in 0..Clients /\ open[i] \in 0..Clients
        BY <1>t, <1>b
      <4>2. \/ reported[i] + 1 \in 0..Clients /\ reported' = [reported EXCEPT ![i] = reported[i] + 1]
            \/ reported[i] - 1 \in 0..Clients /\ reported' = [reported EXCEPT ![i] = reported[i] - 1]
        BY <1>b, <3>1, <4>1 DEF Report
      <4> QED
        BY <1>t, <4>2
    <3>2. CASE ~Report(i)
      BY <1>1, <1>t, <1>b, <3>2 DEF Start, Cool, BeginDrain, Forget
    <3> QED
      BY <3>1, <3>2
  <2> QED
    BY <1>q, <1>t, <2>1, <2>2, <2>3, SocketsStay
<1>2. ASSUME NEW i \in Instance, Connect(i) PROVE SheddingInv'
  <2>1. /\ away > 0 /\ away' = away - 1 /\ open' = [open EXCEPT ![i] = open[i] + 1]
        /\ UNCHANGED <<phase, reported, eval, cooling, batchesLeft, leavesLeft>>
    BY <1>2 DEF Connect
  <2>2. open[i] + 1 \in Nat /\ away - 1 \in Nat /\ (open[i] + 1) + (away - 1) = open[i] + away
    BY <1>t, <2>1
  <2>3. open' \in [Instance -> Nat] /\ away' \in Nat /\ Conserved'
    BY <2>1, <2>2, SocketsMove
  <2> QED
    BY <1>q, <1>t, <2>1, <2>3
<1>3. ASSUME NEW i \in Instance, Leave(i) PROVE SheddingInv'
  <2>1. /\ open[i] > 0 /\ leavesLeft > 0 /\ leavesLeft' = leavesLeft - 1
        /\ open' = [open EXCEPT ![i] = open[i] - 1] /\ away' = away + 1
        /\ UNCHANGED <<phase, reported, cooling, batchesLeft>>
    BY <1>3 DEF Leave
  <2>2. open[i] - 1 \in Nat /\ away + 1 \in Nat /\ (open[i] - 1) + (away + 1) = open[i] + away
    BY <1>t, <2>1
  <2>3. open' \in [Instance -> Nat] /\ away' \in Nat /\ Conserved'
    BY <2>1, <2>2, SocketsMove
  <2>4. eval' \in [Instance -> Evaluation]
    <3>1. eval' = eval \/ Departed(i, 1)
      BY <1>3, Zenon DEF Leave
    <3> QED
      BY <1>t, <3>1, DepartedType
  <2>5. leavesLeft' \in 0..MaxLeaves
    BY <1>t, <1>b, <2>1
  <2> QED
    BY <1>q, <1>t, <2>1, <2>3, <2>4, <2>5
<1>4. ASSUME NEW i \in Instance, Evaluate(i) \/ ScanKeys(i) \/ CountKeys(i) \/ FailView(i)
      PROVE  SheddingInv'
  <2>1. UNCHANGED <<phase, sockets, reported, cooling, batchesLeft, leavesLeft>>
    BY <1>4 DEF Evaluate, ScanKeys, CountKeys, FailView
  <2>r. eval[i] \in Evaluation
    BY <1>t
  <2>2. eval' \in [Instance -> Evaluation]
    <3>1. CASE Evaluate(i)
      <4>1. [eval[i] EXCEPT !.stage = "scan", !.connections = open[i]] \in Evaluation
        BY <1>b, <2>r DEF Evaluation
      <4>2. eval' = [eval EXCEPT ![i] = [eval[i] EXCEPT !.stage = "scan", !.connections = open[i]]]
        BY <1>t, <2>r, <3>1 DEF Evaluate
      <4> QED
        BY <1>t, <4>1, <4>2
    <3>2. CASE ScanKeys(i)
      <4> DEFINE keys == {j \in Instance : reported[j] > 0}
      <4> DEFINE e == IF keys = {} THEN NoEvaluation
                      ELSE [eval[i] EXCEPT !.stage = "count", !.keys = keys]
      <4>1. eval' = [eval EXCEPT ![i] = e]
        BY <3>2 DEF ScanKeys
      <4>2. keys \in SUBSET Instance
        OBVIOUS
      <4> HIDE DEF keys
      <4>3. [eval[i] EXCEPT !.stage = "count", !.keys = keys] \in Evaluation
        BY <2>r, <4>2 DEF Evaluation
      <4>4. e \in Evaluation
        BY <1>n, <4>3
      <4> HIDE DEF e
      <4> QED
        BY <1>e, <4>1, <4>4
    <3>3. CASE CountKeys(i)
      <4> DEFINE keys == eval[i].keys
                 sum == Total(reported, keys)
                 mine == IF i \in keys THEN reported[i] ELSE 0
      <4>1. eval' = [eval EXCEPT ![i] = [eval[i] EXCEPT !.stage = "decide", !.total = sum,
                                                        !.mine = mine]]
        BY <3>3 DEF CountKeys, Total
      <4>2. IsFiniteSet(keys) /\ \A j \in keys : reported[j] \in Nat
        BY <1>t, <1>b, <2>r, FS_Subset DEF Evaluation
      <4>3. sum \in Nat /\ mine \in 0..Clients
        BY <1>t, <1>b, <4>2, TotalType
      <4> HIDE DEF sum, mine
      <4>4. [eval[i] EXCEPT !.stage = "decide", !.total = sum, !.mine = mine] \in Evaluation
        BY <2>r, <4>3 DEF Evaluation
      <4> QED
        BY <1>e, <4>1, <4>4
    <3>4. CASE FailView(i)
      BY <1>e, <1>n, <3>4 DEF FailView
    <3> QED
      BY <1>4, <3>1, <3>2, <3>3, <3>4
  <2> QED
    BY <1>q, <1>t, <2>1, <2>2, SocketsStay
<1>5. ASSUME NEW i \in Instance, Decide(i) PROVE SheddingInv'
  <2> DEFINE target == Target(i, eval[i])
  <2>1. /\ eval' = [eval EXCEPT ![i] = NoEvaluation]
        /\ UNCHANGED <<phase, reported, batchesLeft, leavesLeft>>
        /\ IF target > 0
           THEN ShedConnections(i, target) /\ cooling' = [cooling EXCEPT ![i] = TRUE]
           ELSE UNCHANGED <<sockets, cooling>>
    BY <1>5 DEF Decide
  <2>2. target \in Int
    <3>1. eval[i].connections \in Int /\ eval[i].total \in Nat /\ eval[i] \in Evaluation
      BY <1>t DEF Evaluation
    <3>2. IsFiniteSet(eval[i].keys)
      BY <3>1, FS_Subset DEF Evaluation
    <3>3. Cardinality(eval[i].keys) \in Nat
      BY <3>2, FS_CardinalityType
    <3>4. Cardinality(eval[i].keys) > 1 => CeilDiv(eval[i].total, Cardinality(eval[i].keys)) \in Int
      BY <3>1, <3>3 DEF CeilDiv
    <3> QED
      BY <1>b, <3>1, <3>4, SettingAssumption DEF Target, LowerBound, AtMost, AtLeast
  <2> HIDE DEF target
  <2>3. open' \in [Instance -> Nat] /\ away' \in Nat /\ Conserved'
    <3>1. CASE target > 0
      BY <2>1, <2>2, <3>1, ShedType
    <3>2. CASE ~(target > 0)
      BY <2>1, <3>2, SocketsStay
    <3> QED
      BY <3>1, <3>2
  <2>4. cooling' \in [Instance -> BOOLEAN] /\ eval' \in [Instance -> Evaluation]
    BY <1>e, <1>n, <1>t, <2>1
  <2> QED
    BY <1>q, <1>t, <2>1, <2>3, <2>4
<1>6. ASSUME NEW i \in Instance, DrainBatch(i) PROVE SheddingInv'
  <2>1. /\ batchesLeft[i] > 0 /\ batchesLeft' = [batchesLeft EXCEPT ![i] = @ - 1]
        /\ ShedConnections(i, BatchSize)
        /\ UNCHANGED <<phase, reported, cooling, leavesLeft>>
        /\ eval' = eval \/ Departed(i, AtMost(BatchSize, open[i]))
    BY <1>6, Zenon DEF DrainBatch
  <2>2. open' \in [Instance -> Nat] /\ away' \in Nat /\ Conserved'
    BY <1>b, <2>1, ShedType
  <2>3. AtMost(BatchSize, open[i]) \in Nat
    BY <1>b, <1>t DEF AtMost
  <2>4. eval' \in [Instance -> Evaluation]
    BY <1>t, <2>1, <2>3, DepartedType
  <2>5. batchesLeft' \in [Instance -> 0..DrainBatches]
    <3>1. batchesLeft[i] - 1 \in 0..DrainBatches
      <4>1. batchesLeft[i] \in 0..DrainBatches /\ DrainBatches \in Nat
        BY <1>t, SettingAssumption
      <4> QED
        BY <2>1, <4>1
    <3> QED
      BY <1>t, <2>1, <3>1
  <2> QED
    BY <1>q, <1>t, <2>1, <2>2, <2>4, <2>5
<1>7. UNCHANGED vars => SheddingInv'
  BY <1>q, <1>t, SocketsStay DEF vars, sockets
<1> QED
  BY <1>1, <1>2, <1>3, <1>4, <1>5, <1>6, <1>7, <1>v DEF Next, EndDrain, Crash

LEMMA SheddingInit ==
  ASSUME IsFiniteSet(Instance), Init PROVE SheddingInv
<1>1. Clients \in Nat /\ Clients = Total(Initially, Instance)
  BY ClientsNat
<1>2. \A i \in Instance : Initially[i] \in 0..Clients
  <2> SUFFICES ASSUME NEW i \in Instance PROVE Initially[i] \in 0..Clients
    OBVIOUS
  <2>1. Initially \in [Instance -> Nat] /\ 0 \in Nat
    BY InitiallyAssumption
  <2>2. Initially[i] <= Total(Initially, Instance)
    BY <2>1, TotalIncludes
  <2> QED
    BY <1>1, <2>1, <2>2
<1>3. Conserved
  BY <1>1 DEF Init, Conserved
<1>4. SheddingTypes
  BY <1>1, <1>2, InitiallyAssumption, SettingAssumption, BoundAssumption, NoEvaluationType
     DEF Init, SheddingTypes
<1> QED
  BY <1>3, <1>4 DEF SheddingInv

(***************************************************************************)
(* Every counter keeps its bounds, for any number of machines and clients: *)
(* no connection is counted twice or lost by shedConnections, by a drain,  *)
(* a crash or a client that connects again.                                *)
(***************************************************************************)
THEOREM CountersInBounds ==
  ASSUME IsFiniteSet(Instance) PROVE Spec => []TypeOK
<1>1. SheddingInv => TypeOK
  BY OpenBounded DEF SheddingInv, SheddingTypes, TypeOK
<1> QED
  BY <1>1, SheddingInit, SheddingStep, PTL DEF Spec

-----------------------------------------------------------------------------
(* FloorUpToDepartures: an evaluation remembers connections that were open, *)
(* and how many of them have gone since.                                    *)
Remembered ==
  \A i \in Instance :
    eval[i].stage # "idle" => open[i] + eval[i].left >= eval[i].connections

(* No average is too low by its rounding.                                   *)
LEMMA CeilDivBounds ==
  ASSUME NEW a \in Nat, NEW b \in Nat \ {0}
  PROVE  CeilDiv(a, b) \in Int /\ CeilDiv(a, b) * b >= a
<1>1. a + b - 1 \in Int /\ b \in Int /\ b > 0
  OBVIOUS
<1>2. ASSUME NEW x \in Int, NEW q \in Int, q = x \div b PROVE x < q * b + b
  BY <1>1, <1>2
<1>3. CeilDiv(a, b) \in Int
  BY <1>1 DEF CeilDiv
<1>4. a + b - 1 < CeilDiv(a, b) * b + b
  BY <1>1, <1>2, <1>3 DEF CeilDiv
<1> QED
  BY <1>3, <1>4

LEMMA LowerBoundKept ==
  ASSUME NEW e \in Evaluation, IsFiniteSet(Instance), Cardinality(e.keys) > 1
  PROVE  /\ Cardinality(e.keys) \in Nat /\ LowerBound(e) \in Int
         /\ LowerBound(e) >= MinConnections
         /\ LowerBound(e) * Cardinality(e.keys) >= e.total
<1> DEFINE n == Cardinality(e.keys)
           c == CeilDiv(e.total, n)
<1>1. e.keys \subseteq Instance /\ e.total \in Nat
  BY DEF Evaluation
<1>2. n \in Nat /\ n > 1
  BY <1>1, FS_Subset, FS_CardinalityType
<1> HIDE DEF n
<1>3. c \in Int /\ c * n >= e.total
  BY <1>1, <1>2, CeilDivBounds
<1>4. LowerBound(e) = AtLeast(MinConnections, c)
  BY DEF LowerBound, n
<1> HIDE DEF c
<1>5. LowerBound(e) \in Int /\ LowerBound(e) >= MinConnections /\ LowerBound(e) >= c
  BY <1>3, <1>4, SettingAssumption DEF AtLeast
<1>6. LowerBound(e) * n >= c * n
  BY <1>2, <1>3, <1>5
<1>7. LowerBound(e) * n >= e.total
  BY <1>1, <1>2, <1>3, <1>5, <1>6
<1> QED
  BY <1>2, <1>5, <1>7 DEF n

LEMMA RememberedStep ==
  ASSUME IsFiniteSet(Instance), SheddingInv, Remembered, [Next]_vars PROVE Remembered'
<1>t. /\ open \in [Instance -> Nat] /\ eval \in [Instance -> Evaluation] /\ BatchSize \in Nat
      /\ \A i \in Instance : /\ open[i] \in Nat /\ eval[i] \in Evaluation
                             /\ eval[i].left \in Nat /\ eval[i].connections \in Int
  BY SettingAssumption, ClientsNat DEF SheddingInv, SheddingTypes, Evaluation
<1>n. NoEvaluation.stage = "idle"
  BY DEF NoEvaluation
<1>r. ASSUME \A k \in Instance : eval'[k].stage # "idle" =>
               /\ eval[k].stage # "idle" /\ eval'[k].connections = eval[k].connections
               /\ open'[k] + eval'[k].left >= open[k] + eval[k].left
               /\ open'[k] \in Nat /\ eval'[k].left \in Nat
      PROVE  Remembered'
  <2>1. ASSUME NEW k \in Instance, eval'[k].stage # "idle"
        PROVE  open'[k] + eval'[k].left >= eval'[k].connections
    <3>1. open[k] + eval[k].left >= eval[k].connections
      BY <1>r, <2>1 DEF Remembered
    <3> QED
      BY <1>r, <1>t, <2>1, <3>1
  <2> QED
    BY <2>1 DEF Remembered
<1>1. ASSUME UNCHANGED <<open, eval>> PROVE Remembered'
  BY <1>1 DEF Remembered
<1>2. ASSUME NEW i \in Instance, Connect(i) PROVE Remembered'
  <2>1. open' = [open EXCEPT ![i] = open[i] + 1] /\ eval' = eval
    BY <1>2 DEF Connect
  <2> QED
    BY <1>r, <1>t, <2>1
(* n sockets of i close, which its evaluation is told of.                   *)
<1>d. ASSUME NEW i \in Instance, NEW n \in Nat, n <= open[i],
             open' = [open EXCEPT ![i] = open[i] - n],
             (eval' = eval /\ eval[i].stage = "idle") \/ Departed(i, n)
      PROVE  Remembered'
  <2>1. open[i] - n \in Nat /\ \A k \in Instance : k # i => open'[k] = open[k]
    BY <1>d, <1>t
  <2>2. CASE eval' = eval /\ eval[i].stage = "idle"
    BY <1>r, <1>t, <2>1, <2>2
  <2>3. CASE Departed(i, n)
    <3>1. /\ \A k \in Instance : k # i => eval'[k] = eval[k]
          /\ eval'[i] = [eval[i] EXCEPT !.left = eval[i].left + n]
      BY <1>t, <2>3 DEF Departed
    <3>2. /\ eval'[i].stage = eval[i].stage /\ eval'[i].connections = eval[i].connections
          /\ eval'[i].left = eval[i].left + n
      BY <1>t, <3>1 DEF Evaluation
    <3>3. open'[i] = open[i] - n
      BY <1>d, <1>t
    <3>4. ASSUME NEW k \in Instance, eval'[k].stage # "idle"
          PROVE  /\ eval[k].stage # "idle" /\ eval'[k].connections = eval[k].connections
                 /\ open'[k] + eval'[k].left >= open[k] + eval[k].left
                 /\ open'[k] \in Nat /\ eval'[k].left \in Nat
      <4>1. CASE k = i
        BY <1>t, <2>1, <3>2, <3>3, <3>4, <4>1
      <4>2. CASE k # i
        BY <1>t, <2>1, <3>1, <3>4, <4>2
      <4> QED
        BY <4>1, <4>2
    <3> QED
      BY <1>r, <3>4
  <2> QED
    BY <1>d, <2>2, <2>3
<1>3. ASSUME NEW i \in Instance, Leave(i) PROVE Remembered'
  <2>1. /\ open[i] > 0 /\ open' = [open EXCEPT ![i] = open[i] - 1]
        /\ (eval' = eval /\ eval[i].stage = "idle") \/ Departed(i, 1)
    BY <1>3, Zenon DEF Leave
  <2>2. 1 <= open[i]
    BY <1>t, <2>1
  <2> QED
    BY <1>d, <2>1, <2>2
<1>4. ASSUME NEW i \in Instance, DrainBatch(i) PROVE Remembered'
  <2> DEFINE closed == AtMost(BatchSize, open[i])
  <2>1. /\ open' = [open EXCEPT ![i] = open[i] - closed]
        /\ (eval' = eval /\ eval[i].stage = "idle") \/ Departed(i, closed)
    BY <1>4, Zenon DEF DrainBatch, ShedConnections
  <2>2. closed \in Nat /\ closed <= open[i]
    BY <1>t DEF AtMost
  <2>3. PICK n \in Nat : n = closed
    BY <2>2
  <2> HIDE DEF closed
  <2> QED
    BY <1>d, <2>1, <2>2, <2>3
<1>5. ASSUME NEW i \in Instance, Evaluate(i) PROVE Remembered'
  <2>1. open' = open /\ eval' = [eval EXCEPT ![i].stage = "scan", ![i].connections = open[i]]
    BY <1>5 DEF Evaluate, sockets
  <2>2. eval'[i].connections = open[i] /\ eval'[i].left = eval[i].left
    BY <1>t, <2>1 DEF Evaluation
  <2>3. ASSUME NEW k \in Instance, eval'[k].stage # "idle"
        PROVE  open'[k] + eval'[k].left >= eval'[k].connections
    BY <1>t, <2>1, <2>2, <2>3 DEF Remembered
  <2> QED
    BY <2>3 DEF Remembered
<1>6. ASSUME NEW i \in Instance, ScanKeys(i) \/ CountKeys(i) \/ FailView(i) PROVE Remembered'
  <2>1. open' = open /\ eval[i].stage # "idle"
        /\ \A k \in Instance : k # i => eval'[k] = eval[k]
    BY <1>6, <1>t DEF ScanKeys, CountKeys, FailView, sockets
  <2>2. \/ eval'[i].stage = "idle"
        \/ eval'[i].connections = eval[i].connections /\ eval'[i].left = eval[i].left
    <3>1. CASE ScanKeys(i)
      <4> DEFINE keys == {j \in Instance : reported[j] > 0}
      <4>1. eval' = [eval EXCEPT ![i] = IF keys = {} THEN NoEvaluation
                                        ELSE [eval[i] EXCEPT !.stage = "count", !.keys = keys]]
        BY <3>1 DEF ScanKeys
      <4> HIDE DEF keys
      <4> QED
        BY <1>t, <1>n, <4>1 DEF Evaluation
    <3>2. CASE CountKeys(i)
      <4>1. eval'[i] = [eval[i] EXCEPT !.stage = "decide",
                          !.total = MapThenSumSet(LAMBDA j : reported[j], eval[i].keys),
                          !.mine = IF i \in eval[i].keys THEN reported[i] ELSE 0]
        BY <1>t, <3>2 DEF CountKeys
      <4> QED
        BY <1>t, <4>1 DEF Evaluation
    <3>3. CASE FailView(i)
      BY <1>n, <1>t, <3>3 DEF FailView
    <3> QED
      BY <1>6, <3>1, <3>2, <3>3
  <2> QED
    BY <1>r, <1>t, <2>1, <2>2
<1>7. ASSUME NEW i \in Instance, Decide(i) \/ Vanish(i) PROVE Remembered'
  <2>1. eval'[i].stage = "idle" /\ \A k \in Instance : k # i => eval'[k] = eval[k] /\ open'[k] = open[k]
    BY <1>7, <1>t, <1>n DEF Decide, Vanish, ShedConnections, sockets
  <2> QED
    BY <1>r, <1>t, <2>1
<1>8. ASSUME NEW i \in Instance,
             Start(i) \/ Report(i) \/ Cool(i) \/ BeginDrain(i) \/ Forget(i)
      PROVE  Remembered'
  BY <1>1, <1>8 DEF Start, Report, Cool, BeginDrain, Forget, sockets
<1>9. UNCHANGED vars => Remembered'
  BY <1>1 DEF vars, sockets
<1> QED
  BY <1>2, <1>3, <1>4, <1>5, <1>6, <1>7, <1>8, <1>9 DEF Next, EndDrain, Crash

(* Only a decision ends an evaluation that was to decide, or the end of its *)
(* process.                                                                 *)
LEMMA OnlyDecideSheds ==
  ASSUME SheddingInv, Next, NEW i \in Instance, Sheds(i) PROVE Decide(i)
<1>t. /\ phase \in [Instance -> {"new", "up", "draining", "down"}]
      /\ eval \in [Instance -> Evaluation]
      /\ \A k \in Instance : eval[k] \in Evaluation
  BY DEF SheddingInv, SheddingTypes
<1>1. eval[i].stage = "decide" /\ eval'[i].stage = "idle" /\ phase'[i] # "down"
  BY DEF Sheds
<1>2. PICK j \in Instance :
        \/ Start(j) \/ Connect(j) \/ Leave(j) \/ Report(j)
        \/ Evaluate(j) \/ ScanKeys(j) \/ CountKeys(j) \/ FailView(j)
        \/ Decide(j) \/ Cool(j)
        \/ BeginDrain(j) \/ DrainBatch(j) \/ EndDrain(j)
        \/ Crash(j) \/ Forget(j)
  BY DEF Next
<1>3. ~UNCHANGED eval
  BY <1>1
<1>4. ASSUME NEW n, Departed(j, n) PROVE FALSE
  <2>1. eval'[i].stage = eval[i].stage
    BY <1>t, <1>4 DEF Departed, Evaluation
  <2> QED
    BY <1>1, <2>1
<1>5. ~(Start(j) \/ Connect(j) \/ Report(j) \/ Cool(j) \/ BeginDrain(j) \/ Forget(j))
  BY <1>3 DEF Start, Connect, Report, Cool, BeginDrain, Forget
<1>6. ~Leave(j) /\ ~DrainBatch(j)
  BY <1>3, <1>4, Zenon DEF Leave, DrainBatch
<1>7. ~(Evaluate(j) \/ ScanKeys(j) \/ CountKeys(j) \/ FailView(j))
  <2>1. j # i => ~(Evaluate(j) \/ ScanKeys(j) \/ CountKeys(j) \/ FailView(j))
    <3>1. ASSUME j # i, Evaluate(j) \/ ScanKeys(j) \/ CountKeys(j) \/ FailView(j)
          PROVE  eval'[i] = eval[i]
      BY <1>t, <3>1 DEF Evaluate, ScanKeys, CountKeys, FailView
    <3> QED
      BY <1>1, <3>1
  <2>2. ~(Evaluate(i) \/ ScanKeys(i) \/ CountKeys(i) \/ FailView(i))
    BY <1>1 DEF Evaluate, ScanKeys, CountKeys, FailView
  <2> QED
    BY <2>1, <2>2
<1>8. ~Vanish(j)
  <2>1. Vanish(j) => phase'[j] = "down" /\ (j # i => eval'[i] = eval[i])
    BY <1>t DEF Vanish
  <2> QED
    BY <1>1, <2>1
<1>9. Decide(j)
  BY <1>2, <1>5, <1>6, <1>7, <1>8 DEF EndDrain, Crash
<1>10. j = i
  <2>1. j # i => eval'[i] = eval[i]
    BY <1>t, <1>9 DEF Decide
  <2> QED
    BY <1>1, <2>1
<1> QED
  BY <1>9, <1>10

LEMMA ShedAboveFloor ==
  ASSUME IsFiniteSet(Instance), SheddingInv, Remembered, Next, NEW i \in Instance, Sheds(i)
  PROVE  /\ open'[i] + eval[i].left >= MinConnections
         /\ (open'[i] + eval[i].left) * Cardinality(eval[i].keys) >= eval[i].total
<1> DEFINE e == eval[i]
           n == Cardinality(e.keys)
           low == LowerBound(e)
           target == Target(i, e)
           kept == open'[i] + e.left
<1>1. /\ open \in [Instance -> Nat] /\ open[i] \in Nat /\ e \in Evaluation
      /\ e.left \in Nat /\ e.connections \in Int /\ e.total \in Nat
      /\ BatchSize \in Nat /\ MinConnections \in Nat
  BY SettingAssumption, ClientsNat DEF SheddingInv, SheddingTypes, Evaluation
<1>2. open'[i] < open[i] /\ open[i] + e.left >= e.connections
  BY DEF Sheds, Remembered
<1>3. Decide(i)
  BY OnlyDecideSheds
<1>4. target > 0 /\ open' = [open EXCEPT ![i] = open[i] - AtMost(target, open[i])]
  <2>1. IF target > 0
        THEN open' = [open EXCEPT ![i] = open[i] - AtMost(target, open[i])]
        ELSE open' = open
    BY <1>3, Zenon DEF Decide, ShedConnections, sockets
  <2> HIDE DEF target
  <2>2. open' # open
    BY <1>1, <1>2
  <2> QED
    BY <2>1, <2>2
<1>5. n > 1 /\ target = AtMost(BatchSize, e.connections - low)
  BY <1>4 DEF Target
<1>6. n \in Nat /\ low \in Int /\ low >= MinConnections /\ low * n >= e.total
  BY <1>1, <1>5, LowerBoundKept
<1>7. open'[i] = open[i] - AtMost(target, open[i])
  BY <1>1, <1>4
<1> HIDE DEF e, n, low, target
<1>8. target \in Int /\ target <= e.connections - low
  BY <1>1, <1>5, <1>6 DEF AtMost
<1>9. open'[i] \in Int /\ open'[i] >= open[i] - target
  BY <1>1, <1>7, <1>8 DEF AtMost
<1>10. kept \in Int /\ kept >= low
  BY <1>1, <1>2, <1>6, <1>8, <1>9
<1> HIDE DEF kept
<1>11. kept >= MinConnections
  BY <1>1, <1>6, <1>10
<1>12. kept * n >= low * n
  BY <1>5, <1>6, <1>10
<1>13. kept * n >= e.total
  BY <1>1, <1>6, <1>10, <1>12
<1> QED
  BY <1>11, <1>13 DEF kept, e, n

(***************************************************************************)
(* shedConnections never takes an instance below SHED_MIN_CONNECTIONS or   *)
(* the fleet's average that it had read, but for the connections that went *)
(* away while the evaluation waited for Redis: with any number of machines *)
(* and clients and whatever Redis reported.                                *)
(***************************************************************************)
THEOREM FloorKept ==
  ASSUME IsFiniteSet(Instance) PROVE Spec => FloorUpToDepartures
<1>1. Init => SheddingInv /\ Remembered
  BY SheddingInit DEF Init, Remembered, NoEvaluation
<1>2. SheddingInv /\ Remembered /\ [Next]_vars => (SheddingInv /\ Remembered)'
  BY SheddingStep, RememberedStep
<1>3. SheddingInv /\ Remembered /\ [Next]_vars =>
        [\A i \in Instance :
           Sheds(i) => /\ open'[i] + eval[i].left >= MinConnections
                       /\ (open'[i] + eval[i].left) * Cardinality(eval[i].keys)
                            >= eval[i].total]_vars
  BY ShedAboveFloor
<1> QED
  BY <1>1, <1>2, <1>3, PTL DEF Spec, FloorUpToDepartures
=============================================================================
