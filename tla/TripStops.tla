------------------------------ MODULE TripStops ------------------------------
(***************************************************************************)
(* What the feed providers share: the units of time, the trips that they   *)
(* answer with and the pairs of route and stop that they are asked for.    *)
(*                                                                         *)
(* Times are ticks of half an hour since midnight of day 0.  A trip at a   *)
(* stop is [trip, route, stop, dir, arr, dep, realtime]; its texts and its *)
(* colour are left out.  A provider's trips are a set: whoever asks sorts  *)
(* them.                                                                   *)
(***************************************************************************)
EXTENDS Integers, Sequences, FiniteSets, SequencesExt

CONSTANTS
  None,         \* NULL, undefined
  Failed,       \* a request that throws
  Day,          \* ticks in a day
  MaxDeviation, \* 90 minutes: a prediction further off the schedule is not trusted
  ActiveWindow  \* 4 hours: a trip this close is taken to be under way

ASSUME NoneAssumption == None \notin Int /\ Failed # None
ASSUME DayAssumption == Day \in Nat \ {0}
ASSUME WindowsAssumption == MaxDeviation \in Nat /\ ActiveWindow \in Nat

(* What may be left out, and JavaScript's arrays. *)
Optional == Int \cup {None}

IsSequence(s) == s \in Seq(ToSet(s))

(* stopRouteMap: the routes asked for at a stop. *)
StopsOf(pairs) == {pairs[i].stop : i \in DOMAIN pairs}
RoutesAt(pairs, stop) == {pairs[i].route : i \in {j \in DOMAIN pairs : pairs[j].stop = stop}}

Deviates(time, scheduled) ==
  time - scheduled > MaxDeviation \/ scheduled - time > MaxDeviation

(* Array.prototype.filter: what stands at the indices that pass. *)
Filtered(seq, passed) ==
  [k \in 1..Cardinality(passed) |->
     seq[CHOOSE i \in passed : Cardinality({j \in passed : j < i}) = k - 1]]

(* Array.prototype.sort by numbers, which keeps the order of equals. *)
StablySorted(seq, keys) ==
  LET Before(i) == {j \in DOMAIN seq : \/ keys[j] < keys[i]
                                       \/ keys[j] = keys[i] /\ j < i}
  IN  [k \in DOMAIN seq |-> seq[CHOOSE i \in DOMAIN seq : Cardinality(Before(i)) = k - 1]]
=============================================================================
