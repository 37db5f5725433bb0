----------------------------- MODULE GtfsRealtime -----------------------------
(***************************************************************************)
(* GtfsRealtimeService: which endpoints are asked for trip updates, which  *)
(* update a row of the schedule is matched with, and the times that are    *)
(* predicted for it.                                                       *)
(*                                                                         *)
(* A row is what Timetable!ScheduleForRouteAtStop returns.  An update is   *)
(* [trip, start, rel, stops] and one of its stops [seq, stop, rel, arrival,*)
(* departure]; a half (arrival or departure) is None or [time, delay], and *)
(* every field of these but rel and stops may be None.  All are ticks.     *)
(***************************************************************************)
EXTENDS TripStops

CONSTANT Contained \* the pairs <<whole, part>> of trip ids of which one includes the other

-----------------------------------------------------------------------------
(* getTripUpdates. *)

(* decodeTripUpdatesOnly keeps the entities that hold a trip update; a body
   that breaks off makes the whole endpoint fail. *)
DecodeTripUpdatesOnly(body) == Filtered(body, {i \in DOMAIN body : body[i] # None})

(* An endpoint is [routeIds, body]: routeIds is {} when it is not limited to
   routes, body None when the fetch fails. *)
FetchConfigs(endpoints, routeIds) ==
  Filtered(endpoints, {i \in DOMAIN endpoints :
                         \/ endpoints[i].routeIds = {} \/ routeIds = {}
                         \/ endpoints[i].routeIds \cap routeIds # {}})

TripUpdates(endpoints, routeIds) ==
  LET configs == FetchConfigs(endpoints, routeIds)
      fulfilled == Filtered(configs, {i \in DOMAIN configs : configs[i].body # None})
  IN  FlattenSeq([i \in DOMAIN fulfilled |-> DecodeTripUpdatesOnly(fulfilled[i].body)])

-----------------------------------------------------------------------------
(* matchTripToTripUpdate. *)

(* buildTripUpdateIndex groups by trip, in the order of each trip's first
   update. *)
GroupOf(updates, i) == Min({j \in DOMAIN updates : updates[j].trip = updates[i].trip})

MatchTripUpdate(row, updates, fuzzy) ==
  LET dated == {i \in DOMAIN updates : /\ updates[i].trip # None
                                       /\ updates[i].start \in {row.start, None}}
      exact == {i \in dated : updates[i].trip = row.trip}
      similar == {i \in dated : <<row.trip, updates[i].trip>> \in Contained}
      first == Min({GroupOf(updates, i) : i \in similar})
  IN  IF exact # {} THEN updates[Min(exact)]
      ELSE IF fuzzy /\ similar # {}
      THEN updates[Min({i \in similar : GroupOf(updates, i) = first})]
      ELSE None

Field(half, name) == IF half = None THEN None ELSE half[name]

OnlyDelay(half) == [time |-> None, delay |-> Field(half, "delay")]

(* The update of this stop, or the delay at the latest stop before it. *)
MatchStopTimeUpdate(row, update) ==
  LET stops == IF update = None THEN <<>> ELSE update.stops
      direct == {i \in DOMAIN stops : stops[i].seq = row.seq \/ stops[i].stop = row.stop}
      earlier == {i \in DOMAIN stops : stops[i].seq # None /\ stops[i].seq < row.seq}
      latest == {i \in earlier : \A j \in earlier : stops[j].seq <= stops[i].seq}
  IN  IF direct # {} THEN stops[Min(direct)]
      ELSE IF earlier = {} THEN None
      ELSE LET last == stops[Min(latest)] IN
           [seq |-> None, stop |-> None, rel |-> None,
            arrival |-> OnlyDelay(last.arrival), departure |-> OnlyDelay(last.departure)]

-----------------------------------------------------------------------------
(* resolveTripTimes. *)

(* The delay of a half that does not tell its own. *)
InferredDelay(row, arrival, departure) ==
  IF Field(arrival, "delay") # None THEN arrival.delay
  ELSE IF Field(departure, "delay") # None THEN departure.delay
  ELSE IF departure = None /\ Field(arrival, "time") # None THEN arrival.time - row.arr
  ELSE IF arrival = None /\ Field(departure, "time") # None THEN departure.time - row.dep
  ELSE 0

Predicted(scheduled, half, inferred) ==
  IF Field(half, "time") # None THEN half.time
  ELSE IF Field(half, "delay") # None THEN scheduled + half.delay
  ELSE scheduled + inferred

(* A mistaken comparison of the departure only. *)
ResolveTripTimes_Departure(row, update) ==
  IF update = None THEN [arr |-> row.arr, dep |-> row.dep, realtime |-> FALSE]
  ELSE LET inferred == InferredDelay(row, update.arrival, update.departure)
           arr == Predicted(row.arr, update.arrival, inferred)
           leaves == Predicted(row.dep, update.departure, inferred)
           dep == IF arr > leaves THEN arr ELSE leaves
       IN  IF Deviates(dep, row.dep)
           THEN [arr |-> row.arr, dep |-> row.dep, realtime |-> FALSE]
           ELSE [arr |-> arr, dep |-> dep, realtime |-> TRUE]

ResolveTripTimes(row, update) ==
  IF update = None THEN [arr |-> row.arr, dep |-> row.dep, realtime |-> FALSE]
  ELSE LET inferred == InferredDelay(row, update.arrival, update.departure)
           arr == Predicted(row.arr, update.arrival, inferred)
           leaves == Predicted(row.dep, update.departure, inferred)
           dep == IF arr > leaves THEN arr ELSE leaves
       IN  IF Deviates(arr, row.arr) \/ Deviates(dep, row.dep)
           THEN [arr |-> row.arr, dep |-> row.dep, realtime |-> FALSE]
           ELSE [arr |-> arr, dep |-> dep, realtime |-> TRUE]
=============================================================================
