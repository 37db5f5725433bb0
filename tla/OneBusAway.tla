------------------------------ MODULE OneBusAway ------------------------------
(***************************************************************************)
(* OneBusAwayService: the list of arrivals and departures of a stop, and   *)
(* the upcoming trips that are taken from it.                              *)
(*                                                                         *)
(* An arrival is [trip, route, dir, enabled, predicted, schedArr,          *)
(* schedDep, predArr, predDep, updated, status]; predArr, predDep,         *)
(* updated and status may be None, and a status is [predicted, active,     *)
(* deviation].  A reply of the server is a sequence of arrivals, which is  *)
(* empty for a stop that it does not know, None for null, or Failed.       *)
(***************************************************************************)
EXTENDS TripStops

CONSTANT NullRetries \* how often a stop is asked for while the reply is null

ASSUME NullRetriesAssumption == NullRetries \in Nat \ {0}

(* The server writes 0 for a prediction that it does not have. *)
ArrivalKey(ad) ==
  IF ~ad.predicted THEN ad.schedArr ELSE IF ad.predArr = None THEN 0 ELSE ad.predArr

(* getArrivalsAndDeparturesForStop: a stop without arrivals and one that the
   server keeps answering null for are both None. *)
ArrivalsAndDepartures(replies) ==
  LET tries == {i \in 1..NullRetries : replies[i] # None}
      reply == IF tries = {} THEN None ELSE replies[Min(tries)]
  IN  CASE reply \in {None, Failed} -> reply
        [] reply = <<>> -> None
        [] OTHER -> StablySorted(reply, [i \in DOMAIN reply |-> ArrivalKey(reply[i])])

(* resolveTripTimes: a prediction too far off the schedule gives way to the
   deviation of the vehicle, if it serves this trip, and else to the
   schedule. *)
PlausibleDeviation(ad) ==
  /\ ad.status # None
  /\ ad.status.predicted /\ ad.status.active = ad.trip
  /\ ad.status.deviation # None /\ ~Deviates(ad.status.deviation, 0)

ResolveArrival(ad) ==
  LET realtime == ad.predicted /\ (ad.predArr # None \/ ad.predDep # None)
      dep == IF realtime /\ ad.predDep # None THEN ad.predDep ELSE ad.schedDep
      arr == IF realtime /\ ad.predArr # None THEN ad.predArr ELSE ad.schedArr
  IN  IF ~Deviates(dep, ad.schedDep) /\ ~Deviates(arr, ad.schedArr)
      THEN [arr |-> arr, dep |-> dep, realtime |-> realtime]
      ELSE IF PlausibleDeviation(ad)
      THEN [arr |-> ad.schedArr + ad.status.deviation,
            dep |-> ad.schedDep + ad.status.deviation, realtime |-> realtime]
      ELSE [arr |-> ad.schedArr, dep |-> ad.schedDep, realtime |-> FALSE]

LastUpdate(ad) == IF ad.updated = None THEN 0 ELSE ad.updated

(* A mistaken map that remembers the first entry of a trip for good. *)
ShownArrivals_First(arrivals, routes, now) ==
  FoldLeft(LAMBDA shown, ad :
             IF \/ ad.route \notin routes \/ ~ad.enabled
                \/ \E old \in shown : old.trip = ad.trip
                \/ ResolveArrival(ad).dep < now
             THEN shown
             ELSE shown \cup {ad},
           {}, arrivals)

(* seenTripStops: of a trip's entries the one that was updated last, among
   those that have not departed. *)
ShownArrivals(arrivals, routes, now) ==
  FoldLeft(LAMBDA shown, ad :
             IF \/ ad.route \notin routes \/ ~ad.enabled
                \/ \E old \in shown : old.trip = ad.trip /\ LastUpdate(old) >= LastUpdate(ad)
                \/ ResolveArrival(ad).dep < now
             THEN shown
             ELSE {old \in shown : old.trip # ad.trip} \cup {ad},
           {}, arrivals)

(* getUpcomingTripsForRoutesAtStops. *)
OneBusAwayTrips(board, pairs, now) ==
  LET at(stop) == ArrivalsAndDepartures(board[stop]) IN
  IF \E stop \in StopsOf(pairs) : at(stop) = Failed THEN Failed
  ELSE UNION {{[trip |-> ad.trip, route |-> ad.route, stop |-> stop, dir |-> ad.dir,
                arr |-> ResolveArrival(ad).arr, dep |-> ResolveArrival(ad).dep,
                realtime |-> ResolveArrival(ad).realtime] :
                 ad \in IF at(stop) = None THEN {}
                        ELSE ShownArrivals(at(stop), RoutesAt(pairs, stop), now)} :
              stop \in StopsOf(pairs)}
=============================================================================
