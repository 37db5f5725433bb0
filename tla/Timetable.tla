------------------------------ MODULE Timetable ------------------------------
(***************************************************************************)
(* The timetable that an imported GTFS feed leaves in the partitions: the  *)
(* post-processor that fills empty stop times after an import, statement   *)
(* by statement, and the query that reads one route at one stop.           *)
(*                                                                         *)
(* A stop time's times are ticks since midnight of the service day and may *)
(* lie beyond its end; its stop_sequence is its position in its trip.      *)
(* Days have no daylight saving changes, and the agency's time zone is the *)
(* clock's (FeedCache tells them apart).                                   *)
(***************************************************************************)
EXTENDS TripStops

VARIABLES
  table,      \* [stopTimes, trips, calendar] of the feed
  processing  \* how far InterpolateEmptyStopTimesPostProcessor has come

timetableVars == <<table, processing>>

-----------------------------------------------------------------------------
(* Interpolation. *)

Timed(rows) == {i \in DOMAIN rows : rows[i].arr # None}

(* A mistaken subquery without its ORDER BY ... DESC. *)
Previous_First(rows, i) ==
  LET before == {j \in Timed(rows) : j < i} IN
  IF before = {} THEN None ELSE Min(before)

(* s_prev and s_next: the timed stops around a stop. *)
Previous(rows, i) ==
  LET before == {j \in Timed(rows) : j < i} IN
  IF before = {} THEN None ELSE Max(before)

Following(rows, i) ==
  LET after == {j \in Timed(rows) : j > i} IN
  IF after = {} THEN None ELSE Min(after)

Between(rows, i) == Previous(rows, i) # None /\ Following(rows, i) # None

(* Whether the distances along the shape are used, or stop_sequence. *)
ByShape(rows, i) ==
  rows[Previous(rows, i)].dist # None /\ rows[Following(rows, i)].dist # None

(* An interpolated row whose result is not NULL. *)
Computable(rows, i) ==
  Between(rows, i) /\ (ByShape(rows, i) => rows[i].dist # None)

(* The length that the CASE divides by. *)
Span(rows, i) ==
  LET p == Previous(rows, i)
      n == Following(rows, i)
  IN  IF ByShape(rows, i) THEN rows[n].dist - rows[p].dist ELSE n - p

(* computed, rounded down to a tick. *)
InterpolatedArrival(rows, i) ==
  LET p == Previous(rows, i)
      n == Following(rows, i)
      along == IF ByShape(rows, i) THEN rows[i].dist - rows[p].dist ELSE i - p
  IN  rows[p].arr + ((rows[n].arr - rows[p].arr) * along) \div Span(rows, i)

Empty(rows) == DOMAIN rows \ Timed(rows)

(* Postgres raises an error for a division by zero, and the statement is
   one UPDATE for the whole feed. *)
DividesByZero(stopTimes) ==
  \E t \in DOMAIN stopTimes : \E i \in Empty(stopTimes[t]) :
    Computable(stopTimes[t], i) /\ Span(stopTimes[t], i) = 0

FillArrivals(rows) ==
  [i \in DOMAIN rows |->
     IF i \in Empty(rows) /\ Computable(rows, i)
     THEN [rows[i] EXCEPT !.arr = InterpolatedArrival(rows, i)] ELSE rows[i]]

(* A mistaken statement that fills departures it knows. *)
FillDepartures_All(rows) ==
  [i \in DOMAIN rows |-> [rows[i] EXCEPT !.dep = rows[i].arr]]

FillDepartures(rows) ==
  [i \in DOMAIN rows |->
     IF rows[i].dep = None THEN [rows[i] EXCEPT !.dep = rows[i].arr] ELSE rows[i]]

(* emptyArrivalTimesExist: without an empty arrival nothing is done, not
   even for empty departures. *)
CheckEmptyArrivals ==
  /\ processing = "imported"
  /\ processing' = IF \E t \in DOMAIN table.stopTimes : Empty(table.stopTimes[t]) # {}
                   THEN "arrivals" ELSE "skipped"
  /\ UNCHANGED table

InterpolateEmptyArrivalTimes ==
  /\ processing = "arrivals"
  /\ IF DividesByZero(table.stopTimes)
     THEN processing' = "failed" /\ UNCHANGED table
     ELSE /\ processing' = "departures"
          /\ table' = [table EXCEPT !.stopTimes = [t \in DOMAIN @ |-> FillArrivals(@[t])]]

UpdateEmptyDepartureTimes ==
  /\ processing = "departures"
  /\ processing' = "done"
  /\ table' = [table EXCEPT !.stopTimes = [t \in DOMAIN @ |-> FillDepartures(@[t])]]

(* The connection is lost: the statements before have taken effect. *)
FailPostProcessing ==
  /\ processing \in {"imported", "arrivals", "departures"}
  /\ processing' = "failed" /\ UNCHANGED table

PostProcess ==
  \/ CheckEmptyArrivals \/ InterpolateEmptyArrivalTimes
  \/ UpdateEmptyDepartureTimes \/ FailPostProcessing

-----------------------------------------------------------------------------
(* getScheduleForRouteAtStop. *)

(* final_active_services: the calendar, plus what calendar_dates adds, less
   what it removes. *)
ActiveServices(day) ==
  {s \in DOMAIN table.calendar :
     LET c == table.calendar[s] IN
     (day \in c.weekly \/ day \in c.added) /\ day \notin c.removed}

RouteTrips(route, day) ==
  {t \in DOMAIN table.trips :
     /\ table.trips[t].route = route
     /\ table.trips[t].service \in ActiveServices(day)
     /\ ~table.trips[t].frequency}

(* The rows of a service day with the times on the clock.  start_date is the
   day of the arrival, not the service day. *)
ScheduleForRouteAtStop(route, stop, day) ==
  UNION {{[trip |-> t, route |-> route, stop |-> stop, seq |-> i,
           dir |-> table.trips[t].dir, day |-> day,
           arr |-> day * Day + table.stopTimes[t][i].arr,
           dep |-> day * Day + table.stopTimes[t][i].dep,
           start |-> (day * Day + table.stopTimes[t][i].arr) \div Day] :
            i \in {j \in DOMAIN table.stopTimes[t] :
                     LET row == table.stopTimes[t][j] IN
                     row.stop = stop /\ row.arr # None /\ row.dep # None}} :
         t \in RouteTrips(route, day)}

-----------------------------------------------------------------------------
(* What a table may hold. *)

StopTimeOK(row) ==
  /\ row = [stop |-> row.stop, arr |-> row.arr, dep |-> row.dep, dist |-> row.dist,
            given |-> row.given]
  /\ row.arr \in Optional /\ row.dep \in Optional /\ row.dist \in Optional
  /\ row.given \in BOOLEAN
  /\ row.given => row.arr # None /\ row.dep # None /\ row.dep > row.arr

TripOK(rows) ==
  /\ IsFiniteSet(DOMAIN rows) /\ DOMAIN rows = 1..Cardinality(DOMAIN rows)
  /\ \A i \in DOMAIN rows : StopTimeOK(rows[i])

Forwards(rows) == \A i, j \in Timed(rows) : i < j => rows[i].arr <= rows[j].arr

Measured(rows) == {i \in DOMAIN rows : rows[i].dist # None}

Onwards(rows) == \A i, j \in Measured(rows) : i < j => rows[i].dist <= rows[j].dist

(* A departure comes with an arrival no later, and a trip is over at the end
   of the day after its service day. *)
Calls(rows) ==
  \A i \in DOMAIN rows : rows[i].dep # None => rows[i].arr # None /\ rows[i].arr <= rows[i].dep

WithinTwoDays(rows) == \A i \in Timed(rows) : rows[i].arr \in 0..(2 * Day)

TableOK ==
  /\ table = [stopTimes |-> table.stopTimes, trips |-> table.trips, calendar |-> table.calendar]
  /\ table.stopTimes = [t \in DOMAIN table.stopTimes |-> table.stopTimes[t]]
  /\ \A t \in DOMAIN table.stopTimes :
       LET rows == table.stopTimes[t] IN TripOK(rows) /\ Forwards(rows) /\ Onwards(rows)

Timely ==
  \A t \in DOMAIN table.stopTimes :
    Calls(table.stopTimes[t]) /\ WithinTwoDays(table.stopTimes[t])

(* How far post-processing has come: an arrival that is still empty after
   its first statement cannot be placed. *)
Unplaced(rows, i) == Between(rows, i) => ByShape(rows, i) /\ rows[i].dist = None

Placed(rows) == \A i \in Empty(rows) : Unplaced(rows, i)

Filling ==
  /\ processing \in {"departures", "done"} =>
       \A t \in DOMAIN table.stopTimes : Placed(table.stopTimes[t])
  /\ processing = "done" =>
       \A t \in DOMAIN table.stopTimes : \A i \in Timed(table.stopTimes[t]) :
         table.stopTimes[t][i].dep # None

TimetableSpec == TableOK /\ Filling /\ [][PostProcess]_timetableVars

-----------------------------------------------------------------------------
(* Properties. *)

(***************************************************************************)
(* No trip runs backwards: after any part of the post-processing the       *)
(* arrivals that a trip has do not decrease along it, whichever of its     *)
(* times and distances the agency left out.                                *)
(***************************************************************************)
TimesInOrder ==
  \A t \in DOMAIN table.stopTimes : LET rows == table.stopTimes[t] IN
    \A i, j \in Timed(rows) : i < j => rows[i].arr <= rows[j].arr

(***************************************************************************)
(* A stop time that is still without times when post-processing is done is *)
(* one that cannot be placed: nothing timed before it or after it, or no   *)
(* distance of its own between two stops that have one.  Every other can   *)
(* be shown to riders, and a departure that the agency gave stays.         *)
(***************************************************************************)
GapsFilled ==
  processing = "done" =>
    \A t \in DOMAIN table.stopTimes : LET rows == table.stopTimes[t] IN
      \A i \in DOMAIN rows :
        IF i \in Empty(rows) THEN Between(rows, i) => ByShape(rows, i) /\ rows[i].dist = None
        ELSE rows[i].dep # None /\ (rows[i].given => rows[i].dep > rows[i].arr)
=============================================================================
