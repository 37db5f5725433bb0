--------------------------------- MODULE Mvg ---------------------------------
(***************************************************************************)
(* MvgService: the departures of a station.  A departure is [line, code,   *)
(* planned, expected, live, cancelled]; the board of a station is a        *)
(* sequence of them, or Failed.                                            *)
(***************************************************************************)
EXTENDS TripStops

(* The API names no trips: a departure is told by its line, the code of its
   trip and the time it was planned for. *)
MvgTripId(d) == <<d.line, d.code, d.planned>>

Running(departures, routes, now) ==
  Filtered(departures, {i \in DOMAIN departures :
                          LET d == departures[i] IN
                          d.line \in routes /\ ~d.cancelled /\ d.expected >= now})

(* Of two entries with one id the first is shown. *)
DeparturesShown(departures) ==
  {departures[i] : i \in {j \in DOMAIN departures :
                            \A k \in 1..(j - 1) : MvgTripId(departures[k]) # MvgTripId(departures[j])}}

(* getUpcomingTripsForRoutesAtStops. *)
MvgTrips(boards, pairs, now) ==
  IF \E stop \in StopsOf(pairs) : boards[stop] = Failed THEN Failed
  ELSE UNION {{[trip |-> MvgTripId(d), route |-> d.line, stop |-> stop, dir |-> None,
                arr |-> d.expected, dep |-> d.expected, realtime |-> d.live] :
                 d \in DeparturesShown(Running(boards[stop], RoutesAt(pairs, stop), now))} :
              stop \in StopsOf(pairs)}
=============================================================================
