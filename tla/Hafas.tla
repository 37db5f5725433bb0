-------------------------------- MODULE Hafas --------------------------------
(***************************************************************************)
(* HafasService: the board of a stop, made of its departures and its       *)
(* arrivals.                                                               *)
(*                                                                         *)
(* A departure or an arrival is [trip, route, dir, cancelled, when,        *)
(* planned, delay]; when, planned and delay may be None.  The board of a   *)
(* stop is [departures, arrivals], or Failed.                              *)
(***************************************************************************)
EXTENDS TripStops

When(entry) == IF entry.when # None THEN entry.when ELSE entry.planned

Shown(entries) ==
  Filtered(entries, {i \in DOMAIN entries : ~entries[i].cancelled /\ When(entries[i]) # None})

(* One entry of a group, merged with the trip that is there already. *)
MergeEntry(trips, stop, group, e) ==
  LET old == {t \in trips : t.trip = e.trip} IN
  IF old = {}
  THEN trips \cup {[trip |-> e.trip, route |-> e.route, stop |-> stop, dir |-> e.dir,
                    arr |-> When(e), dep |-> When(e), realtime |-> e.delay # None]}
  ELSE LET t == CHOOSE x \in old : TRUE
           live == t.realtime \/ e.delay # None
       IN  (trips \ old) \cup
             {IF group = "departures"
              THEN [t EXCEPT !.dep = When(e), !.realtime = live]
              ELSE [t EXCEPT !.arr = When(e), !.realtime = live]}

(* A mistaken loop over the two in alphabetical order of their names: a trip
   keeps the arrival as its departure. *)
TripsForStop_Arrivals(board, stop) ==
  LET departures == FoldLeft(LAMBDA trips, e : MergeEntry(trips, stop, "arrivals", e),
                             {}, Shown(board.departures))
  IN  FoldLeft(LAMBDA trips, e : MergeEntry(trips, stop, "departures", e),
               departures, Shown(board.arrivals))

(* getUpcomingTripsForStop: the departures, then the arrivals. *)
TripsForStop(board, stop) ==
  LET departures == FoldLeft(LAMBDA trips, e : MergeEntry(trips, stop, "departures", e),
                             {}, Shown(board.departures))
  IN  FoldLeft(LAMBDA trips, e : MergeEntry(trips, stop, "arrivals", e),
               departures, Shown(board.arrivals))

(* getUpcomingTripsForRoutesAtStops. *)
HafasTrips(boards, pairs, now) ==
  IF \E stop \in StopsOf(pairs) : boards[stop] = Failed THEN Failed
  ELSE UNION {{t \in TripsForStop(boards[stop], stop) :
                 t.dep >= now /\ t.route \in RoutesAt(pairs, stop)} :
              stop \in StopsOf(pairs)}
=============================================================================
