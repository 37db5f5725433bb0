------------------------------ MODULE Departures ------------------------------
(***************************************************************************)
(* What a board shows: the four feed providers, the provider of all feeds  *)
(* and ScheduleService, which sorts and cuts the trips.  The GTFS feed's   *)
(* timetable may be asked between the statements of its post-processing.   *)
(*                                                                         *)
(* feeds maps the code of a registered feed to its provider:               *)
(*   [kind |-> "gtfs", endpoints, fuzzy]  trip updates, see GtfsRealtime   *)
(*   [kind |-> "onebusaway" | "hafas" | "mvg", boards]  a board per stop   *)
(* A request is [feed, pairs, sortByDeparture, nextPerRoute, limit]; feed  *)
(* is None to ask all feeds, and then the routes and stops of its pairs    *)
(* [route, stop, offset] are global ids [feed, id].                        *)
(***************************************************************************)
EXTENDS Timetable, GtfsRealtime, OneBusAway, Hafas, Mvg

CONSTANT Horizon \* bound: how many ticks a scenario lasts

VARIABLES
  feeds,
  request,
  now,    \* the clock
  asked,  \* bound: the ticks since the start
  answer  \* [trips] or [error], None while the request is not made

ASSUME ErrorsAssumption ==
  None \notin {"InvalidGlobalId", "FeedProviderNotFound", "MismatchedFeedCode"}

vars == <<table, processing, feeds, request, now, asked, answer>>

-----------------------------------------------------------------------------
(* GtfsService.getUpcomingTripsForRoutesAtStops. *)

(* A mistaken list without the day before. *)
ScheduleDates_Today == {0, 1}

ScheduleDates == {-1, 0, 1}

(* A row with the update that it matches and its times. *)
Resolved(row, updates, fuzzy) ==
  LET update == MatchTripUpdate(row, updates, fuzzy)
      stopUpdate == MatchStopTimeUpdate(row, update)
  IN  [row |-> row, update |-> update, stopUpdate |-> stopUpdate,
       times |-> ResolveTripTimes(row, stopUpdate)]

Distance(a, b) == IF a < b THEN b - a ELSE a - b

FeasiblyActive(times) ==
  Distance(times.arr, now) < ActiveWindow \/ Distance(times.dep, now) < ActiveWindow

(* A mistaken cancellation whatever the day it names. *)
Hidden_AnyDay(r) ==
  /\ r.update # None
  /\ \/ r.update.rel = "CANCELED"
     \/ r.stopUpdate # None /\ r.stopUpdate.rel = "SKIPPED"

(* A cancellation or skipped stop that is applied to the row. *)
Hidden(r) ==
  /\ r.update # None
  /\ FeasiblyActive(r.times) \/ r.update.start = r.row.start
  /\ \/ r.update.rel = "CANCELED"
     \/ r.stopUpdate # None /\ r.stopUpdate.rel = "SKIPPED"

(* The rows of a date and a pair. *)
RowsOf(gtfs, pairs, date, i) ==
  LET updates == TripUpdates(gtfs.endpoints, {pairs[j].route : j \in DOMAIN pairs}) IN
  {[date |-> date, pair |-> i, r |-> Resolved(row, updates, gtfs.fuzzy)] :
     row \in ScheduleForRouteAtStop(pairs[i].route, pairs[i].stop, now \div Day + date)}

ShownRows(gtfs, pairs) ==
  {x \in UNION {RowsOf(gtfs, pairs, date, i) : date \in ScheduleDates, i \in DOMAIN pairs} :
     x.r.times.dep >= now /\ ~Hidden(x.r)}

(* dedupKey *)
SameKey(x, y) ==
  /\ x.r.row.trip = y.r.row.trip
  /\ x.r.times.arr = y.r.times.arr /\ x.r.times.dep = y.r.times.dep

Before(x, y) == x.date < y.date \/ (x.date = y.date /\ x.pair < y.pair)

(* Of rows with the same key the one of the first date and pair is shown. *)
GtfsTrips(gtfs, pairs) ==
  LET shown == ShownRows(gtfs, pairs) IN
  {[trip |-> x.r.row.trip, route |-> x.r.row.route, stop |-> x.r.row.stop,
    dir |-> x.r.row.dir, arr |-> x.r.times.arr, dep |-> x.r.times.dep,
    realtime |-> x.r.times.realtime] :
     x \in {y \in shown : ~\E z \in shown : SameKey(y, z) /\ Before(z, y)}}

-----------------------------------------------------------------------------
(* The providers of one feed and of all. *)

ProviderTrips(provider, pairs) ==
  CASE provider.kind = "gtfs" -> GtfsTrips(provider, pairs)
    [] provider.kind = "onebusaway" -> OneBusAwayTrips(provider.boards, pairs, now)
    [] provider.kind = "hafas" -> HafasTrips(provider.boards, pairs, now)
    [] provider.kind = "mvg" -> MvgTrips(provider.boards, pairs, now)

(* fromGlobalId: why an id is refused, or None. *)
IdError(id) ==
  CASE id.feed = None \/ id.id = None -> "InvalidGlobalId"
    [] id.feed \notin DOMAIN feeds -> "FeedProviderNotFound"
    [] OTHER -> None

PairError(pair) ==
  IF IdError(pair.stop) # None THEN IdError(pair.stop)
  ELSE IF IdError(pair.route) # None THEN IdError(pair.route)
  ELSE IF pair.stop.feed # pair.route.feed THEN "MismatchedFeedCode" ELSE None

(* routeStopsByFeed, with the ids that the feed knows. *)
PairsOfFeed(pairs, feed) ==
  LET mine == Filtered(pairs, {i \in DOMAIN pairs : pairs[i].stop.feed = feed})
  IN  [i \in DOMAIN mine |-> [route |-> mine[i].route.id, stop |-> mine[i].stop.id]]

ToGlobalId(feed, id) == [feed |-> feed, id |-> id]

Globally(feed, trips) ==
  {[t EXCEPT !.trip = ToGlobalId(feed, @), !.route = ToGlobalId(feed, @),
             !.stop = ToGlobalId(feed, @)] : t \in trips}

(* A mistaken Promise.allSettled. *)
AllFeedsTrips_Settled(pairs) ==
  LET refused == {i \in DOMAIN pairs : PairError(pairs[i]) # None}
      of(feed) == ProviderTrips(feeds[feed], PairsOfFeed(pairs, feed))
      involved == {pairs[i].stop.feed : i \in DOMAIN pairs}
  IN  IF refused # {} THEN [error |-> PairError(pairs[Min(refused)])]
      ELSE [trips |-> UNION {Globally(feed, of(feed)) :
                               feed \in {f \in involved : of(f) # Failed}}]

(* AllFeedsService.getUpcomingTripsForRoutesAtStops: one feed that fails
   makes the request fail. *)
AllFeedsTrips(pairs) ==
  LET refused == {i \in DOMAIN pairs : PairError(pairs[i]) # None}
      of(feed) == ProviderTrips(feeds[feed], PairsOfFeed(pairs, feed))
      involved == {pairs[i].stop.feed : i \in DOMAIN pairs}
  IN  IF refused # {} THEN [error |-> PairError(pairs[Min(refused)])]
      ELSE IF \E feed \in involved : of(feed) = Failed THEN [error |-> "upstream"]
      ELSE [trips |-> UNION {Globally(feed, of(feed)) : feed \in involved}]

(* getFeedProvider and the call of it. *)
UpcomingTrips ==
  IF request.feed = None THEN AllFeedsTrips(request.pairs)
  ELSE IF request.feed \notin DOMAIN feeds THEN [error |-> "Invalid feed code"]
  ELSE LET trips == ProviderTrips(feeds[request.feed], request.pairs)
       IN  IF trips = Failed THEN [error |-> "upstream"] ELSE [trips |-> trips]

-----------------------------------------------------------------------------
(* ScheduleService.getUpcomingTrips. *)

SortKey(trip) == IF request.sortByDeparture THEN trip.dep ELSE trip.arr

(* The offset of the first pair that the trip answers. *)
OffsetOf(trip) ==
  LET its == {i \in DOMAIN request.pairs : /\ request.pairs[i].route = trip.route
                                           /\ request.pairs[i].stop = trip.stop}
  IN  IF its = {} THEN 0 ELSE request.pairs[Min(its)].offset

Offset(trips) ==
  {[t EXCEPT !.arr = @ + OffsetOf(t), !.dep = @ + OffsetOf(t)] : t \in trips}

SortedTrips(trips) ==
  LET sorted[T \in SUBSET trips] ==
        IF T = {} THEN <<>>
        ELSE LET first == CHOOSE t \in T : \A u \in T : SortKey(t) <= SortKey(u)
             IN  <<first>> \o sorted[T \ {first}]
  IN  sorted[trips]

(* The first trip of each route and direction. *)
NextPerRoute(sorted) ==
  LET first == {i \in DOMAIN sorted :
                  \A j \in 1..(i - 1) : \/ sorted[j].route # sorted[i].route
                                        \/ sorted[j].dir # sorted[i].dir}
  IN  Filtered(sorted, first)

(* A mistaken order: the limit before the next of each route. *)
Cut_LimitFirst(sorted) ==
  LET some == SubSeq(sorted, 1, IF Len(sorted) < request.limit THEN Len(sorted)
                                                               ELSE request.limit)
  IN  IF request.nextPerRoute THEN NextPerRoute(some) ELSE some

Cut(sorted) ==
  LET listed == IF request.nextPerRoute THEN NextPerRoute(sorted) ELSE sorted
  IN  SubSeq(listed, 1, IF Len(listed) < request.limit THEN Len(listed) ELSE request.limit)

Upcoming(trips) == {t \in Offset(trips) : SortKey(t) > now}

GetSchedule ==
  IF "error" \in DOMAIN UpcomingTrips THEN UpcomingTrips
  ELSE [trips |-> Cut(SortedTrips(Upcoming(UpcomingTrips.trips)))]

-----------------------------------------------------------------------------
(* A scenario, before anything is asked. *)
Start(t, p, f, r, clock) ==
  /\ table = t /\ processing = p
  /\ feeds = f /\ request = r
  /\ now = clock /\ asked = 0 /\ answer = None

(* A poll, or GET /schedule. *)
Ask ==
  /\ answer = None
  /\ answer' = GetSchedule
  /\ UNCHANGED <<timetableVars, feeds, request, now, asked>>

Tick ==
  /\ asked < Horizon
  /\ asked' = asked + 1 /\ now' = now + 1 /\ answer' = None
  /\ UNCHANGED <<timetableVars, feeds, request>>

Next ==
  \/ Ask
  \/ Tick
  \/ PostProcess /\ answer' = None /\ UNCHANGED <<feeds, request, now, asked>>

-----------------------------------------------------------------------------
(* What the database and the other services may answer with, and what may be
   asked for. *)

(* The timetable is finite, and every trip has its stop times. *)
Served == IsFiniteSet(DOMAIN table.trips) /\ DOMAIN table.trips \subseteq DOMAIN table.stopTimes

Half == [time : Optional, delay : Optional]

StopUpdateOK(s) ==
  /\ s.seq \in Optional
  /\ s.arrival \in Half \cup {None} /\ s.departure \in Half \cup {None}

UpdateOK(u) == IsSequence(u.stops) /\ \A i \in DOMAIN u.stops : StopUpdateOK(u.stops[i])

EndpointsOK(endpoints) ==
  /\ IsSequence(endpoints)
  /\ \A i \in DOMAIN endpoints : LET body == endpoints[i].body IN
       body = None \/ (IsSequence(body) /\ \A j \in DOMAIN body : body[j] # None => UpdateOK(body[j]))

ArrivalOK(ad) ==
  /\ ad.schedArr \in Int /\ ad.schedDep \in Int
  /\ ad.predArr \in Optional /\ ad.predDep \in Optional /\ ad.updated \in Optional
  /\ ad.status # None => ad.status.deviation \in Optional

ReplyOK(reply) ==
  \/ reply \in {None, Failed}
  \/ IsSequence(reply) /\ \A i \in DOMAIN reply : ArrivalOK(reply[i])

EntryOK(e) == e.when \in Optional /\ e.planned \in Optional

EntriesOK(entries) == IsSequence(entries) /\ \A i \in DOMAIN entries : EntryOK(entries[i])

(* A provider, with a board for each of the stops. *)
ProviderOK(p, stops) ==
  /\ p.kind \in {"gtfs", "onebusaway", "hafas", "mvg"}
  /\ p.kind = "gtfs" => EndpointsOK(p.endpoints)
  /\ p.kind = "onebusaway" =>
       \A stop \in stops : \A i \in 1..NullRetries : ReplyOK(p.boards[stop][i])
  /\ p.kind = "hafas" =>
       \A stop \in stops : LET board == p.boards[stop] IN
         board = Failed \/ (EntriesOK(board.departures) /\ EntriesOK(board.arrivals))
  /\ p.kind = "mvg" =>
       \A stop \in stops : LET board == p.boards[stop] IN
         \/ board = Failed
         \/ IsSequence(board) /\ \A i \in DOMAIN board : board[i].expected \in Int

AskedPairs(f) == IF request.feed = None THEN PairsOfFeed(request.pairs, f) ELSE request.pairs

Asked ==
  {f \in DOMAIN feeds : \/ request.feed = f
                        \/ /\ request.feed = None
                           /\ \E i \in DOMAIN request.pairs : request.pairs[i].stop.feed = f}

ProvidersOK == \A f \in Asked : ProviderOK(feeds[f], StopsOf(AskedPairs(f)))

RequestOK ==
  /\ IsSequence(request.pairs) /\ \A i \in DOMAIN request.pairs : request.pairs[i].offset \in Int
  /\ request.limit \in Nat

(***************************************************************************)
(* The types of the timetable, of the answers of other services and of a   *)
(* request; times and distances do not decrease along a trip, whatever the *)
(* post-processing has filled in.                                          *)
(***************************************************************************)
TypeOK == TableOK /\ Served /\ Timely /\ now \in Int /\ RequestOK /\ ProvidersOK

(* Any scenario; those that are checked are a choice of these. *)
Init == TypeOK /\ Filling /\ answer = None

Spec == Init /\ [][Next]_vars

-----------------------------------------------------------------------------
(* Properties. *)

Answered == answer # None /\ "trips" \in DOMAIN answer

Listed == {answer.trips[i] : i \in DOMAIN answer.trips}

Full == Len(answer.trips) = request.limit

(* The trips that ScheduleService has to choose from. *)
Candidates == Upcoming(UpcomingTrips.trips)

Named(feed, id) == IF request.feed = None THEN ToGlobalId(feed, id) ELSE id

(* A trip of the timetable on one service day, at one of its stops. *)
Instances(route, stop) ==
  UNION {ScheduleForRouteAtStop(route, stop, day) : day \in (now \div Day - 4)..(now \div Day + 4)}

(* The feeds of the timetable that are asked, with their updates. *)
AskedGtfs ==
  {f \in DOMAIN feeds : /\ feeds[f].kind = "gtfs"
                        /\ request.feed = None => \E i \in DOMAIN request.pairs :
                                                    request.pairs[i].stop.feed = f
                        /\ request.feed # None => request.feed = f}

UpdatesOf(f) ==
  LET pairs == AskedPairs(f)
      updates == TripUpdates(feeds[f].endpoints, {pairs[i].route : i \in DOMAIN pairs})
  IN  {updates[i] : i \in DOMAIN updates}

About(update, x) ==
  update.trip # None /\ (update.trip = x.trip \/ <<x.trip, update.trip>> \in Contained)

(* x is on the board, or the board is full or has an earlier trip of the
   same route and direction. *)
OnBoard(f, x, key) ==
  \/ \E t \in Listed : t.trip = Named(f, x.trip) /\ t.arr = x.arr /\ t.dep = x.dep
  \/ Full /\ \A t \in Listed : SortKey(t) <= key
  \/ request.nextPerRoute /\ \E t \in Listed : /\ t.route = Named(f, x.route) /\ t.dir = x.dir
                                               /\ SortKey(t) <= key

(* No pair of the feed asks for an offset: of a trip with the same times at
   two stops one is listed, with the offset of that stop. *)
Unshifted(f) ==
  \A i \in DOMAIN request.pairs :
    request.feed = f \/ request.pairs[i].stop.feed = f => request.pairs[i].offset = 0

(* Every trip of the next day with a time on the clock, at a pair that is
   asked for. *)
Soon(f) ==
  {x \in UNION {Instances(AskedPairs(f)[i].route, AskedPairs(f)[i].stop) : i \in DOMAIN AskedPairs(f)} :
     Unshifted(f) /\ now < x.arr /\ x.arr < now + Day /\ x.arr <= x.dep}

(***************************************************************************)
(* No trip is missed: a trip of any service day, one that runs on after    *)
(* midnight too, that arrives within a day is on the board at its          *)
(* scheduled time, unless a trip update is about it and names no day or    *)
(* the day of its arrival.  Updates of other days, and endpoints that      *)
(* fail, do not disturb it.                                                *)
(***************************************************************************)
NoTripMissed ==
  Answered => \A f \in AskedGtfs : \A x \in Soon(f) :
    (~\E u \in UpdatesOf(f) : About(u, x) /\ u.start \in {None, x.start})
      => OnBoard(f, x, IF request.sortByDeparture THEN x.dep ELSE x.arr)

(***************************************************************************)
(* A cancellation without a date takes the trip off the board that is      *)
(* under way, not the ones it makes on the next day: they are hidden only  *)
(* within four hours.                                                      *)
(***************************************************************************)
NotCanceledAhead ==
  Answered => \A f \in AskedGtfs : \A x \in Soon(f) :
    (/\ \E u \in UpdatesOf(f) : About(u, x)
     /\ \A u \in UpdatesOf(f) : About(u, x) => /\ u.start = None /\ u.rel = "CANCELED"
                                               /\ u.stops = <<>>
     /\ x.arr >= now + ActiveWindow)
      => OnBoard(f, x, IF request.sortByDeparture THEN x.dep ELSE x.arr)

(***************************************************************************)
(* A board shows times that can be: a GTFS trip leaves no earlier than it  *)
(* arrives, is within 90 minutes of a scheduled call of that trip at that  *)
(* stop, and exactly on schedule unless it is marked as real-time,         *)
(* whatever halves of whatever updates are missing.                        *)
(***************************************************************************)
TimesPlausible ==
  Answered /\ request.feed \in AskedGtfs => \A t \in Listed :
    LET offset == OffsetOf(t) IN
    /\ t.arr <= t.dep
    /\ \E x \in Instances(t.route, t.stop) :
         /\ x.trip = t.trip
         /\ ~Deviates(t.arr - offset, x.arr) /\ ~Deviates(t.dep - offset, x.dep)
         /\ ~t.realtime => t.arr - offset = x.arr /\ t.dep - offset = x.dep

(***************************************************************************)
(* The board is in order and shows what comes first: a trip that could be  *)
(* listed and is not comes no earlier than the ones listed on a full       *)
(* board, or than the one of its route and direction when only the next of *)
(* each is wanted.                                                         *)
(***************************************************************************)
EarliestFirst ==
  Answered =>
    /\ \A i, j \in DOMAIN answer.trips : i < j =>
         SortKey(answer.trips[i]) <= SortKey(answer.trips[j])
    /\ Len(answer.trips) <= request.limit
    /\ \A t \in Candidates \ Listed :
         \/ Full /\ \A u \in Listed : SortKey(u) <= SortKey(t)
         \/ request.nextPerRoute /\ \E u \in Listed : /\ u.route = t.route /\ u.dir = t.dir
                                                      /\ SortKey(u) <= SortKey(t)

(***************************************************************************)
(* Asking all feeds at once is asking for each pair alone: the feeds are   *)
(* kept apart although they use the same ids, and a request is refused     *)
(* rather than answered without one of its pairs.  (A trip at two of the   *)
(* stops at the very same times is listed at one of them.)                 *)
(***************************************************************************)
PairByPair ==
  Answered /\ request.feed = None =>
    LET alone(i) == ProviderTrips(feeds[request.pairs[i].stop.feed],
                                  <<[route |-> request.pairs[i].route.id,
                                     stop |-> request.pairs[i].stop.id]>>)
        globally(i) == Globally(request.pairs[i].stop.feed, alone(i))
    IN  /\ \A i \in DOMAIN request.pairs : alone(i) # Failed
        /\ UpcomingTrips.trips \subseteq UNION {globally(i) : i \in DOMAIN request.pairs}
        /\ \A i \in DOMAIN request.pairs : \A t \in globally(i) :
             \E u \in UpcomingTrips.trips : u.trip = t.trip /\ u.arr = t.arr /\ u.dep = t.dep

(***************************************************************************)
(* gtfs.service.ts:361 of a cancellation: "explicitly have the same start  *)
(* date as the trip".  The start date of a trip is its service day, also   *)
(* for a trip that calls after midnight: canceled on that day, it is not   *)
(* on the board.                                                           *)
(***************************************************************************)
CanceledOnItsStartDate ==
  Answered => \A f \in AskedGtfs : \A x \in Soon(f) :
    (/\ \E u \in UpdatesOf(f) : u.trip = x.trip
     /\ \A u \in UpdatesOf(f) : /\ u.trip = x.trip /\ u.rel = "CANCELED"
                                 /\ u.start = x.day /\ u.stops = <<>>)
      => ~\E t \in Listed : t.trip = Named(f, x.trip) /\ t.stop = Named(f, x.stop) /\ t.arr = x.arr

(***************************************************************************)
(* Of the entries that a OneBusAway server lists for one trip at a stop    *)
(* (it may repeat a trip with predictions of different age) the board      *)
(* shows the one updated last among those still to leave, in whatever      *)
(* order they come.                                                        *)
(***************************************************************************)
NewestPredictionShown ==
  Answered /\ request.feed # None /\ feeds[request.feed].kind = "onebusaway" =>
    \A stop \in StopsOf(request.pairs) :
      LET list == ArrivalsAndDepartures(feeds[request.feed].boards[stop])
          usable == {i \in IF list = None THEN {} ELSE DOMAIN list :
                       /\ list[i].enabled /\ list[i].route \in RoutesAt(request.pairs, stop)
                       /\ ResolveArrival(list[i]).dep >= now}
      IN  \A i \in usable :
            \E t \in UpcomingTrips.trips : \E j \in usable :
              /\ t.stop = stop /\ t.trip = list[i].trip /\ list[j].trip = t.trip
              /\ t.dep = ResolveArrival(list[j]).dep
              /\ \A k \in usable : list[k].trip = t.trip => LastUpdate(list[k]) <= LastUpdate(list[j])

(***************************************************************************)
(* A HAFAS trip that is on the board of departures and of arrivals is one  *)
(* trip with both times, and one that is only on one of them has that      *)
(* time: the order in which the two answers are merged does not show.      *)
(***************************************************************************)
BoardsMerged ==
  Answered /\ request.feed # None /\ feeds[request.feed].kind = "hafas" =>
    \A stop \in StopsOf(request.pairs) :
      LET board == feeds[request.feed].boards[stop]
          of(entries, trip) == {e \in ToSet(Shown(entries)) : e.trip = trip}
      IN  \A t \in UpcomingTrips.trips : t.stop = stop =>
            LET leaves == {When(e) : e \in of(board.departures, t.trip)}
                comes == {When(e) : e \in of(board.arrivals, t.trip)}
            IN  /\ t.dep \in IF leaves = {} THEN comes ELSE leaves
                /\ t.arr \in IF comes = {} THEN leaves ELSE comes
=============================================================================
