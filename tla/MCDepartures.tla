----------------------------- MODULE MCDepartures -----------------------------
(***************************************************************************)
(* Scenarios to start Departures from: timetables with gaps, trips before  *)
(* and after midnight under every kind of update, boards of the other      *)
(* providers, and requests to several feeds.                               *)
(***************************************************************************)
EXTENDS Departures

CONSTANTS T1, T2, U1, R1, R2, S1, S2, G, O, H, M

MCContained == {<<T1, T1>>, <<T2, T2>>, <<T1, U1>>}

Daily == [weekly |-> -5..5, added |-> {}, removed |-> {}]
OnDay(d) == [weekly |-> {}, added |-> {d}, removed |-> {}]
NotOnDay(d) == [weekly |-> -5..5, added |-> {d}, removed |-> {d}]

Trip(service, dir) == [route |-> R1, service |-> service, dir |-> dir, frequency |-> FALSE]

StopTime(stop, arr, dep, dist) ==
  [stop |-> stop, arr |-> arr, dep |-> dep, dist |-> dist,
   given |-> arr # None /\ dep # None /\ dep > arr]

Table(rows1, rows2, calendar) ==
  [stopTimes |-> (T1 :> rows1 @@ T2 :> rows2),
   trips |-> (T1 :> Trip("weekday", 0) @@ T2 :> Trip("extra", 1)),
   calendar |-> ("weekday" :> calendar @@ "extra" :> Daily)]

Gtfs(endpoints, fuzzy) == [kind |-> "gtfs", endpoints |-> endpoints, fuzzy |-> fuzzy]

Pair(route, stop, offset) == [route |-> route, stop |-> stop, offset |-> offset]

Request(feed, pairs) == [feed |-> feed, pairs |-> pairs, sortByDeparture |-> FALSE,
                         nextPerRoute |-> FALSE, limit |-> 6]

-----------------------------------------------------------------------------
(* Gaps: a trip of four stops whose times, departures and distances are
   left out in every combination.  Times and distances do not decrease. *)
Masked(values, mask) == [i \in 1..4 |-> IF i \in mask THEN values[i] ELSE None]

Departs(kind, arr) ==
  CASE kind = "none" \/ arr = None -> None [] kind = "same" -> arr [] kind = "later" -> arr + 1

Gaps ==
  \E arrs \in {<<20, 26, 26, 27>>, <<20, 20, 23, 24>>}, timed \in SUBSET (1..4),
     kind \in {"none", "same", "later"}, dists \in {<<0, 3, 4, 9>>, <<0, 5, 5, 5>>},
     measured \in SUBSET (1..4) :
    LET arr == Masked(arrs, timed)
        dist == Masked(dists, measured)
    IN  Start(Table([i \in 1..4 |-> StopTime(IF i = 2 THEN S1 ELSE S2, arr[i],
                                              Departs(kind, arr[i]), dist[i])],
                    <<StopTime(S1, 30, None, None)>>, Daily),
              "imported", G :> Gtfs(<<>>, FALSE), Request(G, <<Pair(R1, S1, 0)>>), 19)

-----------------------------------------------------------------------------
(* Trips before and after midnight (48) under trip updates. *)
Event(time, delay) == [time |-> time, delay |-> delay]

StopUpdate(seq, stop, rel, arrival, departure) ==
  [seq |-> seq, stop |-> stop, rel |-> rel, arrival |-> arrival, departure |-> departure]

(* The time of the call at S2 on day 1 in the two tables is 68 and 98. *)
StopUpdates ==
  {<<>>,
   <<StopUpdate(2, None, "SCHEDULED", Event(70, None), None)>>,
   <<StopUpdate(None, S2, "SCHEDULED", None, Event(71, None))>>,
   <<StopUpdate(None, S2, "SCHEDULED", Event(65, None), Event(None, 0))>>,
   <<StopUpdate(2, S2, "SCHEDULED", Event(101, 3), Event(99, None))>>,
   <<StopUpdate(2, S2, "SKIPPED", None, None)>>,
   <<StopUpdate(1, S1, "SCHEDULED", None, Event(None, 2))>>,
   <<StopUpdate(0, None, "SCHEDULED", Event(None, 4), None),
     StopUpdate(1, None, "SCHEDULED", Event(None, -3), Event(None, 1))>>}

Updates ==
  {[trip |-> t, start |-> s, rel |-> r, stops |-> u] :
     t \in {T1, U1}, s \in {None, 0, 1, 2}, r \in {"SCHEDULED", "CANCELED"}, u \in StopUpdates}

Endpoint(routes, body) == [routeIds |-> routes, body |-> body]

Broken == Endpoint({}, None)

Bodies ==
  {<<Broken>>} \cup {<<Endpoint({}, <<u>>)>> : u \in Updates}
    \cup {<<Broken, Endpoint({R2}, <<u>>), Endpoint({R1, R2}, <<None, v>>)>> :
            u \in {w \in Updates : w.stops = <<>> /\ w.start = None},
            v \in {w \in Updates : w.trip = T1 /\ Len(w.stops) = 2}}
    \cup {<<Endpoint({}, <<u, v>>)>> :
            u \in {w \in Updates : w.trip = U1 /\ w.stops = <<>>},
            v \in {w \in Updates : w.trip = T1 /\ w.start # 2 /\ w.rel = "SCHEDULED"}}

UnderUpdates ==
  \E a \in {19, 49}, calendar \in {Daily, OnDay(1), NotOnDay(1)}, body \in Bodies,
     fuzzy \in BOOLEAN, clock \in {48, 66, 96} :
    Start(Table(<<StopTime(S1, a, a, None), StopTime(S2, a + 1, a + 2, None)>>,
                <<StopTime(S2, 21, 21, None)>>, calendar),
          "done", G :> Gtfs(body, fuzzy), Request(G, <<Pair(R1, S2, 0)>>), clock)

-----------------------------------------------------------------------------
(* The boards of the other providers. *)
SeqsUpTo(S, n) == UNION {[1..k -> S] : k \in 0..n}

Ad(trip, dir, sched, arr, dep, updated, status) ==
  [trip |-> trip, route |-> R1, dir |-> dir, enabled |-> TRUE, predicted |-> arr # None \/ dep # None,
   schedArr |-> sched, schedDep |-> sched, predArr |-> arr, predDep |-> dep,
   updated |-> updated, status |-> status]

Vehicle(trip) == [predicted |-> TRUE, active |-> trip, deviation |-> 1]

Ads ==
  {Ad(T1, 0, 20, None, None, None, None), Ad(T1, 0, 20, 18, 18, 2, None), Ad(T1, 0, 20, 21, 21, 1, None),
   Ad(T1, 0, 20, 22, None, 3, None), Ad(T1, 0, 20, 29, 29, 2, Vehicle(T1)),
   Ad(T1, 0, 20, 29, 29, 1, Vehicle(T2)),
   Ad(T2, 1, 20, 20, 20, 1, None), [Ad(T2, 1, 19, None, None, 2, None) EXCEPT !.enabled = FALSE],
   [Ad(T2, 1, 21, None, 23, 2, None) EXCEPT !.route = R2]}

Always(reply) == [i \in 1..NullRetries |-> reply]

Replies ==
  {Always(r) : r \in SeqsUpTo(Ads, 3)} \cup
  {<<None, r, r>> : r \in SeqsUpTo(Ads, 1) \cup {None, Failed}}

NoTable == [stopTimes |-> <<>>, trips |-> <<>>, calendar |-> <<>>]

OneBusAwayBoards ==
  \E b \in Replies :
    Start(NoTable, "done", O :> [kind |-> "onebusaway", boards |-> (S1 :> b)],
          Request(O, <<Pair(R1, S1, 0)>>), 18)

Entry(trip, route, when, planned, delay) ==
  [trip |-> trip, route |-> route, dir |-> 0, cancelled |-> FALSE,
   when |-> when, planned |-> planned, delay |-> delay]

HafasDepartures ==
  {Entry(T1, R1, 21, 20, 1), Entry(T2, R1, None, 19, None), Entry(T2, R1, 22, 22, None),
   [Entry(T1, R1, 20, 20, None) EXCEPT !.cancelled = TRUE]}

HafasArrivals ==
  {Entry(T1, R1, 20, 19, 1), Entry(T2, R1, 23, 23, None), Entry(U1, R2, 24, 24, None),
   Entry(T2, R1, None, None, None)}

HafasBoards ==
  \E d \in SeqsUpTo(HafasDepartures, 2), a \in SeqsUpTo(HafasArrivals, 2) :
   \E board \in {Failed, [departures |-> d, arrivals |-> a]} :
    Start(NoTable, "done", H :> [kind |-> "hafas", boards |-> (S1 :> board)],
          Request(H, <<Pair(R1, S1, 0), Pair(R2, S1, 0)>>), 19)

-----------------------------------------------------------------------------
(* Requests to several feeds that use the same ids, and to a board long
   enough to be cut. *)
Departure(line, planned, expected, live) ==
  [line |-> line, code |-> 7, planned |-> planned, expected |-> expected, live |-> live,
   cancelled |-> FALSE]

MixedFeeds(down) ==
  G :> Gtfs(<<Broken>>, FALSE) @@
  O :> [kind |-> "onebusaway",
        boards |-> (S1 :> (IF down THEN Always(Failed)
                           ELSE Always(<<Ad(T1, 0, 23, 22, 22, 1, None), Ad(T2, 1, 24, None, None, 1, None)>>))
                 @@ S2 :> Always(<<>>))] @@
  M :> [kind |-> "mvg",
        boards |-> (S1 :> <<Departure(R1, 21, 24, TRUE), Departure(R1, 23, 23, FALSE),
                            Departure(R2, 21, 25, TRUE), Departure(R1, 21, 25, TRUE)>>
                 @@ S2 :> IF down THEN Failed ELSE <<Departure(R2, 20, 20, FALSE)>>)]

Id(feed, id) == [feed |-> feed, id |-> id]

GlobalPairs ==
  {Pair(Id(f, r), Id(f, s), offset) : f \in {G, O, M}, r \in {R1, R2}, s \in {S1, S2}, offset \in {0}}
    \cup {Pair(Id(O, R1), Id(O, S1), -2), Pair(Id(M, R1), Id(M, S1), 3),
          Pair(Id(None, R1), Id(G, S1), 0), Pair(Id(G, R1), Id(H, S1), 0), Pair(Id(G, R1), Id(O, S1), 0)}

MixedTable == Table(<<StopTime(S1, 21, 21, None), StopTime(S2, 23, 24, None)>>,
                    <<StopTime(S1, 23, 23, None)>>, Daily)

SeveralFeeds ==
  \E down, dep, next \in BOOLEAN, p, q \in GlobalPairs :
    Start(MixedTable, "done", MixedFeeds(down),
          [feed |-> None, pairs |-> <<p, q>>, sortByDeparture |-> dep, nextPerRoute |-> next,
           limit |-> 2], 20)

OneFeed ==
  \E feed \in {H, M, O} :
    Start(MixedTable, "done", MixedFeeds(FALSE), Request(feed, <<Pair(R1, S1, 0)>>), 20)

MCInit == Gaps \/ UnderUpdates \/ OneBusAwayBoards \/ HafasBoards \/ SeveralFeeds \/ OneFeed

MCSpec == MCInit /\ [][Next]_vars
=============================================================================
