-------------------------- MODULE ScheduleGateway --------------------------
(***************************************************************************)
(* Schedule subscriptions over WebSocket: ScheduleGateway, the observable  *)
(* that ScheduleService.subscribeToSchedule() builds, and the counters of  *)
(* ScheduleMetricsService in this process.                                 *)
(*                                                                         *)
(* A stream is what one accepted schedule:subscribe message set up.  It    *)
(* waits for the grace period; then an attempt polls the provider, first   *)
(* at once and then at each tick of its timer; an attempt that fails is    *)
(* torn down and made again 10 seconds later.  Messages, ticks, answers    *)
(* and closes of all connections interleave in the event loop.             *)
(*                                                                         *)
(* Data: what the provider would answer is a version, and the provider     *)
(* answers a poll with a version that was current at some time since the   *)
(* poll was made.  Shown is the part of a version that the code compares   *)
(* before it sends one.  Heartbeats change no state and are left out.      *)
(***************************************************************************)
EXTENDS Integers, FiniteSets

CONSTANTS
  Client,        \* connections; one that has closed does not come back
  Feed,          \* codes of the feeds that are loaded
  Request,       \* the subscription messages that clients may send
  MaxMessages,   \* bound: messages a client sends
  MaxVersion,    \* bound: versions of the schedule
  Shown,         \* the trips, times and realtime flags of a version
  MaxFailures,   \* bound: polls that fail
  Nothing        \* no feed code

Message == 1..MaxMessages
Version == 1..MaxVersion

(* feedCode and the feeds of the routes come from the client: either may
   name a feed that is not loaded. *)
ASSUME RequestAssumption ==
  /\ Nothing \notin Feed
  /\ \A r \in Request : r.wellFormed \in BOOLEAN
ASSUME BoundAssumption ==
  MaxMessages \in Nat \ {0} /\ MaxVersion \in Nat \ {0} /\ MaxFailures \in Nat
ASSUME ShownAssumption == DOMAIN Shown = Version

Stage == {"none", "grace", "live", "backoff", "ended"}
Stream ==
  [stage   : Stage,
   request : Request \cup {Nothing},
   flight  : SUBSET Version,   \* polls on the way, by the version current then
   last    : 0..MaxVersion]    \* the last version this attempt emitted

NoStream == [stage |-> "none", request |-> Nothing, flight |-> {}, last |-> 0]

VARIABLES
  conn,         \* the state of each connection's socket
  sent,         \* how many messages each client has sent
  stream,       \* the stream of each message
  subscribers,  \* the gateway's set of session ids
  handles,      \* subscriptionHandles: the attempts that were counted
  gauge,        \* subscribersByFeedCode
  devices,      \* the connected_devices counter
  displayed,    \* the version each client was last sent
  version,      \* the version the provider answers with now
  failuresLeft  \* how many polls may still fail

metrics == <<handles, gauge>>
vars == <<conn, sent, stream, subscribers, metrics, devices, displayed,
          version, failuresLeft>>

Init ==
  /\ conn = [c \in Client |-> "none"]
  /\ sent = [c \in Client |-> 0]
  /\ stream = [c \in Client |-> [n \in Message |-> NoStream]]
  /\ subscribers = {}
  /\ handles = {}
  /\ gauge = [f \in Feed |-> 0]
  /\ devices = 0
  /\ displayed = [c \in Client |-> 0]
  /\ version = 1
  /\ failuresLeft = MaxFailures

-----------------------------------------------------------------------------
(* Metrics. *)

(* The feeds incrementFeedCodeMetrics counts a subscription for. *)
Covers(r, f) == IF r.feedCode # Nothing THEN r.feedCode = f ELSE f \in r.routeFeeds

Add(c, n) ==
  /\ handles' = handles \cup {<<c, n>>}
  /\ gauge' = [f \in Feed |-> IF Covers(stream[c][n].request, f)
                              THEN gauge[f] + 1 ELSE gauge[f]]

AtLeastZero(k) == IF k > 0 THEN k ELSE 0

(* A mistaken remove: the handle is dropped and the feeds stay counted. *)
Remove_LeavesGauge(attempts) == handles' = handles \ attempts /\ UNCHANGED gauge

(* A mistaken remove that does not look for the handle first. *)
Remove_Unconditionally(attempts) ==
  LET gone(f) == {a \in attempts : stream[a[1]][a[2]].stage # "none"
                                     /\ Covers(stream[a[1]][a[2]].request, f)}
  IN  /\ handles' = handles \ attempts
      /\ gauge' = [f \in Feed |-> gauge[f] - Cardinality(gone(f))]

(* remove() does nothing for a subscription that has no handle. *)
Remove(attempts) ==
  LET gone(f) == {a \in attempts \cap handles : Covers(stream[a[1]][a[2]].request, f)}
  IN  /\ handles' = handles \ attempts
      /\ gauge' = [f \in Feed |-> AtLeastZero(gauge[f] - Cardinality(gone(f)))]

-----------------------------------------------------------------------------
(* Connections. *)

Becomes(c, n, s) == stream' = [stream EXCEPT ![c][n] = s]

Live(c, n) == stream[c][n].stage \in {"grace", "live", "backoff"}

Connect(c) ==
  /\ conn[c] = "none"
  /\ conn' = [conn EXCEPT ![c] = "open"]
  /\ devices' = devices + 1
  /\ UNCHANGED <<sent, stream, subscribers, metrics, displayed, version, failuresLeft>>

(***************************************************************************)
(* schedule:subscribe.  A message that is not well formed, or comes from a *)
(* session in the set, throws.  A feed code that is not loaded throws too, *)
(* but after the session was added to the set.                             *)
(***************************************************************************)
Subscribe(c, r) ==
  LET n == sent[c] + 1 IN
  /\ conn[c] \in {"open", "closing"}
  /\ n \in Message
  /\ sent' = [sent EXCEPT ![c] = n]
  /\ IF c \in subscribers \/ ~r.wellFormed
     THEN UNCHANGED <<subscribers, stream>>
     ELSE /\ subscribers' = subscribers \cup {c}
          /\ IF r.feedCode \in Feed \cup {Nothing}
             THEN Becomes(c, n, [NoStream EXCEPT !.stage = "grace", !.request = r])
             ELSE UNCHANGED stream
  /\ UNCHANGED <<conn, metrics, devices, displayed, version, failuresLeft>>

(* close() was called: the client's own, or a close frame it received. *)
StartClose(c) ==
  /\ conn[c] = "open"
  /\ conn' = [conn EXCEPT ![c] = "closing"]
  /\ UNCHANGED <<sent, stream, subscribers, metrics, devices, displayed, version,
                 failuresLeft>>

(* shedConnections(target): the first open clients the set iterates over;
   here, any of them. *)
ShedConnections(target) ==
  LET open == {c \in Client : conn[c] = "open"} IN
  /\ \E closed \in SUBSET open :
       /\ Cardinality(closed) = IF target < Cardinality(open)
                                THEN target ELSE Cardinality(open)
       /\ conn' = [c \in Client |-> IF c \in closed THEN "closing" ELSE conn[c]]
  /\ UNCHANGED <<sent, stream, subscribers, metrics, devices, displayed, version,
                 failuresLeft>>

(***************************************************************************)
(* The socket's close event: the framework unsubscribes from the client's  *)
(* streams, which runs their finalizers, and calls handleDisconnect.       *)
(***************************************************************************)
Disconnect(c) ==
  /\ conn[c] \in {"open", "closing"}
  /\ conn' = [conn EXCEPT ![c] = "closed"]
  /\ devices' = devices - 1
  /\ stream' = [stream EXCEPT ![c] =
                  [n \in Message |-> IF Live(c, n) THEN [NoStream EXCEPT !.stage = "ended"]
                                                   ELSE stream[c][n]]]
  /\ subscribers' = IF \E n \in Message : Live(c, n) THEN subscribers \ {c}
                                                     ELSE subscribers
  /\ Remove({c} \X Message)
  /\ UNCHANGED <<sent, displayed, version, failuresLeft>>

-----------------------------------------------------------------------------
(* Streams. *)

(* schedule$ is subscribed to: the attempt is counted and polls at once. *)
StartAttempt(c, n) ==
  /\ Add(c, n)
  /\ Becomes(c, n, [stream[c][n] EXCEPT !.stage = "live",
                                        !.flight = {version}, !.last = 0])
  /\ UNCHANGED <<conn, sent, subscribers, devices, displayed, version, failuresLeft>>

EndGrace(c, n) == stream[c][n].stage = "grace" /\ StartAttempt(c, n)

(* A mistaken mergeMap: a tick polls whether or not a poll is on the way. *)
Tick_Overlapping(c, n) ==
  /\ stream[c][n].stage = "live"
  /\ Becomes(c, n, [stream[c][n] EXCEPT !.flight = @ \cup {version}])
  /\ UNCHANGED <<conn, sent, subscribers, metrics, devices, displayed, version,
                 failuresLeft>>

(* A mistaken stream that stops polling once it has emitted a schedule. *)
Tick_UntilFirst(c, n) ==
  /\ stream[c][n].stage = "live" /\ stream[c][n].flight = {}
  /\ stream[c][n].last = 0
  /\ Becomes(c, n, [stream[c][n] EXCEPT !.flight = {version}])
  /\ UNCHANGED <<conn, sent, subscribers, metrics, devices, displayed, version,
                 failuresLeft>>

(* The timer ticks; exhaustMap ignores it while a poll is on the way. *)
Tick(c, n) ==
  /\ stream[c][n].stage = "live" /\ stream[c][n].flight = {}
  /\ Becomes(c, n, [stream[c][n] EXCEPT !.flight = {version}])
  /\ UNCHANGED <<conn, sent, subscribers, metrics, devices, displayed, version,
                 failuresLeft>>

(***************************************************************************)
(* A poll made when `asked` was current is answered with v.  An answer     *)
(* equal to the last one (distinctUntilChanged) is not emitted, and what   *)
(* is emitted is not sent unless the socket is open.                       *)
(***************************************************************************)
Answer(c, n, asked, v) ==
  LET s == stream[c][n]
      emitted == s.last = 0 \/ Shown[s.last] # Shown[v]
  IN
  /\ s.stage = "live" /\ asked \in s.flight
  /\ v \in asked..version
  /\ Becomes(c, n, [s EXCEPT !.flight = @ \ {asked},
                             !.last = IF emitted THEN v ELSE @])
  /\ displayed' = IF emitted /\ conn[c] = "open"
                  THEN [displayed EXCEPT ![c] = v] ELSE displayed
  /\ UNCHANGED <<conn, sent, subscribers, metrics, devices, version, failuresLeft>>

(* A mistaken finalize inside switchMap: it runs when an attempt fails. *)
Fail_Finalizes(c, n) ==
  /\ failuresLeft > 0 /\ failuresLeft' = failuresLeft - 1
  /\ stream[c][n].stage = "live" /\ stream[c][n].flight # {}
  /\ Remove({<<c, n>>})
  /\ subscribers' = subscribers \ {c}
  /\ Becomes(c, n, [stream[c][n] EXCEPT !.stage = "backoff",
                                        !.flight = {}, !.last = 0])
  /\ UNCHANGED <<conn, sent, devices, displayed, version>>

(* A poll fails: the attempt is torn down, and retry waits 10 seconds. *)
Fail(c, n) ==
  /\ failuresLeft > 0 /\ failuresLeft' = failuresLeft - 1
  /\ stream[c][n].stage = "live" /\ stream[c][n].flight # {}
  /\ Remove({<<c, n>>})
  /\ Becomes(c, n, [stream[c][n] EXCEPT !.stage = "backoff",
                                        !.flight = {}, !.last = 0])
  /\ UNCHANGED <<conn, sent, subscribers, devices, displayed, version>>

Retry(c, n) == stream[c][n].stage = "backoff" /\ StartAttempt(c, n)

(* What the provider would answer changes. *)
Publish ==
  /\ version < MaxVersion
  /\ version' = version + 1
  /\ UNCHANGED <<conn, sent, stream, subscribers, metrics, devices, displayed,
                 failuresLeft>>

-----------------------------------------------------------------------------
Advance(c, n) ==
  \/ EndGrace(c, n) \/ Tick(c, n) \/ Fail(c, n) \/ Retry(c, n)
  \/ \E asked, v \in Version : Answer(c, n, asked, v)

Next ==
  \/ \E c \in Client :
       \/ Connect(c) \/ StartClose(c) \/ Disconnect(c)
       \/ \E r \in Request : Subscribe(c, r)
       \/ \E n \in Message : Advance(c, n)
  \/ \E target \in 1..Cardinality(Client) : ShedConnections(target)
  \/ Publish

Spec == Init /\ [][Next]_vars

(* Timers fire, a poll is answered or fails, and a socket that is being
   closed ends; nobody has to connect, subscribe or leave. *)
Fairness ==
  \A c \in Client :
    /\ \A n \in Message : WF_vars(Advance(c, n))
    /\ WF_vars(conn[c] = "closing" /\ Disconnect(c))

FairSpec == Spec /\ Fairness

-----------------------------------------------------------------------------
(* Properties. *)

(* The variables have their types; no counter is negative. *)
TypeOK ==
  /\ conn \in [Client -> {"none", "open", "closing", "closed"}]
  /\ sent \in [Client -> 0..MaxMessages]
  /\ stream \in [Client -> [Message -> Stream]]
  /\ subscribers \subseteq Client
  /\ handles \subseteq Client \X Message
  /\ gauge \in [Feed -> Nat]
  /\ devices \in Nat
  /\ displayed \in [Client -> 0..MaxVersion]
  /\ version \in Version
  /\ failuresLeft \in 0..MaxFailures

(***************************************************************************)
(* A connection never has two streams, not even while one waits to retry:  *)
(* the session id stays in the set as long as a stream of it can poll.     *)
(***************************************************************************)
SingleSubscription ==
  \A c \in Client, m, n \in Message : Live(c, m) /\ Live(c, n) => m = n

(***************************************************************************)
(* The schedule_subscriptions gauge of a feed is the number of attempts    *)
(* that are polling for it: none is counted in its grace period, during a  *)
(* backoff or after the close, and none is counted twice.                  *)
(***************************************************************************)
GaugesExact ==
  \A f \in Feed :
    gauge[f] = Cardinality({a \in Client \X Message :
                              /\ stream[a[1]][a[2]].stage = "live"
                              /\ Covers(stream[a[1]][a[2]].request, f)})

(***************************************************************************)
(* A board never goes back to an older schedule: however polls, failures,  *)
(* retries and repeated subscriptions interleave, a client is not sent a   *)
(* version older than the one it displays.                                 *)
(***************************************************************************)
NeverGoesBack == [][\A c \in Client : displayed'[c] >= displayed[c]]_vars

(***************************************************************************)
(* A client whose stream stays up displays, from some time on, the times   *)
(* of the schedule that is current, whatever polls failed on the way.      *)
(***************************************************************************)
CurrentEventuallyDisplayed ==
  \A c \in Client :
    <>[]((\E n \in Message : Live(c, n)) /\ conn[c] = "open"
         => displayed[c] # 0 /\ Shown[displayed[c]] = Shown[version])
=============================================================================
