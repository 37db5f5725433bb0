----------------------- MODULE ScheduleGatewayProofs -----------------------
(***************************************************************************)
(* Proofs about ScheduleGateway: a connection never has two streams, a     *)
(* client is never sent an older schedule than the one it displays, the    *)
(* gauges are exact and no counter is negative, for any number of clients, *)
(* messages, versions and failures.                                        *)
(***************************************************************************)
EXTENDS ScheduleGateway, FiniteSetTheorems, TLAPS

(* The part of the types that the proofs need. *)
GatewayTypes ==
  /\ sent \in [Client -> 0..MaxMessages]
  /\ stream \in [Client -> [Message -> Stream]]
  /\ displayed \in [Client -> 0..MaxVersion]
  /\ version \in Version

(***************************************************************************)
(* Why there is one stream: a session with a stream is in the set, and the *)
(* messages that were not sent have none.                                  *)
(***************************************************************************)
StreamsInv ==
  \A c \in Client, n \in Message :
    /\ n > sent[c] => stream[c][n].stage = "none"
    /\ Live(c, n) => /\ c \in subscribers
                     /\ \A m \in Message : Live(c, m) => m = n

(***************************************************************************)
(* Why no answer is too old: only a live stream polls, it has one poll on  *)
(* the way at most, and it asked when what the client displays was already *)
(* there.                                                                  *)
(***************************************************************************)
PollsInv ==
  \A c \in Client :
    /\ displayed[c] <= version
    /\ \A n \in Message :
         /\ stream[c][n].stage # "live" => stream[c][n].flight = {}
         /\ \A a \in stream[c][n].flight :
              /\ displayed[c] <= a /\ a <= version
              /\ \A b \in stream[c][n].flight : a = b

GatewayInv == GatewayTypes /\ StreamsInv /\ PollsInv

LEMMA GatewayInvInit == Init => GatewayInv
<1> SUFFICES ASSUME Init
             PROVE  GatewayInv
  OBVIOUS
<1>1. NoStream \in Stream /\ NoStream.stage = "none" /\ NoStream.flight = {}
  BY BoundAssumption DEF NoStream, Stream, Stage
<1>2. GatewayTypes
  BY <1>1, BoundAssumption DEF Init, GatewayTypes, Version
<1>3. \A c \in Client, n \in Message : stream[c][n] = NoStream
  BY DEF Init
<1>4. StreamsInv
  BY <1>1, <1>3 DEF StreamsInv, Live
<1>5. PollsInv
  BY <1>1, <1>3 DEF PollsInv, Init
<1> QED
  BY <1>2, <1>4, <1>5 DEF GatewayInv

(* What a step that gives one message a new stream leaves alone. *)
LEMMA OneStreamChanges ==
  ASSUME stream \in [Client -> [Message -> Stream]],
         NEW c \in Client, NEW n \in Message, NEW s \in Stream, Becomes(c, n, s)
  PROVE  /\ stream' \in [Client -> [Message -> Stream]]
         /\ stream'[c][n] = s
         /\ \A d \in Client, m \in Message :
              d # c \/ m # n => stream'[d][m] = stream[d][m]
BY DEF Becomes

(***************************************************************************)
(* A live stream that goes on as another live stream, without sending an   *)
(* older version, and with its polls made after what is displayed.         *)
(***************************************************************************)
LEMMA StreamGoesOn ==
  ASSUME GatewayInv,
         NEW c \in Client, NEW n \in Message, NEW s \in Stream,
         Live(c, n), Becomes(c, n, s),
         s.stage \in {"live", "backoff"},
         s.stage # "live" => s.flight = {},
         displayed' \in [Client -> 0..MaxVersion],
         \A d \in Client : d # c => displayed'[d] = displayed[d],
         displayed'[c] <= version,
         \A a \in s.flight : /\ displayed'[c] <= a /\ a <= version
                             /\ \A b \in s.flight : a = b,
         UNCHANGED <<sent, subscribers, version>>
  PROVE  GatewayInv'
<1>1. GatewayTypes /\ StreamsInv /\ PollsInv
  BY DEF GatewayInv
<1>2. /\ stream' \in [Client -> [Message -> Stream]]
      /\ stream'[c][n] = s
      /\ \A d \in Client, m \in Message :
           d # c \/ m # n => stream'[d][m] = stream[d][m]
  BY <1>1, OneStreamChanges DEF GatewayTypes
<1>3. GatewayTypes'
  BY <1>1, <1>2 DEF GatewayTypes
<1>4. \A d \in Client, m \in Message : Live(d, m)' => Live(d, m)
  BY <1>2 DEF Live
<1>5. n <= sent[c]
  BY <1>1 DEF StreamsInv, Live, GatewayTypes, Message
<1>6. StreamsInv'
  BY <1>1, <1>2, <1>4, <1>5 DEF StreamsInv, GatewayTypes, Message
<1>7. \A m \in Message : m # n => stream[c][m].flight = {}
  BY <1>1 DEF StreamsInv, PollsInv, Live
<1>8. PollsInv'
  <2> SUFFICES ASSUME NEW d \in Client
               PROVE  /\ displayed'[d] <= version'
                      /\ \A m \in Message :
                           /\ stream'[d][m].stage # "live" => stream'[d][m].flight = {}
                           /\ \A a \in stream'[d][m].flight :
                                /\ displayed'[d] <= a /\ a <= version'
                                /\ \A b \in stream'[d][m].flight : a = b
    BY DEF PollsInv
  <2>1. CASE d = c
    BY <1>1, <1>2, <1>7, <2>1 DEF PollsInv
  <2>2. CASE d # c
    <3>1. /\ displayed'[d] = displayed[d] /\ version' = version
          /\ \A m \in Message : stream'[d][m] = stream[d][m]
      BY <1>2, <2>2
    <3> QED
      BY <1>1, <3>1 DEF PollsInv
  <2> QED
    BY <2>1, <2>2
<1> QED
  BY <1>3, <1>6, <1>8 DEF GatewayInv

(* A step that touches neither the streams nor what they are checked by. *)
LEMMA StreamsUntouched ==
  ASSUME GatewayInv, UNCHANGED <<sent, stream, subscribers, displayed, version>>
  PROVE  GatewayInv'
BY DEF GatewayInv, GatewayTypes, StreamsInv, PollsInv, Live

LEMMA GatewayInvStep ==
  ASSUME GatewayInv, [Next]_vars
  PROVE  GatewayInv' /\ \A c \in Client : displayed'[c] >= displayed[c]
<1>t. /\ GatewayTypes /\ StreamsInv /\ PollsInv
      /\ displayed \in [Client -> 0..MaxVersion]
      /\ stream \in [Client -> [Message -> Stream]]
      /\ version \in Version /\ MaxVersion \in Nat
  BY BoundAssumption DEF GatewayInv, GatewayTypes
<1>k. UNCHANGED displayed => \A c \in Client : displayed'[c] >= displayed[c]
  BY <1>t
<1>1. ASSUME NEW c \in Client, Connect(c) \/ StartClose(c)
      PROVE  GatewayInv' /\ UNCHANGED displayed
  BY <1>1, StreamsUntouched DEF Connect, StartClose
<1>2. ASSUME NEW target \in 1..Cardinality(Client), ShedConnections(target)
      PROVE  GatewayInv' /\ UNCHANGED displayed
  BY <1>2, StreamsUntouched DEF ShedConnections
<1>3. ASSUME NEW c \in Client, NEW r \in Request, Subscribe(c, r)
      PROVE  GatewayInv' /\ UNCHANGED displayed
  <2> DEFINE n == sent[c] + 1
  <2>1. n \in Message /\ n > sent[c] /\ sent[c] \in Nat
    BY <1>3, <1>t DEF Subscribe, GatewayTypes
  <2>2. /\ sent' \in [Client -> 0..MaxMessages] /\ sent'[c] = n
        /\ \A d \in Client : d # c => sent'[d] = sent[d]
        /\ UNCHANGED <<displayed, version>>
    BY <1>3, <1>t, <2>1, BoundAssumption DEF Subscribe, GatewayTypes, Message
  <2>3. /\ stream[c][n].stage = "none"
        /\ \A d \in Client : sent[d] \in Nat /\ sent'[d] >= sent[d]
    BY <1>t, <2>1, <2>2 DEF StreamsInv, GatewayTypes
  <2>4. CASE UNCHANGED stream /\ subscribers \subseteq subscribers'
    <3>1. GatewayTypes' /\ PollsInv'
      BY <1>t, <2>2, <2>4 DEF GatewayTypes, PollsInv
    <3>2. StreamsInv'
      BY <1>t, <2>2, <2>3, <2>4 DEF StreamsInv, Live, GatewayTypes, Message
    <3> QED
      BY <2>2, <3>1, <3>2 DEF GatewayInv
  <2>5. CASE /\ c \notin subscribers /\ subscribers' = subscribers \cup {c}
             /\ Becomes(c, n, [NoStream EXCEPT !.stage = "grace", !.request = r])
    <3> DEFINE s == [NoStream EXCEPT !.stage = "grace", !.request = r]
    <3>1. s \in Stream /\ s.stage = "grace" /\ s.flight = {}
      <4>3. NoStream \in Stream /\ NoStream.flight = {}
        BY BoundAssumption DEF NoStream, Stream, Stage
      <4>1. PICK q \in Stream : q = NoStream /\ q.flight = {}
        BY <4>3
      <4>0. "grace" \in Stage
        BY DEF Stage
      <4>2. LET t == [q EXCEPT !.stage = "grace", !.request = r]
            IN  t \in Stream /\ t.stage = "grace" /\ t.flight = {}
        BY <4>0, <4>1 DEF Stream
      <4> QED
        BY <4>1, <4>2, Zenon
    <3>2. Becomes(c, n, s)
      BY <2>5
    <3> HIDE DEF s, n
    <3>3. /\ stream' \in [Client -> [Message -> Stream]]
          /\ stream'[c][n] = s
          /\ \A d \in Client, m \in Message :
               d # c \/ m # n => stream'[d][m] = stream[d][m]
      BY <1>t, <2>1, <3>1, <3>2, OneStreamChanges
    <3>4. GatewayTypes'
      BY <1>t, <2>2, <3>3 DEF GatewayTypes
    <3>5. \A m \in Message : ~Live(c, m)
      BY <1>t, <2>5 DEF StreamsInv
    <3>6. StreamsInv'
      <4> SUFFICES ASSUME NEW d \in Client, NEW m \in Message
                   PROVE  /\ m > sent'[d] => stream'[d][m].stage = "none"
                          /\ Live(d, m)' => /\ d \in subscribers'
                                            /\ \A k \in Message : Live(d, k)' => k = m
        BY DEF StreamsInv
      <4>1. CASE d # c
        <5>1. /\ sent'[d] = sent[d]
              /\ \A k \in Message : stream'[d][k] = stream[d][k]
          BY <2>2, <3>3, <4>1
        <5>2. /\ m > sent[d] => stream[d][m].stage = "none"
              /\ Live(d, m) => /\ d \in subscribers
                               /\ \A k \in Message : Live(d, k) => k = m
          BY <1>t DEF StreamsInv
        <5>3. \A k \in Message : Live(d, k)' <=> Live(d, k)
          BY <5>1 DEF Live
        <5> QED
          BY <2>5, <5>1, <5>2, <5>3
      <4>2. CASE d = c
        <5>1. m > sent'[d] => m # n /\ m > sent[c]
          BY <2>1, <2>2, <4>2 DEF Message
        <5>2. \A k \in Message : Live(c, k)' => k = n
          BY <3>3, <3>5 DEF Live
        <5> QED
          BY <1>t, <2>5, <3>3, <4>2, <5>1, <5>2 DEF StreamsInv
      <4> QED
        BY <4>1, <4>2
    <3>7. PollsInv'
      <4> SUFFICES ASSUME NEW d \in Client, NEW m \in Message
                   PROVE  /\ displayed'[d] <= version'
                          /\ stream'[d][m].stage # "live" => stream'[d][m].flight = {}
                          /\ \A a \in stream'[d][m].flight :
                               /\ displayed'[d] <= a /\ a <= version'
                               /\ \A b \in stream'[d][m].flight : a = b
        BY <2>1 DEF PollsInv
      <4>1. CASE d = c /\ m = n
        BY <1>t, <2>2, <3>1, <3>3, <4>1 DEF PollsInv
      <4>2. CASE d # c \/ m # n
        BY <1>t, <2>2, <3>3, <4>2 DEF PollsInv
      <4> QED
        BY <4>1, <4>2
    <3> QED
      BY <2>2, <3>4, <3>6, <3>7 DEF GatewayInv
  <2> QED
    BY <1>3, <2>4, <2>5 DEF Subscribe
<1>4. ASSUME NEW c \in Client, Disconnect(c)
      PROVE  GatewayInv' /\ UNCHANGED displayed
  <2> DEFINE ended == [NoStream EXCEPT !.stage = "ended"]
  <2>1. ended \in Stream /\ ended.stage = "ended" /\ ended.flight = {}
    BY BoundAssumption DEF NoStream, Stream, Stage
  <2>2. /\ UNCHANGED <<sent, displayed, version>>
        /\ subscribers' = IF \E n \in Message : Live(c, n) THEN subscribers \ {c}
                                                           ELSE subscribers
        /\ stream' = [stream EXCEPT ![c] =
             [n \in Message |-> IF Live(c, n) THEN ended ELSE stream[c][n]]]
    BY <1>4 DEF Disconnect
  <2> HIDE DEF ended
  <2>3. \A d \in Client, n \in Message :
          stream'[d][n] = IF d = c /\ Live(c, n) THEN ended ELSE stream[d][n]
    BY <1>t, <2>2
  <2>4. GatewayTypes'
    <3>1. [n \in Message |-> IF Live(c, n) THEN ended ELSE stream[c][n]]
            \in [Message -> Stream]
      BY <1>t, <2>1
    <3> QED
      BY <1>t, <2>2, <3>1 DEF GatewayTypes
  <2>5. \A d \in Client, n \in Message : Live(d, n)' => d # c /\ Live(d, n)
    BY <2>1, <2>3 DEF Live
  <2>6. StreamsInv'
    <3>1. \A d \in Client, n \in Message :
            n > sent'[d] => stream'[d][n].stage = "none"
      BY <1>t, <2>2, <2>3 DEF StreamsInv, Live
    <3>2. \A d \in Client, n \in Message : Live(d, n)' =>
            /\ d \in subscribers'
            /\ \A m \in Message : Live(d, m)' => m = n
      BY <1>t, <2>2, <2>5 DEF StreamsInv
    <3> QED
      BY <3>1, <3>2 DEF StreamsInv
  <2>7. PollsInv'
    BY <1>t, <2>1, <2>2, <2>3 DEF PollsInv
  <2> QED
    BY <2>2, <2>4, <2>6, <2>7 DEF GatewayInv
<1>5. ASSUME NEW c \in Client, NEW n \in Message, EndGrace(c, n) \/ Retry(c, n)
      PROVE  GatewayInv' /\ UNCHANGED displayed
  <2> DEFINE s == [stream[c][n] EXCEPT !.stage = "live",
                                       !.flight = {version}, !.last = 0]
  <2>1. stream[c][n] \in Stream
    BY <1>t
  <2>2. s \in Stream /\ s.stage = "live" /\ s.flight = {version}
    <3>1. PICK r \in Stream : r = stream[c][n]
      BY <2>1
    <3>0. {version} \in SUBSET Version /\ 0 \in 0..MaxVersion /\ "live" \in Stage
      BY <1>t DEF Stage
    <3>2. LET t == [r EXCEPT !.stage = "live", !.flight = {version}, !.last = 0]
          IN  t \in Stream /\ t.stage = "live" /\ t.flight = {version}
      BY <3>0 DEF Stream
    <3> QED
      BY <3>1, <3>2, Zenon
  <2>3. /\ Live(c, n) /\ Becomes(c, n, s)
        /\ UNCHANGED <<sent, subscribers, displayed, version>>
    BY <1>5 DEF EndGrace, Retry, StartAttempt, Live
  <2> HIDE DEF s
  <2>4. displayed[c] <= version
    BY <1>t DEF PollsInv
  <2> QED
    BY <1>t, <2>2, <2>3, <2>4, StreamGoesOn DEF Version
<1>6. ASSUME NEW c \in Client, NEW n \in Message, Tick(c, n)
      PROVE  GatewayInv' /\ UNCHANGED displayed
  <2> DEFINE s == [stream[c][n] EXCEPT !.flight = {version}]
  <2>1. stream[c][n] \in Stream /\ stream[c][n].stage = "live"
    BY <1>6, <1>t DEF Tick
  <2>2. s \in Stream /\ s.stage = "live" /\ s.flight = {version}
    BY <1>t, <2>1 DEF Stream, Stage
  <2>3. /\ Live(c, n) /\ Becomes(c, n, s)
        /\ UNCHANGED <<sent, subscribers, displayed, version>>
    BY <1>6 DEF Tick, Live
  <2> HIDE DEF s
  <2>4. displayed[c] <= version
    BY <1>t DEF PollsInv
  <2> QED
    BY <1>t, <2>2, <2>3, <2>4, StreamGoesOn DEF Version
<1>7. ASSUME NEW c \in Client, NEW n \in Message, Fail(c, n)
      PROVE  GatewayInv' /\ UNCHANGED displayed
  <2> DEFINE s == [stream[c][n] EXCEPT !.stage = "backoff",
                                       !.flight = {}, !.last = 0]
  <2>1. stream[c][n] \in Stream
    BY <1>t
  <2>2. s \in Stream /\ s.stage = "backoff" /\ s.flight = {}
    <3>1. PICK r \in Stream : r = stream[c][n]
      BY <2>1
    <3>0. {} \in SUBSET Version /\ 0 \in 0..MaxVersion /\ "backoff" \in Stage
      BY <1>t DEF Stage
    <3>2. LET t == [r EXCEPT !.stage = "backoff", !.flight = {}, !.last = 0]
          IN  t \in Stream /\ t.stage = "backoff" /\ t.flight = {}
      BY <3>0 DEF Stream
    <3> QED
      BY <3>1, <3>2, Zenon
  <2>3. /\ Live(c, n) /\ Becomes(c, n, s)
        /\ UNCHANGED <<sent, subscribers, displayed, version>>
    BY <1>7 DEF Fail, Live
  <2> HIDE DEF s
  <2>4. displayed[c] <= version
    BY <1>t DEF PollsInv
  <2> QED
    BY <1>t, <2>2, <2>3, <2>4, StreamGoesOn
<1>8. ASSUME NEW c \in Client, NEW n \in Message,
             NEW asked \in Version, NEW v \in Version, Answer(c, n, asked, v)
      PROVE  GatewayInv' /\ \A d \in Client : displayed'[d] >= displayed[d]
  <2> DEFINE emitted == stream[c][n].last = 0 \/ Shown[stream[c][n].last] # Shown[v]
             s == [stream[c][n] EXCEPT !.flight = @ \ {asked},
                                       !.last = IF emitted THEN v ELSE @]
  <2>1. /\ stream[c][n] \in Stream /\ stream[c][n].stage = "live"
        /\ asked \in stream[c][n].flight
        /\ v \in asked..version
    BY <1>8, <1>t DEF Answer
  <2>2. stream[c][n].flight = {asked} /\ displayed[c] <= asked
    BY <1>t, <2>1 DEF PollsInv
  <2>3. s \in Stream /\ s.stage = "live" /\ s.flight = {}
    <3>1. stream[c][n].flight \ {asked} = {}
      BY <2>2
    <3>2. v \in 0..MaxVersion
      BY <1>t DEF Version
    <3> QED
      BY <2>1, <3>1, <3>2 DEF Stream
  <2>4. /\ Live(c, n) /\ Becomes(c, n, s)
        /\ UNCHANGED <<sent, subscribers, version>>
        /\ displayed' = [displayed EXCEPT ![c] = v] \/ displayed' = displayed
    BY <1>8 DEF Answer, Live
  <2> HIDE DEF s
  <2>5. /\ displayed' \in [Client -> 0..MaxVersion]
        /\ \A d \in Client : d # c => displayed'[d] = displayed[d]
        /\ displayed'[c] = v \/ displayed'[c] = displayed[c]
    BY <1>t, <2>4 DEF Version
  <2>6. /\ displayed[c] <= v /\ v <= version
        /\ displayed[c] \in Nat /\ v \in Nat /\ version \in Nat
    BY <1>t, <2>1, <2>2 DEF Version
  <2>7. GatewayInv'
    BY <2>3, <2>4, <2>5, <2>6, StreamGoesOn
  <2> QED
    BY <1>t, <2>5, <2>6, <2>7
<1>9. CASE Publish
  <2>1. /\ version' \in Version /\ version' > version
        /\ UNCHANGED <<sent, stream, subscribers, displayed>>
    BY <1>9, <1>t DEF Publish, Version
  <2>2. GatewayTypes' /\ StreamsInv'
    BY <1>t, <2>1 DEF GatewayTypes, StreamsInv, Live
  <2>3. PollsInv'
    <3>1. \A c \in Client, n \in Message :
            stream[c][n].flight \subseteq Version /\ displayed[c] \in Nat
      BY <1>t DEF Stream
    <3> QED
      BY <1>t, <2>1, <3>1 DEF PollsInv, Version
  <2> QED
    BY <1>k, <2>1, <2>2, <2>3 DEF GatewayInv
<1>10. CASE UNCHANGED vars
  BY <1>10, <1>k, StreamsUntouched DEF vars
<1> QED
  BY <1>k, <1>1, <1>2, <1>3, <1>4, <1>5, <1>6, <1>7, <1>8, <1>9, <1>10
     DEF Next, Advance

(***************************************************************************)
(* A connection has one stream at most.                                    *)
(***************************************************************************)
THEOREM OneStreamPerConnection == Spec => []SingleSubscription
<1>1. GatewayInv => SingleSubscription
  BY DEF GatewayInv, StreamsInv, SingleSubscription
<1>2. GatewayInv /\ [Next]_vars => GatewayInv'
  BY GatewayInvStep
<1> QED
  BY GatewayInvInit, <1>1, <1>2, PTL DEF Spec

(***************************************************************************)
(* What a client displays is never replaced by an older schedule.          *)
(***************************************************************************)
THEOREM BoardsMoveForward == Spec => NeverGoesBack
<1>1. GatewayInv /\ [Next]_vars => GatewayInv'
  BY GatewayInvStep
<1>2. GatewayInv /\ [Next]_vars => [\A c \in Client : displayed'[c] >= displayed[c]]_vars
  BY GatewayInvStep
<1> QED
  BY GatewayInvInit, <1>1, <1>2, PTL DEF Spec, NeverGoesBack

-----------------------------------------------------------------------------
(* The attempts that the gauge of a feed should count. *)
Counted(f) == {a \in handles : Covers(stream[a[1]][a[2]].request, f)}

(***************************************************************************)
(* Why the gauges are exact: the handles are those of the live streams,    *)
(* and each gauge counts the handles of its feed.  What was added is       *)
(* finite, however many clients there are.                                 *)
(***************************************************************************)
CountersInv ==
  /\ handles \subseteq Client \X Message /\ IsFiniteSet(handles)
  /\ \A c \in Client, n \in Message : <<c, n>> \in handles <=> stream[c][n].stage = "live"
  /\ gauge \in [Feed -> Nat]
  /\ \A f \in Feed : gauge[f] = Cardinality(Counted(f))

LEMMA CountedFinite ==
  ASSUME CountersInv, NEW f PROVE IsFiniteSet(Counted(f)) /\ Cardinality(Counted(f)) \in Nat
<1>1. Counted(f) \in SUBSET handles /\ IsFiniteSet(handles)
  BY DEF Counted, CountersInv
<1>2. IsFiniteSet(Counted(f))
  BY <1>1, FS_Subset
<1> QED
  BY <1>2, FS_CardinalityType

(* A step after which the same streams are live, for the same requests. *)
LEMMA CountersUntouched ==
  ASSUME CountersInv, UNCHANGED metrics,
         \A c \in Client, n \in Message :
           /\ stream'[c][n].stage = "live" <=> stream[c][n].stage = "live"
           /\ stream[c][n].stage = "live" => stream'[c][n].request = stream[c][n].request
  PROVE  CountersInv'
<1>1. handles' = handles /\ gauge' = gauge
  BY DEF metrics
<1>2. \A f \in Feed : Counted(f)' = Counted(f)
  BY <1>1 DEF Counted, CountersInv
<1> QED
  BY <1>1, <1>2 DEF CountersInv

(* add, for a stream that becomes live. *)
LEMMA CountersAdd ==
  ASSUME CountersInv, NEW c \in Client, NEW n \in Message, Add(c, n),
         stream[c][n].stage # "live", stream'[c][n].stage = "live",
         stream'[c][n].request = stream[c][n].request,
         \A d \in Client, m \in Message : d # c \/ m # n => stream'[d][m] = stream[d][m]
  PROVE  CountersInv'
<1>1. handles' = handles \cup {<<c, n>>} /\ <<c, n>> \notin handles
  BY DEF Add, CountersInv
<1>2. handles' \subseteq Client \X Message /\ IsFiniteSet(handles')
  BY <1>1, FS_AddElement DEF CountersInv
<1>3. \A d \in Client, m \in Message : <<d, m>> \in handles' <=> stream'[d][m].stage = "live"
  <2>1. ASSUME NEW d \in Client, NEW m \in Message
        PROVE  <<d, m>> \in handles' <=> stream'[d][m].stage = "live"
    <3>1. <<d, m>> \in handles' <=> <<d, m>> \in handles \/ (d = c /\ m = n)
      BY <1>1
    <3>2. <<d, m>> \in handles <=> stream[d][m].stage = "live"
      BY DEF CountersInv
    <3> QED
      BY <3>1, <3>2
  <2> QED
    BY <2>1
<1>4. \A a \in handles : stream'[a[1]][a[2]] = stream[a[1]][a[2]]
  <2>1. ASSUME NEW d \in Client, NEW m \in Message, <<d, m>> \in handles
        PROVE  stream'[d][m] = stream[d][m]
    BY <1>1, <2>1
  <2> QED
    BY <2>1 DEF CountersInv
<1>5. ASSUME NEW f \in Feed
      PROVE  /\ gauge'[f] \in Nat /\ gauge'[f] = Cardinality(Counted(f)')
  <2>1. IsFiniteSet(Counted(f)) /\ Cardinality(Counted(f)) \in Nat
        /\ gauge[f] = Cardinality(Counted(f))
    BY CountedFinite DEF CountersInv
  <2>2. gauge'[f] = IF Covers(stream[c][n].request, f) THEN gauge[f] + 1 ELSE gauge[f]
    BY DEF Add
  <2>3. <<c, n>> \notin Counted(f)
    BY <1>1 DEF Counted
  <2>4. CASE Covers(stream[c][n].request, f)
    <3>1. Counted(f)' = Counted(f) \cup {<<c, n>>}
      BY <1>1, <1>4, <2>4 DEF Counted
    <3>2. Cardinality(Counted(f) \cup {<<c, n>>}) = Cardinality(Counted(f)) + 1
      BY <2>1, <2>3, FS_AddElement
    <3>3. Cardinality(Counted(f)') = Cardinality(Counted(f)) + 1
      BY <3>1, <3>2, Zenon
    <3> QED
      BY <2>1, <2>2, <2>4, <3>3
  <2>5. CASE ~Covers(stream[c][n].request, f)
    <3>1. Counted(f)' = Counted(f)
      BY <1>1, <1>4, <2>5 DEF Counted
    <3> QED
      BY <2>1, <2>2, <2>5, <3>1
  <2> QED
    BY <2>4, <2>5
<1>6. gauge' \in [Feed -> Nat]
  BY <1>5 DEF Add
<1> QED
  BY <1>2, <1>3, <1>5, <1>6 DEF CountersInv

(* remove, for streams that are not live any more. *)
LEMMA CountersRemove ==
  ASSUME CountersInv, NEW attempts, Remove(attempts),
         \A c \in Client, n \in Message :
           IF <<c, n>> \in attempts THEN stream'[c][n].stage # "live"
                                    ELSE stream'[c][n] = stream[c][n]
  PROVE  CountersInv'
<1>1. handles' = handles \ attempts
  BY DEF Remove
<1>2. handles' \subseteq Client \X Message /\ IsFiniteSet(handles')
  BY <1>1, FS_Difference DEF CountersInv
<1>3. \A d \in Client, m \in Message : <<d, m>> \in handles' <=> stream'[d][m].stage = "live"
  BY <1>1 DEF CountersInv
<1>4. \A a \in handles' : stream'[a[1]][a[2]] = stream[a[1]][a[2]]
  <2>1. ASSUME NEW d \in Client, NEW m \in Message, <<d, m>> \in handles'
        PROVE  stream'[d][m] = stream[d][m]
    BY <1>1, <2>1
  <2> QED
    BY <1>2, <2>1
<1>5. ASSUME NEW f \in Feed
      PROVE  /\ gauge'[f] \in Nat /\ gauge'[f] = Cardinality(Counted(f)')
  <2> DEFINE gone == {a \in attempts \cap handles : Covers(stream[a[1]][a[2]].request, f)}
  <2>1. IsFiniteSet(Counted(f)) /\ Cardinality(Counted(f)) \in Nat
        /\ gauge[f] = Cardinality(Counted(f))
    BY CountedFinite DEF CountersInv
  <2>2. gauge'[f] = AtLeastZero(gauge[f] - Cardinality(gone))
    BY DEF Remove
  <2>3. Counted(f)' = Counted(f) \ gone /\ Counted(f) \cap gone = gone
    BY <1>1, <1>4 DEF Counted
  <2> HIDE DEF gone
  <2>4. /\ IsFiniteSet(Counted(f)')
        /\ Cardinality(Counted(f)') = Cardinality(Counted(f)) - Cardinality(gone)
    <3>1. /\ IsFiniteSet(Counted(f) \ gone)
          /\ Cardinality(Counted(f) \ gone) =
               Cardinality(Counted(f)) - Cardinality(Counted(f) \cap gone)
      BY <2>1, FS_Difference
    <3> QED
      BY <2>3, <3>1, Zenon
  <2>5. Cardinality(Counted(f)') \in Nat
    BY <2>4, FS_CardinalityType
  <2> QED
    BY <2>1, <2>2, <2>4, <2>5 DEF AtLeastZero
<1>6. gauge' \in [Feed -> Nat]
  BY <1>5 DEF Remove
<1> QED
  BY <1>2, <1>3, <1>5, <1>6 DEF CountersInv

LEMMA CountersInit == Init => CountersInv
<1> SUFFICES ASSUME Init
             PROVE  CountersInv
  OBVIOUS
<1>1. handles = {} /\ gauge = [f \in Feed |-> 0]
      /\ \A c \in Client, n \in Message : stream[c][n].stage # "live"
  BY DEF Init, NoStream
<1>2. \A f \in Feed : Counted(f) = {}
  BY <1>1 DEF Counted
<1> QED
  BY <1>1, <1>2, FS_EmptySet DEF CountersInv

LEMMA CountersStep ==
  ASSUME GatewayInv, CountersInv, [Next]_vars
  PROVE  CountersInv'
<1>t. /\ stream \in [Client -> [Message -> Stream]] /\ sent \in [Client -> 0..MaxMessages]
      /\ version \in Version /\ StreamsInv
  BY DEF GatewayInv, GatewayTypes
<1>1. CASE UNCHANGED <<stream, metrics>>
  BY <1>1, CountersUntouched
<1>2. ASSUME NEW c \in Client, NEW r \in Request, Subscribe(c, r)
      PROVE  CountersInv'
  <2> DEFINE n == sent[c] + 1
             s == [NoStream EXCEPT !.stage = "grace", !.request = r]
  <2>1. n \in Message /\ stream[c][n].stage = "none" /\ UNCHANGED metrics
    BY <1>2, <1>t DEF Subscribe, StreamsInv
  <2>2. UNCHANGED stream \/ stream' = [stream EXCEPT ![c][n] = s]
    BY <1>2 DEF Subscribe, Becomes
  <2>3. s.stage = "grace"
    BY DEF NoStream
  <2> HIDE DEF n, s
  <2> QED
    BY <1>t, <2>1, <2>2, <2>3, CountersUntouched
<1>3. ASSUME NEW c \in Client, Disconnect(c)
      PROVE  CountersInv'
  <2> DEFINE ended == [NoStream EXCEPT !.stage = "ended"]
  <2>1. ended.stage = "ended"
    BY DEF NoStream
  <2>2. /\ stream' = [stream EXCEPT ![c] =
             [n \in Message |-> IF Live(c, n) THEN ended ELSE stream[c][n]]]
        /\ Remove({c} \X Message)
    BY <1>3 DEF Disconnect
  <2> HIDE DEF ended
  <2>3. \A d \in Client, n \in Message :
          stream'[d][n] = IF d = c /\ Live(c, n) THEN ended ELSE stream[d][n]
    BY <1>t, <2>2
  <2>4. ASSUME NEW d \in Client, NEW n \in Message
        PROVE  IF <<d, n>> \in {c} \X Message THEN stream'[d][n].stage # "live"
                                              ELSE stream'[d][n] = stream[d][n]
    BY <2>1, <2>3 DEF Live
  <2> QED
    BY <2>2, <2>4, CountersRemove
<1>4. ASSUME NEW c \in Client, NEW n \in Message, EndGrace(c, n) \/ Retry(c, n)
      PROVE  CountersInv'
  <2> DEFINE s == [stream[c][n] EXCEPT !.stage = "live", !.flight = {version}, !.last = 0]
  <2>1. /\ stream[c][n].stage # "live" /\ Add(c, n)
        /\ stream' = [stream EXCEPT ![c][n] = s]
    BY <1>4 DEF EndGrace, Retry, StartAttempt, Becomes
  <2>2. s.stage = "live" /\ s.request = stream[c][n].request
    <3>1. PICK q \in Stream : q = stream[c][n]
      BY <1>t
    <3>2. LET t == [q EXCEPT !.stage = "live", !.flight = {version}, !.last = 0]
          IN  t.stage = "live" /\ t.request = q.request
      BY DEF Stream
    <3> QED
      BY <3>1, <3>2, Zenon
  <2> HIDE DEF s
  <2>3. /\ stream'[c][n] = s
        /\ \A d \in Client, m \in Message : d # c \/ m # n => stream'[d][m] = stream[d][m]
    BY <1>t, <2>1
  <2> QED
    BY <2>1, <2>2, <2>3, CountersAdd
<1>5. ASSUME NEW c \in Client, NEW n \in Message, NEW s,
             stream[c][n].stage = "live", UNCHANGED metrics,
             stream' = [stream EXCEPT ![c][n] = s],
             s.stage = "live", s.request = stream[c][n].request
      PROVE  CountersInv'
  BY <1>t, <1>5, CountersUntouched
<1>6. ASSUME NEW c \in Client, NEW n \in Message, Tick(c, n)
      PROVE  CountersInv'
  <2> DEFINE s == [stream[c][n] EXCEPT !.flight = {version}]
  <2>1. /\ stream[c][n].stage = "live" /\ UNCHANGED metrics
        /\ stream' = [stream EXCEPT ![c][n] = s]
    BY <1>6 DEF Tick, Becomes
  <2>2. s.stage = "live" /\ s.request = stream[c][n].request
    BY <1>t, <2>1 DEF Stream
  <2> HIDE DEF s
  <2> QED
    BY <1>5, <2>1, <2>2
<1>7. ASSUME NEW c \in Client, NEW n \in Message,
             NEW asked \in Version, NEW v \in Version, Answer(c, n, asked, v)
      PROVE  CountersInv'
  <2> DEFINE emitted == stream[c][n].last = 0 \/ Shown[stream[c][n].last] # Shown[v]
             s == [stream[c][n] EXCEPT !.flight = @ \ {asked},
                                       !.last = IF emitted THEN v ELSE @]
  <2>1. /\ stream[c][n].stage = "live" /\ UNCHANGED metrics
        /\ stream' = [stream EXCEPT ![c][n] = s]
    BY <1>7 DEF Answer, Becomes
  <2>2. s.stage = "live" /\ s.request = stream[c][n].request
    BY <1>t, <2>1 DEF Stream
  <2> HIDE DEF s
  <2> QED
    BY <1>5, <2>1, <2>2
<1>8. ASSUME NEW c \in Client, NEW n \in Message, Fail(c, n)
      PROVE  CountersInv'
  <2> DEFINE s == [stream[c][n] EXCEPT !.stage = "backoff", !.flight = {}, !.last = 0]
  <2>1. Remove({<<c, n>>}) /\ stream' = [stream EXCEPT ![c][n] = s]
    BY <1>8 DEF Fail, Becomes
  <2>2. s.stage = "backoff"
    <3>1. PICK q \in Stream : q = stream[c][n]
      BY <1>t
    <3>2. [q EXCEPT !.stage = "backoff", !.flight = {}, !.last = 0].stage = "backoff"
      BY DEF Stream
    <3> QED
      BY <3>1, <3>2, Zenon
  <2> HIDE DEF s
  <2>3. \A d \in Client, m \in Message :
          stream'[d][m] = IF d = c /\ m = n THEN s ELSE stream[d][m]
    BY <1>t, <2>1
  <2>4. ASSUME NEW d \in Client, NEW m \in Message
        PROVE  IF <<d, m>> \in {<<c, n>>} THEN stream'[d][m].stage # "live"
                                          ELSE stream'[d][m] = stream[d][m]
    BY <2>2, <2>3
  <2> QED
    BY <2>1, <2>4, CountersRemove
<1>9. ASSUME NEW c \in Client, Connect(c) \/ StartClose(c)
      PROVE  UNCHANGED <<stream, metrics>>
  BY <1>9 DEF Connect, StartClose
<1>10. ASSUME NEW target \in 1..Cardinality(Client), ShedConnections(target)
       PROVE  UNCHANGED <<stream, metrics>>
  BY <1>10 DEF ShedConnections
<1>11. Publish \/ UNCHANGED vars => UNCHANGED <<stream, metrics>>
  BY DEF Publish, vars
<1> QED
  BY <1>1, <1>2, <1>3, <1>4, <1>6, <1>7, <1>8, <1>9, <1>10, <1>11 DEF Next, Advance

(***************************************************************************)
(* The schedule_subscriptions gauges count the live streams, neither       *)
(* losing nor repeating one, however grace periods, retries and closes     *)
(* interleave (ScheduleMetricsService.add and remove).                     *)
(***************************************************************************)
THEOREM GaugesCountStreams == Spec => []GaugesExact
<1>1. CountersInv => GaugesExact
  <2> SUFFICES ASSUME CountersInv, NEW f \in Feed
               PROVE  Counted(f) = {a \in Client \X Message :
                                      /\ stream[a[1]][a[2]].stage = "live"
                                      /\ Covers(stream[a[1]][a[2]].request, f)}
    BY DEF CountersInv, GaugesExact
  <2>1. \A a \in Client \X Message : a \in handles <=> stream[a[1]][a[2]].stage = "live"
    BY DEF CountersInv
  <2> QED
    BY <2>1 DEF Counted, CountersInv
<1>2. GatewayInv /\ CountersInv /\ [Next]_vars => (GatewayInv /\ CountersInv)'
  BY GatewayInvStep, CountersStep
<1> QED
  BY GatewayInvInit, CountersInit, <1>1, <1>2, PTL DEF Spec

-----------------------------------------------------------------------------
Connected == {c \in Client : conn[c] \in {"open", "closing"}}

(* Why the number of devices is never negative: it counts the sockets that *)
(* are not closed yet, whether or not they have a stream.                  *)
DevicesInv ==
  /\ conn \in [Client -> {"none", "open", "closing", "closed"}]
  /\ IsFiniteSet(Connected) /\ devices = Cardinality(Connected)
  /\ subscribers \subseteq Client
  /\ failuresLeft \in 0..MaxFailures

LEMMA DevicesInit == Init => DevicesInv
<1> SUFFICES ASSUME Init PROVE DevicesInv
  OBVIOUS
<1>1. Connected = {}
  BY DEF Init, Connected
<1>2. IsFiniteSet(Connected) /\ Cardinality(Connected) = 0
  BY <1>1, FS_EmptySet
<1> QED
  BY <1>2, BoundAssumption DEF Init, DevicesInv

(* A step that opens and closes no socket for good. *)
LEMMA DevicesUntouched ==
  ASSUME DevicesInv, devices' = devices,
         conn' \in [Client -> {"none", "open", "closing", "closed"}],
         \A c \in Client : conn'[c] \in {"open", "closing"} <=> conn[c] \in {"open", "closing"},
         subscribers' \subseteq Client, failuresLeft' \in 0..MaxFailures
  PROVE  DevicesInv'
<1>1. Connected' = Connected
  BY DEF Connected
<1> QED
  BY <1>1 DEF DevicesInv

LEMMA DevicesStep ==
  ASSUME DevicesInv, [Next]_vars
  PROVE  DevicesInv'
<1>t. /\ conn \in [Client -> {"none", "open", "closing", "closed"}]
      /\ subscribers \subseteq Client /\ failuresLeft \in 0..MaxFailures /\ MaxFailures \in Nat
      /\ IsFiniteSet(Connected) /\ devices = Cardinality(Connected)
  BY BoundAssumption DEF DevicesInv
<1>1. ASSUME NEW c \in Client, Connect(c)
      PROVE  DevicesInv'
  <2>1. c \notin Connected
    BY <1>1 DEF Connect, Connected
  <2>2. IsFiniteSet(Connected \cup {c}) /\ Cardinality(Connected \cup {c}) = Cardinality(Connected) + 1
    BY <1>t, <2>1, FS_AddElement
  <2>3. Connected' = Connected \cup {c}
    BY <1>t, <1>1 DEF Connect, Connected
  <2>4. conn' \in [Client -> {"none", "open", "closing", "closed"}]
    BY <1>t, <1>1 DEF Connect
  <2>5. devices' = devices + 1 /\ UNCHANGED <<subscribers, failuresLeft>>
    BY <1>1 DEF Connect
  <2>6. IsFiniteSet(Connected') /\ devices' = Cardinality(Connected')
    BY <1>t, <2>2, <2>3, <2>5
  <2> QED
    BY <1>t, <2>4, <2>5, <2>6 DEF DevicesInv
<1>2. ASSUME NEW c \in Client, Disconnect(c)
      PROVE  DevicesInv'
  <2>1. c \in Connected
    BY <1>2 DEF Disconnect, Connected
  <2>2. /\ IsFiniteSet(Connected \ {c}) /\ Cardinality(Connected \ {c}) = Cardinality(Connected) - 1
    BY <1>t, <2>1, FS_RemoveElement
  <2>3. Connected' = Connected \ {c}
    BY <1>t, <1>2 DEF Disconnect, Connected
  <2>4. conn' \in [Client -> {"none", "open", "closing", "closed"}]
    BY <1>t, <1>2 DEF Disconnect
  <2>5. devices' = devices - 1 /\ UNCHANGED failuresLeft /\ subscribers' \subseteq Client
    BY <1>t, <1>2 DEF Disconnect
  <2>6. IsFiniteSet(Connected') /\ devices' = Cardinality(Connected')
    BY <1>t, <2>2, <2>3, <2>5
  <2> QED
    BY <1>t, <2>4, <2>5, <2>6 DEF DevicesInv
<1>3. ASSUME NEW c \in Client, StartClose(c)
      PROVE  DevicesInv'
  <2>1. /\ conn' = [conn EXCEPT ![c] = "closing"] /\ conn[c] = "open"
        /\ UNCHANGED <<devices, subscribers, failuresLeft>>
    BY <1>3 DEF StartClose
  <2> QED
    BY <1>t, <2>1, DevicesUntouched
<1>4. ASSUME NEW target \in 1..Cardinality(Client), ShedConnections(target)
      PROVE  DevicesInv'
  <2>1. PICK closed \in SUBSET {c \in Client : conn[c] = "open"} :
          conn' = [c \in Client |-> IF c \in closed THEN "closing" ELSE conn[c]]
    BY <1>4 DEF ShedConnections
  <2>2. UNCHANGED <<devices, subscribers, failuresLeft>>
    BY <1>4 DEF ShedConnections
  <2> QED
    BY <1>t, <2>1, <2>2, DevicesUntouched
<1>5. ASSUME NEW c \in Client, NEW r \in Request, Subscribe(c, r)
      PROVE  DevicesInv'
  <2>1. UNCHANGED <<conn, devices, failuresLeft>> /\ subscribers' \subseteq Client
    BY <1>t, <1>5 DEF Subscribe
  <2> QED
    BY <1>t, <2>1, DevicesUntouched
<1>6. ASSUME NEW c \in Client, NEW n \in Message, Advance(c, n)
      PROVE  DevicesInv'
  <2>1. UNCHANGED <<conn, devices, subscribers>>
    BY <1>6 DEF Advance, EndGrace, Tick, Fail, Retry, StartAttempt, Answer
  <2>2. failuresLeft' = failuresLeft \/ (failuresLeft > 0 /\ failuresLeft' = failuresLeft - 1)
    BY <1>6 DEF Advance, EndGrace, Tick, Fail, Retry, StartAttempt, Answer
  <2> QED
    BY <1>t, <2>1, <2>2, DevicesUntouched
<1>7. CASE Publish \/ UNCHANGED vars
  <2>1. UNCHANGED <<conn, devices, subscribers, failuresLeft>>
    BY <1>7 DEF Publish, vars
  <2> QED
    BY <1>t, <2>1, DevicesUntouched
<1> QED
  BY <1>1, <1>2, <1>3, <1>4, <1>5, <1>6, <1>7 DEF Next

(***************************************************************************)
(* The variables of the gateway have their types in every state; in        *)
(* particular no counter, of devices or of subscriptions, gets negative,   *)
(* whatever is closed while it is retried or before it was counted.        *)
(***************************************************************************)
THEOREM GatewayTypeCorrect == Spec => []TypeOK
<1>1. GatewayInv /\ CountersInv /\ DevicesInv => TypeOK
  <2> SUFFICES ASSUME GatewayInv, CountersInv, DevicesInv PROVE TypeOK
    OBVIOUS
  <2>1. devices \in Nat
    BY FS_CardinalityType DEF DevicesInv
  <2> QED
    BY <2>1 DEF GatewayInv, GatewayTypes, CountersInv, DevicesInv, TypeOK
<1>2. GatewayInv /\ CountersInv /\ DevicesInv /\ [Next]_vars
      => (GatewayInv /\ CountersInv /\ DevicesInv)'
  BY GatewayInvStep, CountersStep, DevicesStep
<1> QED
  BY GatewayInvInit, CountersInit, DevicesInit, <1>1, <1>2, PTL DEF Spec
=============================================================================
