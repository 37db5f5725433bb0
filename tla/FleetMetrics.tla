---------------------------- MODULE FleetMetrics ----------------------------
(***************************************************************************)
(* The registry of schedule subscriptions that ScheduleMetricsService      *)
(* keeps in Redis: a hash per hostname with a field per subscription,      *)
(* which expires unless the instance's heartbeat renews it.                *)
(*                                                                         *)
(* An instance never waits for Redis: add, remove and heartbeat send their *)
(* commands and go on, and a command that fails is only logged.  Commands  *)
(* of one instance are executed in the order they were sent.               *)
(*                                                                         *)
(* Time passes in heartbeat intervals.  While Redis can be reached it      *)
(* executes a command within one; while it cannot, the client library      *)
(* queues commands, and rejects all of them after its last attempt to      *)
(* reconnect, which takes it longer than one interval.                     *)
(***************************************************************************)
EXTENDS Integers, Sequences

CONSTANTS
  Instance,      \* hostnames of the API's instances
  Handle,        \* random identifiers of subscriptions
  KeyTtl,        \* KEY_TTL_SECONDS, in heartbeat intervals
  MaxOutage,     \* bound: intervals that Redis may be unreachable for
  MaxQueue,      \* bound: commands waiting when another one is sent
  FaultKinds,    \* the faults that may happen
  MaxFaults      \* bound: how many faults happen

Fault == {"outage", "rejected", "crash", "restart", "cli"}
Command == [op : {"add", "remove"}, handle : Handle]
             \cup [op : {"expire", "del"}]

ASSUME TimeAssumption == KeyTtl \in Nat \ {0} /\ MaxOutage \in Nat
ASSUME BoundAssumption ==
  MaxQueue \in Nat /\ MaxFaults \in Nat /\ FaultKinds \subseteq Fault

VARIABLES
  state,       \* the life of each instance's process
  mine,        \* subscriptionHandles: the subscriptions of each process
  pipe,        \* commands sent and not yet executed
  hash,        \* the fields of each instance's hash; an empty one is no key
  ttl,         \* intervals until the hash expires, 0 if it never does
  beaten,      \* whether the heartbeat fired in this interval
  outage,      \* intervals Redis has been unreachable for, -1 if it is not
  drifted,     \* history: whether a fault came between mine and hash
  faultsLeft   \* how many faults may still happen

redis == <<hash, ttl>>
vars == <<state, mine, pipe, redis, beaten, outage, drifted, faultsLeft>>

Init ==
  /\ state = [i \in Instance |-> "down"]
  /\ mine = [i \in Instance |-> {}]
  /\ pipe = [i \in Instance |-> <<>>]
  /\ hash = [i \in Instance |-> {}]
  /\ ttl = [i \in Instance |-> 0]
  /\ beaten = [i \in Instance |-> FALSE]
  /\ outage = -1
  /\ drifted = [i \in Instance |-> FALSE]
  /\ faultsLeft = MaxFaults

Running(i) == state[i] \in {"up", "stopping"}
Send(i, command) == pipe' = [pipe EXCEPT ![i] = Append(@, command)]
Faulty(kind) ==
  kind \in FaultKinds /\ faultsLeft > 0 /\ faultsLeft' = faultsLeft - 1

-----------------------------------------------------------------------------
(* The service. *)

(* onApplicationBootstrap: renew the key, and every interval from now on. *)
Bootstrap(i) ==
  /\ state' = [state EXCEPT ![i] = "up"]
  /\ beaten' = [beaten EXCEPT ![i] = TRUE]
  /\ Send(i, [op |-> "expire"])

(* A host starts that has not been up before, or whose key is gone. *)
Start(i) ==
  /\ state[i] = "down" /\ hash[i] = {}
  /\ Bootstrap(i)
  /\ drifted' = [drifted EXCEPT ![i] = FALSE]
  /\ UNCHANGED <<mine, redis, outage, faultsLeft>>

(* A process is started again on a host whose key is still there. *)
Restart(i) ==
  /\ Faulty("restart")
  /\ state[i] = "down" /\ hash[i] # {}
  /\ Bootstrap(i)
  /\ drifted' = [drifted EXCEPT ![i] = TRUE]
  /\ UNCHANGED <<mine, redis, outage>>

Fresh(h) ==
  \A i \in Instance :
    /\ h \notin mine[i] \cup hash[i]
    /\ \A n \in DOMAIN pipe[i] : pipe[i][n].op = "add" => pipe[i][n].handle # h

(* add: HSET of a new handle and EXPIRE, in one pipeline. *)
AddSubscription(i, h) ==
  /\ Running(i) /\ Fresh(h)
  /\ Len(pipe[i]) < MaxQueue
  /\ mine' = [mine EXCEPT ![i] = @ \cup {h}]
  /\ Send(i, [op |-> "add", handle |-> h])
  /\ UNCHANGED <<state, redis, beaten, outage, drifted, faultsLeft>>

(* A mistaken remove that names the hash instead of the handle. *)
RemoveSubscription_ByKey(i, h) ==
  /\ Running(i) /\ h \in mine[i]
  /\ Len(pipe[i]) < MaxQueue
  /\ mine' = [mine EXCEPT ![i] = @ \ {h}]
  /\ Send(i, [op |-> "remove", handle |-> i])
  /\ UNCHANGED <<state, redis, beaten, outage, drifted, faultsLeft>>

(* remove: HDEL of the handle and EXPIRE. *)
RemoveSubscription(i, h) ==
  /\ Running(i) /\ h \in mine[i]
  /\ Len(pipe[i]) < MaxQueue
  /\ mine' = [mine EXCEPT ![i] = @ \ {h}]
  /\ Send(i, [op |-> "remove", handle |-> h])
  /\ UNCHANGED <<state, redis, beaten, outage, drifted, faultsLeft>>

(* A mistaken heartbeat that leaves it to the subscriptions to renew. *)
Heartbeat_Silent(i) ==
  /\ state[i] = "up" /\ ~beaten[i]
  /\ beaten' = [beaten EXCEPT ![i] = TRUE]
  /\ UNCHANGED <<state, mine, pipe, redis, outage, drifted, faultsLeft>>

(* refreshTtl: EXPIRE, which does nothing to a key that is not there. *)
Heartbeat(i) ==
  /\ state[i] = "up" /\ ~beaten[i]
  /\ beaten' = [beaten EXCEPT ![i] = TRUE]
  /\ Send(i, [op |-> "expire"])
  /\ UNCHANGED <<state, mine, redis, outage, drifted, faultsLeft>>

(* onApplicationShutdown: no more heartbeats, and DEL. *)
Stop(i) ==
  /\ state[i] = "up"
  /\ state' = [state EXCEPT ![i] = "stopping"]
  /\ Send(i, [op |-> "del"])
  /\ UNCHANGED <<mine, redis, beaten, outage, drifted, faultsLeft>>

Vanish(i) ==
  /\ state' = [state EXCEPT ![i] = "down"]
  /\ mine' = [mine EXCEPT ![i] = {}]
  /\ pipe' = [pipe EXCEPT ![i] = <<>>]

(* The process ends once DEL was answered. *)
Exit(i) ==
  /\ state[i] = "stopping" /\ pipe[i] = <<>>
  /\ Vanish(i)
  /\ UNCHANGED <<redis, beaten, outage, drifted, faultsLeft>>

Crash(i) ==
  /\ Faulty("crash") /\ Running(i)
  /\ Vanish(i)
  /\ UNCHANGED <<redis, beaten, outage, drifted>>

(* A `cli` command on the host of a running instance ends: it shuts the same
   module down, and its DEL names the same key. *)
EndCli(i) ==
  /\ Faulty("cli") /\ state[i] = "up" /\ outage = -1
  /\ hash' = [hash EXCEPT ![i] = {}]
  /\ ttl' = [ttl EXCEPT ![i] = 0]
  /\ drifted' = [drifted EXCEPT ![i] = TRUE]
  /\ UNCHANGED <<state, mine, pipe, beaten, outage>>

-----------------------------------------------------------------------------
(* Redis. *)

Applied(fields, command) ==
  IF command.op = "add" THEN fields \cup {command.handle}
  ELSE IF command.op = "remove" THEN fields \ {command.handle}
  ELSE IF command.op = "del" THEN {} ELSE fields

(* A mistaken syncToRedis that sends no EXPIRE after its HSET. *)
Execute_NoExpire(i) ==
  LET command == Head(pipe[i])
      fields == Applied(hash[i], command)
  IN
  /\ outage = -1 /\ pipe[i] # <<>>
  /\ pipe' = [pipe EXCEPT ![i] = Tail(@)]
  /\ hash' = [hash EXCEPT ![i] = fields]
  /\ ttl' = [ttl EXCEPT ![i] = IF fields = {} THEN 0
                               ELSE IF command.op = "expire" THEN KeyTtl ELSE @]
  /\ UNCHANGED <<state, mine, beaten, outage, drifted, faultsLeft>>

(* Redis executes the next command of an instance; every kind of command
   but DEL renews the key it leaves.  HSET or HDEL and its EXPIRE are one
   step: a connection that breaks between the two is left out. *)
Execute(i) ==
  LET fields == Applied(hash[i], Head(pipe[i])) IN
  /\ outage = -1 /\ pipe[i] # <<>>
  /\ pipe' = [pipe EXCEPT ![i] = Tail(@)]
  /\ hash' = [hash EXCEPT ![i] = fields]
  /\ ttl' = [ttl EXCEPT ![i] = IF fields = {} THEN 0 ELSE KeyTtl]
  /\ UNCHANGED <<state, mine, beaten, outage, drifted, faultsLeft>>

(* A connection that breaks again before it caught up is one outage. *)
LoseRedis ==
  /\ Faulty("outage") /\ outage = -1
  /\ \A i \in Instance : pipe[i] = <<>>
  /\ outage' = 0
  /\ UNCHANGED <<state, mine, pipe, redis, beaten, drifted>>

RestoreRedis ==
  /\ outage # -1
  /\ outage' = -1
  /\ UNCHANGED <<state, mine, pipe, redis, beaten, drifted, faultsLeft>>

(* The client library gives up: what it queued is rejected, and logged. *)
Reject(i) ==
  /\ Faulty("rejected")
  /\ outage > 0 /\ pipe[i] # <<>>
  /\ pipe' = [pipe EXCEPT ![i] = <<>>]
  /\ drifted' = [drifted EXCEPT ![i] = TRUE]
  /\ UNCHANGED <<state, mine, redis, beaten, outage>>

(***************************************************************************)
(* An interval ends.  All heartbeats of it have fired, and have been       *)
(* executed if Redis can be reached; every key is one interval older.      *)
(***************************************************************************)
Tick ==
  /\ \A i \in Instance : state[i] = "up" => beaten[i]
  /\ outage = -1 => \A i \in Instance : pipe[i] = <<>>
  /\ outage < MaxOutage
  /\ outage' = IF outage = -1 THEN -1 ELSE outage + 1
  /\ beaten' = [i \in Instance |-> FALSE]
  /\ hash' = [i \in Instance |-> IF ttl[i] = 1 THEN {} ELSE hash[i]]
  /\ ttl' = [i \in Instance |-> IF ttl[i] > 0 THEN ttl[i] - 1 ELSE 0]
  /\ UNCHANGED <<state, mine, pipe, drifted, faultsLeft>>

-----------------------------------------------------------------------------
Next ==
  \/ \E i \in Instance :
       \/ Start(i) \/ Restart(i) \/ Heartbeat(i) \/ Stop(i) \/ Exit(i)
       \/ Crash(i) \/ EndCli(i) \/ Execute(i) \/ Reject(i)
       \/ \E h \in Handle : AddSubscription(i, h) \/ RemoveSubscription(i, h)
  \/ LoseRedis \/ RestoreRedis \/ Tick

Spec == Init /\ [][Next]_vars

(* Timers fire, Redis comes back and executes what it is sent, a process
   that is stopping ends, and time passes. *)
Fairness ==
  /\ \A i \in Instance : WF_vars(Heartbeat(i)) /\ SF_vars(Execute(i))
                            /\ SF_vars(Exit(i))
  /\ WF_vars(RestoreRedis)
  /\ SF_vars(Tick)

FairSpec == Spec /\ Fairness

-----------------------------------------------------------------------------
(* Properties. *)

(* The variables have their types. *)
TypeOK ==
  /\ state \in [Instance -> {"down", "up", "stopping"}]
  /\ mine \in [Instance -> SUBSET Handle]
  /\ pipe \in [Instance -> Seq(Command)]
  /\ hash \in [Instance -> SUBSET Handle]
  /\ ttl \in [Instance -> 0..KeyTtl]
  /\ beaten \in [Instance -> BOOLEAN]
  /\ outage \in -1..MaxOutage
  /\ drifted \in [Instance -> BOOLEAN]
  /\ faultsLeft \in 0..MaxFaults

(***************************************************************************)
(* What Redis holds of an instance that is up, once it has executed what   *)
(* was sent, is exactly the instance's subscriptions, unless a command was *)
(* rejected, the host was restarted before its old key expired, or a cli   *)
(* on the host deleted the key: neither an outage shorter than the time to *)
(* live nor the crash of a process makes the two differ.                   *)
(***************************************************************************)
RegistryExact ==
  \A i \in Instance :
    state[i] = "up" /\ pipe[i] = <<>> /\ ~drifted[i] => hash[i] = mine[i]

(* The hash of a process that is gone does not count for ever: nobody renews
   it any more, whatever failed while it was written. *)
GhostsForgotten ==
  \A i \in Instance : state[i] = "down" ~> (hash[i] = {} \/ state[i] = "up")
=============================================================================
