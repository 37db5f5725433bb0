------------------------- MODULE ConnectionShedding -------------------------
(***************************************************************************)
(* Load shedding across the fleet: ConnectionSheddingService on every      *)
(* instance, with the fleet view of ScheduleMetricsService and the load    *)
(* balancer that takes the clients back.                                   *)
(*                                                                         *)
(* Connections are counted, not named.  What Redis reports of an instance  *)
(* follows its connections one by one and with any delay: every connection *)
(* subscribes, and counts until its socket has ended (FleetMetrics has the *)
(* path to Redis).  Whether an instance is hot is up to the environment:   *)
(* an evaluation that the CPU average stops does not happen here.          *)
(***************************************************************************)
EXTENDS Integers, FiniteSets, FiniteSetsExt

CONSTANTS
  Instance,        \* the machines that may run
  Initially,       \* connections of each machine at first; one without any
                   \* starts later
  MinConnections,  \* SHED_MIN_CONNECTIONS
  BatchSize,       \* SHED_BATCH_SIZE
  Margin,          \* SHED_SHARE_MARGIN, in percent
  DrainBatches,    \* batches that fit into SHED_DRAIN_TIMEOUT
  MaxLeaves        \* bound: connections that clients drop themselves

ASSUME InitiallyAssumption == Initially \in [Instance -> Nat]
ASSUME SettingAssumption ==
  /\ MinConnections \in Nat /\ BatchSize \in Nat \ {0}
  /\ Margin \in Nat /\ DrainBatches \in Nat
ASSUME BoundAssumption == MaxLeaves \in Nat

Clients == MapThenSumSet(LAMBDA i : Initially[i], Instance)

(* An evaluation and what it has read so far. *)
Evaluation ==
  [stage       : {"idle", "scan", "count", "decide"},
   connections : 0..Clients,           \* gateway.connectionCount
   keys        : SUBSET Instance,      \* the instances found in Redis
   total       : Nat,                  \* fleetTotal
   mine        : 0..Clients,           \* myCount
   left        : Nat]                  \* history: connections gone meanwhile

NoEvaluation == [stage |-> "idle", connections |-> 0, keys |-> {}, total |-> 0,
                 mine |-> 0, left |-> 0]

VARIABLES
  phase,        \* the life of each instance
  open,         \* its sockets that are open
  away,         \* clients that have to connect again
  reported,     \* the fields of its hash in Redis
  eval,         \* its evaluation
  cooling,      \* whether its last shedding is less than the cooldown ago
  batchesLeft,  \* until the drain's deadline
  leavesLeft    \* how many connections clients may still drop

sockets == <<open, away>>
vars == <<phase, sockets, reported, eval, cooling, batchesLeft, leavesLeft>>

Init ==
  /\ phase = [i \in Instance |-> IF Initially[i] > 0 THEN "up" ELSE "new"]
  /\ open = Initially
  /\ away = 0
  /\ reported = Initially
  /\ eval = [i \in Instance |-> NoEvaluation]
  /\ cooling = [i \in Instance |-> FALSE]
  /\ batchesLeft = [i \in Instance |-> DrainBatches]
  /\ leavesLeft = MaxLeaves

AtMost(a, b) == IF a < b THEN a ELSE b
AtLeast(a, b) == IF a > b THEN a ELSE b
CeilDiv(a, b) == (a + b - 1) \div b

-----------------------------------------------------------------------------
(* Sockets and the load balancer. *)

Serving(i) == phase[i] \in {"up", "draining"}

(* The autoscaler brings up a machine. *)
Start(i) ==
  /\ phase[i] = "new"
  /\ phase' = [phase EXCEPT ![i] = "up"]
  /\ UNCHANGED <<sockets, reported, eval, cooling, batchesLeft, leavesLeft>>

(* A client connects again, to the least loaded machine. *)
Connect(i) ==
  /\ away > 0 /\ phase[i] = "up"
  /\ \A j \in Instance : phase[j] = "up" => open[i] <= open[j]
  /\ away' = away - 1
  /\ open' = [open EXCEPT ![i] = @ + 1]
  /\ UNCHANGED <<phase, reported, eval, cooling, batchesLeft, leavesLeft>>

(* What the evaluation that is under way does not know. *)
Departed(i, n) == eval' = [eval EXCEPT ![i].left = @ + n]

Leave(i) ==
  /\ leavesLeft > 0 /\ leavesLeft' = leavesLeft - 1
  /\ open[i] > 0
  /\ open' = [open EXCEPT ![i] = @ - 1]
  /\ away' = away + 1
  /\ IF eval[i].stage = "idle" THEN UNCHANGED eval ELSE Departed(i, 1)
  /\ UNCHANGED <<phase, reported, cooling, batchesLeft>>

(* A mistaken loop that does not count the sockets it closes. *)
ShedConnections_Uncounted(i, target) ==
  /\ open' = [open EXCEPT ![i] = @ - target]
  /\ away' = away + target

(* shedConnections: close up to `target` of the open sockets. *)
ShedConnections(i, target) ==
  LET closed == AtMost(target, open[i]) IN
  /\ open' = [open EXCEPT ![i] = @ - closed]
  /\ away' = away + closed

(* Redis learns of one connection more or less of an instance. *)
Report(i) ==
  /\ Serving(i)
  /\ \/ reported[i] < open[i] /\ reported' = [reported EXCEPT ![i] = @ + 1]
     \/ reported[i] > open[i] /\ reported' = [reported EXCEPT ![i] = @ - 1]
  /\ UNCHANGED <<phase, sockets, eval, cooling, batchesLeft, leavesLeft>>

-----------------------------------------------------------------------------
(* evaluate(), between its awaits. *)

(* A hot instance above the floor; one evaluation at a time. *)
Evaluate(i) ==
  /\ phase[i] = "up" /\ eval[i].stage = "idle"
  /\ open[i] > MinConnections
  /\ eval' = [eval EXCEPT ![i].stage = "scan", ![i].connections = open[i]]
  /\ UNCHANGED <<phase, sockets, reported, cooling, batchesLeft, leavesLeft>>

(* SCAN: a hash without fields is no key.  Without keys there is no view. *)
ScanKeys(i) ==
  LET keys == {j \in Instance : reported[j] > 0} IN
  /\ eval[i].stage = "scan"
  /\ eval' = [eval EXCEPT ![i] = IF keys = {} THEN NoEvaluation
                                 ELSE [@ EXCEPT !.stage = "count", !.keys = keys]]
  /\ UNCHANGED <<phase, sockets, reported, cooling, batchesLeft, leavesLeft>>

(* HLEN of every key that was found. *)
CountKeys(i) ==
  LET keys == eval[i].keys IN
  /\ eval[i].stage = "count"
  /\ eval' = [eval EXCEPT ![i].stage = "decide",
                          ![i].total = MapThenSumSet(LAMBDA j : reported[j], keys),
                          ![i].mine = IF i \in keys THEN reported[i] ELSE 0]
  /\ UNCHANGED <<phase, sockets, reported, cooling, batchesLeft, leavesLeft>>

(* The fleet view cannot be read. *)
FailView(i) ==
  /\ eval[i].stage \in {"scan", "count"}
  /\ eval' = [eval EXCEPT ![i] = NoEvaluation]
  /\ UNCHANGED <<phase, sockets, reported, cooling, batchesLeft, leavesLeft>>

(* A mistaken comparison with the whole fleet's connections. *)
OverShare_OfTotal(e) == 100 * e.mine > e.total * (100 + Margin)

(* myCount > fleetAverage * (1 + shareMargin) *)
OverShare(e) ==
  100 * e.mine * Cardinality(e.keys) > e.total * (100 + Margin)

(* A mistaken lower bound without the floor. *)
LowerBound_NoFloor(e) == CeilDiv(e.total, Cardinality(e.keys))

LowerBound(e) == AtLeast(MinConnections, CeilDiv(e.total, Cardinality(e.keys)))

(* A mistaken target: a whole batch whatever the share. *)
Target_WholeBatch(i, e) ==
  IF Cardinality(e.keys) > 1 /\ OverShare(e) /\ ~cooling[i] THEN BatchSize ELSE 0

(* What an evaluation decides to close, out of the connections it counted
   before it read the fleet view; 0 or less when it decides to wait. *)
Target(i, e) ==
  IF Cardinality(e.keys) > 1 /\ OverShare(e) /\ ~cooling[i]
  THEN AtMost(BatchSize, e.connections - LowerBound(e))
  ELSE 0

Decide(i) ==
  LET target == Target(i, eval[i]) IN
  /\ eval[i].stage = "decide"
  /\ IF target > 0
     THEN ShedConnections(i, target) /\ cooling' = [cooling EXCEPT ![i] = TRUE]
     ELSE UNCHANGED <<sockets, cooling>>
  /\ eval' = [eval EXCEPT ![i] = NoEvaluation]
  /\ UNCHANGED <<phase, reported, batchesLeft, leavesLeft>>

(* The cooldown is over. *)
Cool(i) ==
  /\ cooling[i]
  /\ cooling' = [cooling EXCEPT ![i] = FALSE]
  /\ UNCHANGED <<phase, sockets, reported, eval, batchesLeft, leavesLeft>>

-----------------------------------------------------------------------------
(* Shutdown. *)

(* beforeApplicationShutdown: no more evaluations; connections are drained
   in batches.  The last machine that is up stays up. *)
BeginDrain(i) ==
  /\ phase[i] = "up"
  /\ \E j \in Instance \ {i} : phase[j] = "up"
  /\ phase' = [phase EXCEPT ![i] = "draining"]
  /\ UNCHANGED <<sockets, reported, eval, cooling, batchesLeft, leavesLeft>>

DrainBatch(i) ==
  /\ phase[i] = "draining" /\ open[i] > 0
  /\ batchesLeft[i] > 0 /\ batchesLeft' = [batchesLeft EXCEPT ![i] = @ - 1]
  /\ ShedConnections(i, BatchSize)
  /\ IF eval[i].stage = "idle" THEN UNCHANGED eval
     ELSE Departed(i, AtMost(BatchSize, open[i]))
  /\ UNCHANGED <<phase, reported, cooling, leavesLeft>>

(* The process is gone and its sockets with it. *)
Vanish(i) ==
  /\ phase' = [phase EXCEPT ![i] = "down"]
  /\ open' = [open EXCEPT ![i] = 0]
  /\ away' = away + open[i]
  /\ eval' = [eval EXCEPT ![i] = NoEvaluation]
  /\ cooling' = [cooling EXCEPT ![i] = FALSE]
  /\ batchesLeft' = [batchesLeft EXCEPT ![i] = 0]
  /\ UNCHANGED <<reported, leavesLeft>>

(* A mistaken drain that waits until no connection is left. *)
EndDrain_OnlyWhenEmpty(i) ==
  /\ phase[i] = "draining" /\ open[i] = 0
  /\ Vanish(i)

(* The drain ends, complete or timed out. *)
EndDrain(i) ==
  /\ phase[i] = "draining" /\ (open[i] = 0 \/ batchesLeft[i] = 0)
  /\ Vanish(i)

(* A machine is lost. *)
Crash(i) ==
  /\ phase[i] = "up"
  /\ \E j \in Instance \ {i} : phase[j] = "up"
  /\ Vanish(i)

(* The key of a machine that is gone is deleted by its shutdown or expires. *)
Forget(i) ==
  /\ phase[i] = "down" /\ reported[i] > 0
  /\ reported' = [reported EXCEPT ![i] = 0]
  /\ UNCHANGED <<phase, sockets, eval, cooling, batchesLeft, leavesLeft>>

-----------------------------------------------------------------------------
Next ==
  \E i \in Instance :
    \/ Start(i) \/ Connect(i) \/ Leave(i) \/ Report(i)
    \/ Evaluate(i) \/ ScanKeys(i) \/ CountKeys(i) \/ FailView(i)
    \/ Decide(i) \/ Cool(i)
    \/ BeginDrain(i) \/ DrainBatch(i) \/ EndDrain(i)
    \/ Crash(i) \/ Forget(i)

Spec == Init /\ [][Next]_vars

(* Timers fire, reads do not fail for ever, clients connect again,
   Redis catches up and forgets; and an instance above the floor stays
   hot. *)
Fairness ==
  /\ \A i \in Instance :
       /\ WF_vars(Evaluate(i)) /\ SF_vars(ScanKeys(i)) /\ SF_vars(CountKeys(i))
       /\ WF_vars(Decide(i)) /\ WF_vars(Cool(i))
       /\ WF_vars(Report(i)) /\ WF_vars(DrainBatch(i)) /\ WF_vars(EndDrain(i))
       /\ WF_vars(Forget(i))
  /\ WF_vars(\E i \in Instance : Connect(i))

FairSpec == Spec /\ Fairness

-----------------------------------------------------------------------------
(* Properties. *)

(* The variables have their types. *)
TypeOK ==
  /\ phase \in [Instance -> {"new", "up", "draining", "down"}]
  /\ open \in [Instance -> 0..Clients]
  /\ away \in 0..Clients
  /\ reported \in [Instance -> 0..Clients]
  /\ eval \in [Instance -> Evaluation]
  /\ cooling \in [Instance -> BOOLEAN]
  /\ batchesLeft \in [Instance -> 0..DrainBatches]
  /\ leavesLeft \in 0..MaxLeaves

(* A step in which an evaluation ends with connections closed. *)
Sheds(i) ==
  /\ eval[i].stage = "decide" /\ eval'[i].stage = "idle"
  /\ open'[i] < open[i] /\ phase'[i] # "down"

(***************************************************************************)
(* Shedding "toward the fleet average, never below the absolute floor":    *)
(* what it leaves open falls short of the floor, or of the fleet's average *)
(* as it was read, by no more than the connections that clients dropped    *)
(* and a drain closed while the evaluation waited for Redis.               *)
(***************************************************************************)
FloorUpToDepartures ==
  [][\A i \in Instance :
       Sheds(i) => /\ open'[i] + eval[i].left >= MinConnections
                   /\ (open'[i] + eval[i].left) * Cardinality(eval[i].keys)
                        >= eval[i].total]_vars

(***************************************************************************)
(* No "hot potato": although every instance stays hot, the fleet stops     *)
(* shedding once no client leaves by itself and no machine comes or goes.  *)
(***************************************************************************)
NoHotPotato == <>[][\A i \in Instance : ~Sheds(i)]_vars

(* A fair share when the connections are spread over `machines`. *)
FairlyLoaded(i, machines) ==
  LET n == Cardinality(machines)
      total == MapThenSumSet(LAMBDA j : open[j], machines)
  IN  \/ open[i] <= AtLeast(MinConnections, CeilDiv(total, n))
      \/ 100 * open[i] * n <= total * (100 + Margin)

Up == {i \in Instance : phase[i] = "up"}

(***************************************************************************)
(* Shedding remediates that connections stick to an overloaded machine     *)
(* "even if a more suitable, less loaded one becomes available": they end  *)
(* up balanced over the machines that are up.  It is not so of the code:   *)
(* getFleetConnectionStats counts hashes, a machine without connections    *)
(* has none, and evaluate() goes on waiting for the machine that is there. *)
(***************************************************************************)
Rebalanced == \A i \in Instance : <>[](i \in Up => FairlyLoaded(i, Up))

(***************************************************************************)
(* That is the only way to stay unbalanced: once every machine that is up  *)
(* has a connection, evaluate() does not stop before each has its share,   *)
(* up to the margin and the floor, however late the counts are.            *)
(***************************************************************************)
SharedLoadBalanced ==
  \A i \in Instance :
    <>[](i \in Up /\ (\A j \in Up : open[j] > 0) => FairlyLoaded(i, Up))

(* A drain ends, with or without connections left. *)
DrainEnds == \A i \in Instance : phase[i] = "draining" ~> phase[i] = "down"
=============================================================================
