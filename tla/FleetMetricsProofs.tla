-------------------------- MODULE FleetMetricsProofs --------------------------
(***************************************************************************)
(* That the hash of an instance is exactly its subscriptions, for any      *)
(* number of instances and subscriptions and any queue, as long as the     *)
(* time to live outlasts an outage and the heartbeats around it.           *)
(*                                                                         *)
(* RegistryExact only speaks of instances whose commands are all executed. *)
(* The invariant says of every moment that the commands under way lead     *)
(* from the hash to the subscriptions, and how much of the time to live is *)
(* left: a heartbeat that was executed renewed all of it, and an outage    *)
(* takes at most its length and the interval before it.                    *)
(***************************************************************************)
EXTENDS FleetMetrics, SequenceTheorems, TLAPS

Adds(command, h) == command.op = "add" /\ command.handle = h
Removes(command, h) == command.op = "remove" /\ command.handle = h

(* Whether h is a field once `commands` are executed on `fields`. *)
Results(fields, commands, h) ==
  \/ h \in fields /\ \A n \in 1..Len(commands) : ~Removes(commands[n], h)
  \/ \E n \in 1..Len(commands) :
       /\ Adds(commands[n], h)
       /\ \A m \in 1..Len(commands) : m > n => ~Removes(commands[m], h)

(* The process is gone, or its commands lead to what it has. *)
Led(i) ==
  /\ state[i] = "down" => mine[i] = {} /\ pipe[i] = <<>>
  /\ state[i] = "up" =>
       /\ \A n \in 1..Len(pipe[i]) : pipe[i][n].op # "del"
       /\ ~drifted[i] => \A h \in Handle : h \in mine[i] <=> Results(hash[i], pipe[i], h)

(* The key outlasts what is left of an outage. *)
Lasting(i) ==
  state[i] = "up" /\ ~drifted[i] /\ hash[i] # {} =>
    /\ ttl[i] >= 1
    /\ pipe[i] = <<>> => ttl[i] >= KeyTtl - 1 /\ (beaten[i] => ttl[i] = KeyTtl)
    /\ outage # -1 => ttl[i] >= KeyTtl - 1 - outage

FleetInv == TypeOK /\ \A i \in Instance : Led(i) /\ Lasting(i)

-----------------------------------------------------------------------------
(* A command that is sent decides about its own handle only. *)
LEMMA ResultsOfAppend ==
  ASSUME NEW commands \in Seq(Command), NEW c \in Command, NEW fields \in SUBSET Handle,
         NEW h \in Handle
  PROVE  Results(fields, Append(commands, c), h)
           <=> Adds(c, h) \/ (Results(fields, commands, h) /\ ~Removes(c, h))
<1> DEFINE longer == Append(commands, c)
           k == Len(commands) + 1
<1>1. /\ Len(commands) \in Nat
      /\ Len(longer) = k
      /\ longer[k] = c
      /\ \A n \in 1..Len(commands) : longer[n] = commands[n]
  OBVIOUS
<1>2. ASSUME Adds(c, h) PROVE Results(fields, longer, h)
  <2>1. Adds(longer[k], h) /\ \A m \in 1..Len(longer) : ~(m > k)
    BY <1>1, <1>2
  <2>2. QED BY <1>1, <2>1 DEF Results
<1>3. ASSUME Results(fields, commands, h), ~Removes(c, h) PROVE Results(fields, longer, h)
  <2>1. \A n \in 1..Len(longer) : n \in 1..Len(commands) \/ (n = k /\ longer[n] = c)
    BY <1>1
  <2>2. QED BY <1>1, <1>3, <2>1 DEF Results
<1>4. ASSUME Results(fields, longer, h) PROVE Adds(c, h) \/ Results(fields, commands, h)
  <2>1. \A n \in 1..Len(longer) : n \in 1..Len(commands) \/ (n = k /\ longer[n] = c)
    BY <1>1
  <2>2. QED BY <1>1, <1>4, <2>1 DEF Results
<1>5. ASSUME Results(fields, longer, h), ~Adds(c, h) PROVE ~Removes(c, h)
  <2>1. \A n \in 1..Len(longer) : n = k \/ k > n
    BY <1>1
  <2>2. k \in 1..Len(longer)
    BY <1>1
  <2>3. QED BY <1>1, <1>5, <2>1, <2>2 DEF Results, Adds, Removes
<1>6. QED BY <1>2, <1>3, <1>4, <1>5 DEF Adds, Removes

(* A command that is executed does not change what the commands lead to. *)
LEMMA ResultsOfTail ==
  ASSUME NEW commands \in Seq(Command), commands # <<>>, Head(commands).op # "del",
         NEW fields \in SUBSET Handle, NEW h \in Handle
  PROVE  Results(Applied(fields, Head(commands)), Tail(commands), h)
           <=> Results(fields, commands, h)
<1> DEFINE c == Head(commands)
           rest == Tail(commands)
           after == Applied(fields, c)
<1>1. /\ Len(commands) \in Nat /\ Len(commands) >= 1
      /\ c = commands[1] /\ c \in Command
      /\ rest \in Seq(Command) /\ Len(rest) = Len(commands) - 1
      /\ \A n \in 1..Len(rest) : rest[n] = commands[n + 1]
  OBVIOUS
<1>2. h \in after <=> Adds(c, h) \/ (h \in fields /\ ~Removes(c, h))
  BY <1>1 DEF Applied, Adds, Removes, Command
<1>3. \A n \in 1..Len(commands) : n = 1 \/ (n - 1 \in 1..Len(rest) /\ rest[n - 1] = commands[n])
  BY <1>1
<1>4. ASSUME Results(after, rest, h) PROVE Results(fields, commands, h)
  <2>1. CASE h \in after /\ \A n \in 1..Len(rest) : ~Removes(rest[n], h)
    <3>1. \A m \in 1..Len(commands) : m > 1 => ~Removes(commands[m], h)
      BY <1>1, <1>3, <2>1
    <3>2. 1 \in 1..Len(commands)
      BY <1>1
    <3>3. CASE Adds(c, h)
      BY <1>1, <3>1, <3>2, <3>3 DEF Results
    <3>4. CASE h \in fields /\ ~Removes(c, h)
      <4>1. \A m \in 1..Len(commands) : ~Removes(commands[m], h)
        BY <1>1, <3>1, <3>4
      <4>2. QED BY <3>4, <4>1 DEF Results
    <3>5. QED BY <1>2, <2>1, <3>3, <3>4
  <2>2. CASE \E n \in 1..Len(rest) :
               /\ Adds(rest[n], h)
               /\ \A m \in 1..Len(rest) : m > n => ~Removes(rest[m], h)
    <3>1. PICK n \in 1..Len(rest) :
               /\ Adds(rest[n], h)
               /\ \A m \in 1..Len(rest) : m > n => ~Removes(rest[m], h)
      BY <2>2
    <3>2. n + 1 \in 1..Len(commands) /\ Adds(commands[n + 1], h)
      BY <1>1, <3>1
    <3>3. ASSUME NEW m \in 1..Len(commands), m > n + 1 PROVE ~Removes(commands[m], h)
      <4>1. m - 1 \in 1..Len(rest) /\ m - 1 > n /\ rest[m - 1] = commands[m]
        BY <1>1, <1>3, <3>3
      <4>2. QED BY <3>1, <4>1
    <3>4. QED BY <3>2, <3>3 DEF Results
  <2>3. QED BY <1>4, <2>1, <2>2 DEF Results
<1>5. ASSUME Results(fields, commands, h) PROVE Results(after, rest, h)
  <2>1. ASSUME h \in fields, \A n \in 1..Len(commands) : ~Removes(commands[n], h)
        PROVE  Results(after, rest, h)
    <3>1. \A n \in 1..Len(rest) : ~Removes(rest[n], h)
      BY <1>1, <2>1
    <3>2. QED BY <1>1, <1>2, <2>1, <3>1 DEF Results
  <2>2. ASSUME NEW n \in 1..Len(commands), Adds(commands[n], h),
               \A m \in 1..Len(commands) : m > n => ~Removes(commands[m], h)
        PROVE  Results(after, rest, h)
    <3>1. CASE n = 1
      <4>1. \A m \in 1..Len(rest) : ~Removes(rest[m], h)
        <5>1. \A m \in 1..Len(rest) : m + 1 \in 1..Len(commands) /\ m + 1 > n
          BY <1>1, <3>1
        <5>2. QED BY <1>1, <2>2, <5>1
      <4>2. QED BY <1>1, <1>2, <2>2, <3>1, <4>1 DEF Results
    <3>2. CASE n # 1
      <4>1. n - 1 \in 1..Len(rest) /\ Adds(rest[n - 1], h)
        BY <1>3, <2>2, <3>2
      <4>2. \A m \in 1..Len(rest) : m > n - 1 => ~Removes(rest[m], h)
        BY <1>1, <2>2
      <4>3. QED BY <4>1, <4>2 DEF Results
    <3>3. QED BY <3>1, <3>2
  <2>3. QED BY <1>5, <2>1, <2>2 DEF Results
<1>6. QED BY <1>4, <1>5

-----------------------------------------------------------------------------
(* The variables keep their types. *)
LEMMA TypesInit == Init => TypeOK
BY TimeAssumption, BoundAssumption DEF Init, TypeOK

LEMMA TypesStep == TypeOK /\ [Next]_vars => TypeOK'
<1> SUFFICES ASSUME TypeOK, [Next]_vars PROVE TypeOK'
  OBVIOUS
<1> USE TimeAssumption, BoundAssumption
<1>1. ASSUME NEW i \in Instance, NEW c \in Command, Send(i, c)
      PROVE  pipe' \in [Instance -> Seq(Command)]
  BY <1>1 DEF TypeOK, Send
<1>2. /\ [op |-> "expire"] \in Command /\ [op |-> "del"] \in Command
      /\ \A h \in Handle : /\ [op |-> "add", handle |-> h] \in Command
                            /\ [op |-> "remove", handle |-> h] \in Command
  BY DEF Command
<1>3. ASSUME NEW i \in Instance, NEW h \in Handle, AddSubscription(i, h) PROVE TypeOK'
  <2>1. pipe' \in [Instance -> Seq(Command)]
    BY <1>1, <1>2, <1>3 DEF AddSubscription
  <2>2. QED BY <1>3, <2>1 DEF TypeOK, AddSubscription, redis
<1>4. ASSUME NEW i \in Instance, NEW h \in Handle, RemoveSubscription(i, h) PROVE TypeOK'
  <2>1. pipe' \in [Instance -> Seq(Command)]
    BY <1>1, <1>2, <1>4 DEF RemoveSubscription
  <2>2. QED BY <1>4, <2>1 DEF TypeOK, RemoveSubscription, redis
<1>5. ASSUME NEW i \in Instance, Start(i) \/ Restart(i) PROVE TypeOK'
  <2>1. pipe' \in [Instance -> Seq(Command)]
    BY <1>1, <1>2, <1>5 DEF Start, Restart, Bootstrap
  <2>2. state' \in [Instance -> {"down", "up", "stopping"}]
    BY <1>5 DEF TypeOK, Start, Restart, Bootstrap
  <2>3. beaten' \in [Instance -> BOOLEAN] /\ drifted' \in [Instance -> BOOLEAN]
    BY <1>5 DEF TypeOK, Start, Restart, Bootstrap
  <2>4. faultsLeft' \in 0..MaxFaults
    BY <1>5 DEF TypeOK, Start, Restart, Faulty
  <2>5. UNCHANGED <<mine, hash, ttl, outage>>
    BY <1>5 DEF Start, Restart, redis
  <2>6. QED BY <2>1, <2>2, <2>3, <2>4, <2>5 DEF TypeOK
<1>6. ASSUME NEW i \in Instance, Heartbeat(i) \/ Stop(i) PROVE TypeOK'
  <2>1. pipe' \in [Instance -> Seq(Command)]
    BY <1>1, <1>2, <1>6 DEF Heartbeat, Stop
  <2>2. state' \in [Instance -> {"down", "up", "stopping"}]
    BY <1>6 DEF TypeOK, Heartbeat, Stop
  <2>3. beaten' \in [Instance -> BOOLEAN]
    BY <1>6 DEF TypeOK, Heartbeat, Stop
  <2>4. UNCHANGED <<mine, hash, ttl, outage, drifted, faultsLeft>>
    BY <1>6 DEF Heartbeat, Stop, redis
  <2>5. QED BY <2>1, <2>2, <2>3, <2>4 DEF TypeOK
<1>7. ASSUME NEW i \in Instance, Exit(i) PROVE TypeOK'
  BY <1>7 DEF TypeOK, Exit, Vanish, redis
<1>8. ASSUME NEW i \in Instance, Crash(i) PROVE TypeOK'
  BY <1>8 DEF TypeOK, Crash, Vanish, Faulty, redis
<1>9. ASSUME NEW i \in Instance, EndCli(i) PROVE TypeOK'
  BY <1>9 DEF TypeOK, EndCli, Faulty, redis
<1>10. ASSUME NEW i \in Instance, Reject(i) PROVE TypeOK'
  BY <1>10 DEF TypeOK, Reject, Faulty, redis
<1>11. ASSUME NEW i \in Instance, Execute(i) PROVE TypeOK'
  <2>1. pipe[i] \in Seq(Command) /\ pipe[i] # <<>>
    BY <1>11 DEF TypeOK, Execute
  <2>2. Head(pipe[i]) \in Command /\ Tail(pipe[i]) \in Seq(Command)
    BY <2>1
  <2>3. Applied(hash[i], Head(pipe[i])) \in SUBSET Handle
    BY <2>2 DEF TypeOK, Applied, Command
  <2>4. QED BY <1>11, <2>2, <2>3 DEF TypeOK, Execute
<1>12. CASE LoseRedis \/ RestoreRedis
  BY <1>12 DEF TypeOK, LoseRedis, RestoreRedis, Faulty, redis
<1>13. CASE Tick
  BY <1>13 DEF TypeOK, Tick
<1>14. CASE UNCHANGED vars
  BY <1>14 DEF TypeOK, vars, redis
<1>15. QED BY <1>3, <1>4, <1>5, <1>6, <1>7, <1>8, <1>9, <1>10, <1>11, <1>12, <1>13,
              <1>14 DEF Next

(* The variables of the registry have their types in every state, for any  *)
(* instances, subscriptions and faults.                                    *)
THEOREM FleetTypeCorrect == Spec => []TypeOK
<1>1. QED BY TypesInit, TypesStep, PTL DEF Spec

-----------------------------------------------------------------------------
(* The time to live outlasts an outage: the heartbeat before it, its       *)
(* intervals, and the one in which Redis is back.                          *)
LongLived == KeyTtl >= MaxOutage + 2

(* A step of other instances and of nothing that they share. *)
LEMMA InstanceUntouched ==
  ASSUME NEW i \in Instance, Led(i), Lasting(i),
         state'[i] = state[i], mine'[i] = mine[i], pipe'[i] = pipe[i], hash'[i] = hash[i],
         ttl'[i] = ttl[i], beaten'[i] = beaten[i], drifted'[i] = drifted[i], outage' = outage
  PROVE  Led(i)' /\ Lasting(i)'
BY DEF Led, Lasting

(* A process that is up sends a command other than DEL. *)
LEMMA LedOnward ==
  ASSUME TypeOK, NEW i \in Instance, Led(i), NEW c \in Command, c.op # "del",
         state[i] = "up", state'[i] = "up", pipe'[i] = Append(pipe[i], c),
         hash'[i] = hash[i], drifted'[i] = drifted[i],
         \A h \in Handle :
           h \in mine'[i] <=> Adds(c, h) \/ (h \in mine[i] /\ ~Removes(c, h))
  PROVE  Led(i)'
<1>1. pipe[i] \in Seq(Command) /\ hash[i] \in SUBSET Handle
  BY DEF TypeOK
<1>2. \A n \in 1..Len(pipe'[i]) : pipe'[i][n].op # "del"
  BY <1>1 DEF Led
<1>3. ASSUME ~drifted'[i], NEW h \in Handle
      PROVE  h \in mine'[i] <=> Results(hash'[i], pipe'[i], h)
  <2>1. h \in mine[i] <=> Results(hash[i], pipe[i], h)
    BY <1>3 DEF Led
  <2>2. Results(hash[i], Append(pipe[i], c), h)
          <=> Adds(c, h) \/ (Results(hash[i], pipe[i], h) /\ ~Removes(c, h))
    BY <1>1, ResultsOfAppend
  <2>3. QED BY <2>1, <2>2
<1>4. (\A h \in Handle : h \in mine'[i] <=> Results(hash'[i], pipe'[i], h)) \/ drifted'[i]
  BY <1>3
<1>5. QED BY <1>2, <1>4 DEF Led, Results

LEMMA FleetInit == Init => FleetInv
<1> SUFFICES ASSUME Init PROVE FleetInv
  OBVIOUS
<1>1. TypeOK
  BY TypesInit
<1>2. ASSUME NEW i \in Instance PROVE Led(i) /\ Lasting(i)
  BY DEF Init, Led, Lasting
<1>3. QED BY <1>1, <1>2 DEF FleetInv

(* Every step keeps the invariant: the other instances notice only the      *)
(* outage and the time.                                                     *)
LEMMA FleetStep == LongLived /\ FleetInv /\ [Next]_vars => FleetInv'
<1> SUFFICES ASSUME LongLived, FleetInv, [Next]_vars PROVE FleetInv'
  OBVIOUS
<1> USE TimeAssumption, BoundAssumption
<1>1. TypeOK /\ TypeOK'
  BY TypesStep DEF FleetInv
<1>2. SUFFICES ASSUME NEW j \in Instance PROVE Led(j)' /\ Lasting(j)'
  BY <1>1 DEF FleetInv
<1>3. /\ Led(j) /\ Lasting(j)
      /\ state[j] \in {"down", "up", "stopping"} /\ mine[j] \in SUBSET Handle
      /\ pipe[j] \in Seq(Command) /\ hash[j] \in SUBSET Handle /\ ttl[j] \in 0..KeyTtl
      /\ beaten[j] \in BOOLEAN /\ drifted[j] \in BOOLEAN
  BY <1>1 DEF FleetInv, TypeOK
<1>4. KeyTtl \in Nat /\ MaxOutage \in Nat /\ KeyTtl >= MaxOutage + 2 /\ outage \in -1..MaxOutage
  BY <1>1 DEF LongLived, TypeOK
<1>5. /\ DOMAIN state = Instance /\ DOMAIN mine = Instance /\ DOMAIN pipe = Instance
      /\ DOMAIN hash = Instance /\ DOMAIN ttl = Instance /\ DOMAIN beaten = Instance
      /\ DOMAIN drifted = Instance
  BY <1>1 DEF TypeOK
<1>6. /\ [op |-> "expire"] \in Command /\ [op |-> "del"] \in Command
      /\ \A h \in Handle : /\ [op |-> "add", handle |-> h] \in Command
                            /\ [op |-> "remove", handle |-> h] \in Command
  BY DEF Command
<1>7. ASSUME NEW i \in Instance, Start(i) \/ Restart(i) PROVE Led(j)' /\ Lasting(j)'
  <2>1. CASE i = j
    <3>1. /\ state[j] = "down" /\ state'[j] = "up" /\ mine'[j] = {} /\ hash'[j] = hash[j]
          /\ pipe'[j] = <<[op |-> "expire"]>>
          /\ drifted'[j] \/ hash[j] = {}
      BY <1>3, <1>5, <1>7, <2>1 DEF Start, Restart, Bootstrap, Send, redis, Led
    <3>2. Len(pipe'[j]) = 1 /\ pipe'[j][1].op = "expire"
      BY <3>1
    <3>3. hash[j] = {} => \A h \in Handle : ~Results(hash'[j], pipe'[j], h)
      BY <3>1, <3>2 DEF Results, Adds
    <3>4. Led(j)'
      BY <3>1, <3>2, <3>3 DEF Led, Results, Adds, Removes
    <3>5. QED BY <3>1, <3>4 DEF Lasting
  <2>2. CASE i # j
    BY <1>3, <1>5, <1>7, <2>2, InstanceUntouched DEF Start, Restart, Bootstrap, Send, redis
  <2>3. QED BY <2>1, <2>2
<1>8. ASSUME NEW i \in Instance, NEW h \in Handle, AddSubscription(i, h)
      PROVE  Led(j)' /\ Lasting(j)'
  <2>1. CASE i = j
    <3> DEFINE c == [op |-> "add", handle |-> h]
    <3>1. /\ state[j] \in {"up", "stopping"} /\ state'[j] = state[j]
          /\ pipe'[j] = Append(pipe[j], c) /\ mine'[j] = mine[j] \cup {h}
          /\ hash'[j] = hash[j] /\ ttl'[j] = ttl[j] /\ drifted'[j] = drifted[j]
          /\ outage' = outage
      BY <1>5, <1>8, <2>1 DEF AddSubscription, Running, Send, redis
    <3>2. pipe'[j] # <<>>
      BY <1>3, <3>1
    <3>3. Lasting(j)'
      BY <1>3, <3>1, <3>2 DEF Lasting
    <3>4. \A g \in Handle : g \in mine'[j] <=> Adds(c, g) \/ (g \in mine[j] /\ ~Removes(c, g))
      BY <3>1 DEF Adds, Removes
    <3>5. CASE state[j] = "up"
      <4>1. c \in Command /\ c.op # "del"
        BY <1>6
      <4>2. QED BY <1>1, <1>3, <3>1, <3>3, <3>4, <3>5, <4>1, LedOnward
    <3>6. CASE state[j] = "stopping"
      BY <3>1, <3>3, <3>6 DEF Led
    <3>7. QED BY <3>1, <3>5, <3>6
  <2>2. CASE i # j
    BY <1>3, <1>5, <1>8, <2>2, InstanceUntouched DEF AddSubscription, Send, redis
  <2>3. QED BY <2>1, <2>2
<1>9. ASSUME NEW i \in Instance, NEW h \in Handle, RemoveSubscription(i, h)
      PROVE  Led(j)' /\ Lasting(j)'
  <2>1. CASE i = j
    <3> DEFINE c == [op |-> "remove", handle |-> h]
    <3>1. /\ state[j] \in {"up", "stopping"} /\ state'[j] = state[j]
          /\ pipe'[j] = Append(pipe[j], c) /\ mine'[j] = mine[j] \ {h}
          /\ hash'[j] = hash[j] /\ ttl'[j] = ttl[j] /\ drifted'[j] = drifted[j]
          /\ outage' = outage
      BY <1>5, <1>9, <2>1 DEF RemoveSubscription, Running, Send, redis
    <3>2. pipe'[j] # <<>>
      BY <1>3, <3>1
    <3>3. Lasting(j)'
      BY <1>3, <3>1, <3>2 DEF Lasting
    <3>4. \A g \in Handle : g \in mine'[j] <=> Adds(c, g) \/ (g \in mine[j] /\ ~Removes(c, g))
      BY <3>1 DEF Adds, Removes
    <3>5. CASE state[j] = "up"
      <4>1. c \in Command /\ c.op # "del"
        BY <1>6
      <4>2. QED BY <1>1, <1>3, <3>1, <3>3, <3>4, <3>5, <4>1, LedOnward
    <3>6. CASE state[j] = "stopping"
      BY <3>1, <3>3, <3>6 DEF Led
    <3>7. QED BY <3>1, <3>5, <3>6
  <2>2. CASE i # j
    BY <1>3, <1>5, <1>9, <2>2, InstanceUntouched DEF RemoveSubscription, Send, redis
  <2>3. QED BY <2>1, <2>2
<1>10. ASSUME NEW i \in Instance, Heartbeat(i) PROVE Led(j)' /\ Lasting(j)'
  <2>1. CASE i = j
    <3> DEFINE c == [op |-> "expire"]
    <3>0. c \in Command
      BY <1>6
    <3>1. /\ state[j] = "up" /\ state'[j] = "up"
          /\ pipe'[j] = Append(pipe[j], c) /\ mine'[j] = mine[j]
          /\ hash'[j] = hash[j] /\ ttl'[j] = ttl[j] /\ drifted'[j] = drifted[j]
          /\ outage' = outage
      BY <1>5, <1>10, <2>1 DEF Heartbeat, Send, redis
    <3> HIDE DEF c
    <3>2. pipe'[j] # <<>>
      BY <1>3, <3>0, <3>1
    <3>3. Lasting(j)'
      BY <1>3, <3>1, <3>2 DEF Lasting
    <3>4. \A g \in Handle : g \in mine'[j] <=> Adds(c, g) \/ (g \in mine[j] /\ ~Removes(c, g))
      BY <3>1 DEF c, Adds, Removes
    <3>5. c \in Command /\ c.op # "del"
      BY <3>0 DEF c
    <3>6. QED BY <1>1, <1>3, <3>1, <3>3, <3>4, <3>5, LedOnward
  <2>2. CASE i # j
    BY <1>3, <1>5, <1>10, <2>2, InstanceUntouched DEF Heartbeat, Send, redis
  <2>3. QED BY <2>1, <2>2
<1>11. ASSUME NEW i \in Instance, Stop(i) \/ Exit(i) \/ Crash(i) PROVE Led(j)' /\ Lasting(j)'
  <2>1. CASE i = j
    <3>1. state'[j] # "up" /\ (state'[j] = "down" => mine'[j] = {} /\ pipe'[j] = <<>>)
      BY <1>5, <1>11, <2>1 DEF Stop, Exit, Crash, Vanish
    <3>2. QED BY <3>1 DEF Led, Lasting
  <2>2. CASE i # j
    BY <1>3, <1>5, <1>11, <2>2, InstanceUntouched DEF Stop, Exit, Crash, Vanish, Send, redis
  <2>3. QED BY <2>1, <2>2
<1>12. ASSUME NEW i \in Instance, EndCli(i) PROVE Led(j)' /\ Lasting(j)'
  <2>1. CASE i = j
    <3>1. state'[j] = "up" /\ drifted'[j] /\ pipe'[j] = pipe[j] /\ state[j] = "up"
      BY <1>5, <1>12, <2>1 DEF EndCli
    <3>2. QED BY <1>3, <3>1 DEF Led, Lasting
  <2>2. CASE i # j
    BY <1>3, <1>5, <1>12, <2>2, InstanceUntouched DEF EndCli
  <2>3. QED BY <2>1, <2>2
<1>13. ASSUME NEW i \in Instance, Reject(i) PROVE Led(j)' /\ Lasting(j)'
  <2>1. CASE i = j
    <3>1. /\ state'[j] = state[j] /\ mine'[j] = mine[j]
          /\ drifted'[j] /\ pipe'[j] = <<>>
      BY <1>5, <1>13, <2>1 DEF Reject
    <3>2. Len(pipe'[j]) = 0
      BY <3>1
    <3>3. QED BY <1>3, <3>1, <3>2 DEF Led, Lasting
  <2>2. CASE i # j
    BY <1>3, <1>5, <1>13, <2>2, InstanceUntouched DEF Reject, redis
  <2>3. QED BY <2>1, <2>2
<1>14. ASSUME NEW i \in Instance, Execute(i) PROVE Led(j)' /\ Lasting(j)'
  <2>1. CASE i = j
    <3> DEFINE fields == Applied(hash[j], Head(pipe[j]))
    <3>1. /\ state'[j] = state[j] /\ mine'[j] = mine[j] /\ drifted'[j] = drifted[j]
          /\ pipe[j] # <<>> /\ pipe'[j] = Tail(pipe[j])
          /\ hash'[j] = fields /\ (fields # {} => ttl'[j] = KeyTtl)
          /\ outage' = -1
      BY <1>5, <1>14, <2>1 DEF Execute
    <3>2. Lasting(j)'
      BY <1>4, <3>1 DEF Lasting
    <3>3. CASE state[j] = "up"
      <4>1. /\ Head(pipe[j]) = pipe[j][1] /\ 1 \in 1..Len(pipe[j])
            /\ \A n \in 1..Len(Tail(pipe[j])) : /\ n + 1 \in 1..Len(pipe[j])
                                                 /\ Tail(pipe[j])[n] = pipe[j][n + 1]
        BY <1>3, <3>1
      <4>2. Head(pipe[j]).op # "del"
        BY <1>3, <3>3, <4>1 DEF Led
      <4>3. \A n \in 1..Len(pipe'[j]) : pipe'[j][n].op # "del"
        BY <1>3, <3>1, <3>3, <4>1 DEF Led
      <4>4. \A h \in Handle : Results(fields, Tail(pipe[j]), h) <=> Results(hash[j], pipe[j], h)
        BY <1>3, <3>1, <4>2, ResultsOfTail
      <4>5. ASSUME ~drifted'[j], NEW h \in Handle
            PROVE  h \in mine'[j] <=> Results(hash'[j], pipe'[j], h)
        <5>1. h \in mine[j] <=> Results(hash[j], pipe[j], h)
          BY <1>3, <3>1, <3>3, <4>5 DEF Led
        <5>2. QED BY <3>1, <4>4, <5>1
      <4>6. drifted'[j] \/ \A h \in Handle : h \in mine'[j] <=> Results(hash'[j], pipe'[j], h)
        BY <4>5
      <4>7. QED BY <3>1, <3>2, <3>3, <4>3, <4>6 DEF Led, Results
    <3>4. CASE state[j] # "up"
      BY <1>3, <3>1, <3>2, <3>4 DEF Led
    <3>5. QED BY <3>3, <3>4
  <2>2. CASE i # j
    BY <1>3, <1>5, <1>14, <2>2, InstanceUntouched DEF Execute
  <2>3. QED BY <2>1, <2>2
<1>15. CASE LoseRedis
  <2>1. /\ outage' = 0 /\ pipe[j] = <<>>
        /\ state'[j] = state[j] /\ mine'[j] = mine[j] /\ pipe'[j] = pipe[j]
        /\ hash'[j] = hash[j] /\ ttl'[j] = ttl[j] /\ beaten'[j] = beaten[j]
        /\ drifted'[j] = drifted[j]
    BY <1>15 DEF LoseRedis, redis
  <2>2. Led(j)'
    BY <1>3, <2>1 DEF Led
  <2>3. QED BY <1>3, <1>4, <2>1, <2>2 DEF Lasting
<1>16. CASE RestoreRedis
  <2>1. /\ outage' = -1
        /\ state'[j] = state[j] /\ mine'[j] = mine[j] /\ pipe'[j] = pipe[j]
        /\ hash'[j] = hash[j] /\ ttl'[j] = ttl[j] /\ beaten'[j] = beaten[j]
        /\ drifted'[j] = drifted[j]
    BY <1>16 DEF RestoreRedis, redis
  <2>2. Led(j)'
    BY <1>3, <2>1 DEF Led
  <2>3. QED BY <1>3, <1>4, <2>1, <2>2 DEF Lasting
<1>17. CASE Tick
  <2>1. /\ state'[j] = state[j] /\ mine'[j] = mine[j] /\ pipe'[j] = pipe[j]
        /\ drifted'[j] = drifted[j] /\ ~beaten'[j]
        /\ hash'[j] = (IF ttl[j] = 1 THEN {} ELSE hash[j])
        /\ ttl'[j] = (IF ttl[j] > 0 THEN ttl[j] - 1 ELSE 0)
        /\ outage' = (IF outage = -1 THEN -1 ELSE outage + 1)
        /\ outage < MaxOutage
        /\ outage = -1 => pipe[j] = <<>>
        /\ state[j] = "up" => beaten[j]
    BY <1>17 DEF Tick
  <2>2. ASSUME state[j] = "up", ~drifted[j], hash[j] # {}
        PROVE  /\ ttl[j] >= 2 /\ ttl[j] # 1
               /\ pipe[j] = <<>> => ttl[j] = KeyTtl
               /\ outage # -1 => ttl[j] >= KeyTtl - 1 - outage
    <3>1. /\ pipe[j] = <<>> => ttl[j] = KeyTtl
          /\ outage # -1 => ttl[j] >= KeyTtl - 1 - outage
      BY <1>3, <2>1, <2>2, Zenon DEF Lasting
    <3>2. ttl[j] \in Int /\ (outage = -1 => pipe[j] = <<>>) /\ outage < MaxOutage
      BY <1>3, <2>1
    <3>3. ttl[j] >= 2 /\ ttl[j] # 1
      BY <1>4, <3>1, <3>2
    <3>4. QED BY <3>1, <3>3
  <2>3. state[j] = "up" /\ ~drifted[j] => hash'[j] = hash[j]
    BY <2>1, <2>2, Zenon
  <2>4. Led(j)'
    BY <1>3, <2>1, <2>3 DEF Led
  <2>5. ASSUME state[j] = "up", ~drifted[j], hash[j] # {}
        PROVE  /\ ttl'[j] >= 1
               /\ pipe'[j] = <<>> => ttl'[j] >= KeyTtl - 1
               /\ outage' # -1 => ttl'[j] >= KeyTtl - 1 - outage'
    <3>1. ttl[j] \in Int /\ ttl'[j] = ttl[j] - 1 /\ pipe'[j] = pipe[j]
      BY <1>3, <2>1, <2>2, <2>5
    <3>2. outage' = IF outage = -1 THEN -1 ELSE outage + 1
      BY <2>1
    <3>3. QED BY <1>4, <2>2, <2>5, <3>1, <3>2
  <2>6. Lasting(j)'
    BY <2>1, <2>3, <2>5, Zenon DEF Lasting
  <2>7. QED BY <2>4, <2>6
<1>18. CASE UNCHANGED vars
  BY <1>3, <1>18, InstanceUntouched DEF vars, redis
<1>19. QED BY <1>7, <1>8, <1>9, <1>10, <1>11, <1>12, <1>13, <1>14, <1>15, <1>16, <1>17,
              <1>18 DEF Next

(* RegistryExact for every fleet: with a time to live that outlasts an     *)
(* outage, Redis holds exactly the subscriptions of an instance once it    *)
(* has executed what the instance sent, however many commands, outages and *)
(* crashes there were, unless a fault set the two apart.                   *)
THEOREM HashesAreExact ==
  ASSUME LongLived
  PROVE  Spec => []RegistryExact
<1>1. FleetInv => RegistryExact
  <2> SUFFICES ASSUME FleetInv, NEW i \in Instance, state[i] = "up", pipe[i] = <<>>, ~drifted[i]
               PROVE  hash[i] = mine[i]
    BY DEF RegistryExact
  <2>1. Led(i) /\ hash[i] \in SUBSET Handle /\ mine[i] \in SUBSET Handle
    BY DEF FleetInv, TypeOK
  <2>2. \A h \in Handle : h \in mine[i] <=> h \in hash[i]
    BY <2>1 DEF Led, Results
  <2>3. QED BY <2>1, <2>2
<1>2. FleetInv /\ [Next]_vars => FleetInv'
  BY FleetStep
<1>3. QED BY <1>1, <1>2, FleetInit, PTL DEF Spec
=============================================================================
