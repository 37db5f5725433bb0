------------------------------- MODULE FeedCache -------------------------------
(***************************************************************************)
(* FeedCacheService.cached() with three of its users: the schedule of a    *)
(* route at a stop, which GtfsService reads for yesterday, today and       *)
(* tomorrow, the list of stops, and GET /feeds/service-areas, whose answer *)
(* CacheInterceptor caches again.                                          *)
(*                                                                         *)
(* The clock is the server's, in hours since midnight of day 0; Shift tells *)
(* it from the agency's.  Of a cached value only the time it was read at   *)
(* and, of a schedule, the service day that it holds are kept.  Callers are *)
(* requests on any instance that share the cache.                          *)
(***************************************************************************)
EXTENDS Integers, Sequences, FiniteSets, FiniteSetsExt

CONSTANTS
  Caller,
  Shift,     \* hours that the agency's clock is ahead of the server's
  Ttl,       \* hours for which a "days", "stops" or "areas" value is kept
  Hours,     \* bound: the hours of a day at which something happens
  MaxTime,   \* bound
  Patience,  \* bound: hours for which a call or a write may be under way
  MaxFaults, \* bound: evictions, failed reads and lost writes
  Workloads, \* what each caller may ask for, in one behaviour
  NoKey

What == {"days", "stops", "areas"}

ASSUME TtlAssumption == Ttl \in [What -> Nat \ {0}]
ASSUME ClockAssumption ==
  /\ Hours \subseteq 0..23 /\ 0 \in Hours
  /\ Shift \in Int /\ MaxTime \in Nat /\ Patience \in Nat /\ MaxFaults \in Nat

ASSUME WorkloadsAssumption == Workloads \subseteq [Caller -> SUBSET What]

VARIABLES
  clock,
  memory,     \* the cached values: [value, expires] of the keys that it holds
  writes,     \* sets that are not awaited: [key, value, since, expires]
  call,       \* what each caller does
  answer,     \* what each was last told
  goals,      \* what each caller asks for
  faultsLeft,
  calm        \* history: no schedule was evicted, lost, failed or read across hours

vars == <<clock, memory, writes, call, answer, goals, faultsLeft, calm>>

Idle == [goal |-> "none", stage |-> "idle", key |-> NoKey, offset |-> 0, got |-> <<>>, since |-> 0]

Nothing == [goal |-> "none", got |-> <<>>, at |-> 0]

Init ==
  /\ clock = 0
  /\ memory = [k \in {} |-> NoKey] /\ writes = {}
  /\ call = [c \in Caller |-> Idle] /\ answer = [c \in Caller |-> Nothing]
  /\ goals \in Workloads /\ faultsLeft = MaxFaults /\ calm = TRUE

-----------------------------------------------------------------------------
(* Keys. *)

DateOf(time) == time \div 24
HourOf(time) == time % 24

AgencyDay(time) == DateOf(time + Shift)

(* A mistaken key of the day it is, not the day that is asked for. *)
ScheduleKey_Today(time, offset) ==
  [what |-> "days", date |-> DateOf(time), hour |-> 12 % (HourOf(time) + 1)]

(* A mistaken key that does not change within a day. *)
ScheduleKey_Date(time, offset) == [what |-> "days", date |-> DateOf(time) + offset, hour |-> 0]

(* dateKey of getScheduleForRouteAtStop. *)
ScheduleKey(time, offset) ==
  [what |-> "days", date |-> DateOf(time) + offset, hour |-> 12 % (HourOf(time) + 1)]

FixedKey(what) == [what |-> what, date |-> 0, hour |-> 0]

KeyFor(goal, offset) ==
  IF goal = "days" THEN ScheduleKey(clock, offset) ELSE FixedKey(goal)

(* An entry carries its expiry, whenever it was applied. *)
Cached(key) == key \in DOMAIN memory /\ memory[key].expires > clock

-----------------------------------------------------------------------------
(* cached(): pendingCache holds a promise only while the call that made it
   is being set up, so it is never found. *)

Ask(c, goal) ==
  LET offset == IF goal = "days" THEN -1 ELSE 0 IN
  /\ call[c].stage = "idle"
  /\ call' = [call EXCEPT ![c] = [goal |-> goal, stage |-> "get", key |-> KeyFor(goal, offset),
                                  offset |-> offset, got |-> <<>>, since |-> clock]]
  /\ UNCHANGED <<clock, memory, writes, answer, goals, faultsLeft, calm>>

(* The caller has a value: GtfsService goes on to the next day, of which it
   computes the key now. *)
Deliver(c, value) ==
  LET got == Append(call[c].got, [value |-> value, seen |-> clock]) IN
  IF call[c].goal = "days" /\ call[c].offset < 1
  THEN /\ call' = [call EXCEPT ![c] =
                     [goal |-> "days", stage |-> "get", key |-> KeyFor("days", @.offset + 1),
                      offset |-> @.offset + 1, got |-> got, since |-> @.since]]
       /\ UNCHANGED answer
  ELSE /\ call' = [call EXCEPT ![c] = Idle]
       /\ answer' = [answer EXCEPT ![c] = [goal |-> call[c].goal, got |-> got, at |-> clock]]

Get(c) ==
  /\ call[c].stage = "get"
  /\ IF Cached(call[c].key) THEN Deliver(c, memory[call[c].key].value)
     ELSE call' = [call EXCEPT ![c].stage = "fetch"] /\ UNCHANGED answer
  /\ UNCHANGED <<clock, memory, writes, goals, faultsLeft, calm>>

(* A mistaken set without its time to live. *)
Expiry_Never(what) == MaxTime + 1

Expiry(what) == clock + Ttl[what]

Write(key, value) ==
  [key |-> key, value |-> value, since |-> clock, expires |-> Expiry(key.what)]

(* The service areas are drawn around the stops, which may be cached. *)
ServiceAreas(fresh) ==
  IF Cached(FixedKey("stops")) THEN memory[FixedKey("stops")].value ELSE fresh

(* What CacheInterceptor caches on top of it. *)
Intercepted(value) ==
  {Write(FixedKey("areas"), value)}
    \cup IF Cached(FixedKey("stops")) THEN {} ELSE {Write(FixedKey("stops"), value)}

(* fn(): a query reads the agency's day and the tables.  The
   reading and the call of set() are one step: what a query takes counts as
   the caller's waiting before it. *)
Fetch(c) ==
  LET key == call[c].key
      fresh == [day |-> IF key.what = "days" THEN AgencyDay(clock) + call[c].offset ELSE 0,
                at |-> clock]
      value == IF key.what = "areas" THEN ServiceAreas(fresh) ELSE fresh
  IN  /\ call[c].stage = "fetch"
      /\ Deliver(c, value)
      /\ writes' = writes \cup IF key.what = "areas" THEN Intercepted(value)
                               ELSE {Write(key, value)}
      /\ UNCHANGED <<clock, memory, goals, faultsLeft, calm>>

(* fn() throws: nothing is cached and the caller fails. *)
FailFetch(c) ==
  /\ call[c].stage = "fetch"
  /\ faultsLeft > 0 /\ faultsLeft' = faultsLeft - 1
  /\ call' = [call EXCEPT ![c] = Idle]
  /\ calm' = (calm /\ call[c].goal # "days")
  /\ UNCHANGED <<clock, memory, writes, answer, goals>>

-----------------------------------------------------------------------------
(* The store. *)

Applied(w) == [k \in DOMAIN memory \cup {w.key} |->
                 IF k = w.key THEN [value |-> w.value, expires |-> w.expires] ELSE memory[k]]

(* A set takes effect, in any order. *)
Stored(w) ==
  /\ w \in writes /\ writes' = writes \ {w}
  /\ memory' = Applied(w)
  /\ UNCHANGED <<clock, call, answer, goals, faultsLeft, calm>>

(* A set is rejected; nobody waits for it. *)
LoseWrite(w) ==
  /\ w \in writes /\ writes' = writes \ {w}
  /\ faultsLeft > 0 /\ faultsLeft' = faultsLeft - 1
  /\ calm' = (calm /\ w.key.what # "days")
  /\ UNCHANGED <<clock, memory, call, answer, goals>>

Without(m, gone) == [k \in DOMAIN m \ gone |-> m[k]]

(* The store is full. *)
Evict(k) ==
  /\ k \in DOMAIN memory
  /\ faultsLeft > 0 /\ faultsLeft' = faultsLeft - 1
  /\ memory' = Without(memory, {k})
  /\ calm' = (calm /\ k.what # "days")
  /\ UNCHANGED <<clock, writes, call, answer, goals>>

Later(t) == Min({d * 24 + h : d \in DateOf(t)..(DateOf(t) + 1), h \in Hours} \ 0..t)

Tick ==
  LET next == Later(clock) IN
  /\ next <= MaxTime /\ clock' = next
  /\ \A c \in Caller : call[c].stage # "idle" => next - call[c].since <= Patience
  /\ \A w \in writes : next - w.since <= Patience
  /\ memory' = Without(memory, {k \in DOMAIN memory : memory[k].expires <= next})
  /\ calm' = (calm /\ (\A c \in Caller : call[c].goal # "days")
                   /\ (\A w \in writes : w.key.what # "days"))
  /\ UNCHANGED <<writes, call, answer, goals, faultsLeft>>

-----------------------------------------------------------------------------
Next ==
  \/ \E c \in Caller : \/ \E goal \in goals[c] : Ask(c, goal)
                       \/ Get(c) \/ Fetch(c) \/ FailFetch(c)
  \/ \E w \in writes : Stored(w) \/ LoseWrite(w)
  \/ \E k \in DOMAIN memory : Evict(k)
  \/ Tick

Spec == Init /\ [][Next]_vars

-----------------------------------------------------------------------------
(* Properties. *)

(* How old an answer may be: what is cached on top of a cache is as old as
   both allow. *)
OldestAnswer(goal) ==
  Patience + IF goal = "areas" THEN Ttl["areas"] + Ttl["stops"] ELSE Ttl[goal]

(***************************************************************************)
(* An import is seen in the end: no answer rests on rows that were read    *)
(* longer ago than the times to live of the caches it passed through and   *)
(* the duration of a call, although writes are not awaited, are applied    *)
(* out of order and may replace a newer value by an older one.             *)
(***************************************************************************)
FreshEnough ==
  \A c \in Caller : answer[c].goal # "none" =>
    \A i \in DOMAIN answer[c].got :
      answer[c].at - answer[c].got[i].value.at < OldestAnswer(answer[c].goal)

(***************************************************************************)
(* The key of a schedule has the server's date, its value the agency's     *)
(* day: still, whatever was evicted or failed, the day that is served for  *)
(* an offset is at most one day from the agency's.                         *)
(***************************************************************************)
DayOffByAtMostOne ==
  \A c \in Caller : answer[c].goal = "days" =>
    \A i \in 1..3 : LET g == answer[c].got[i] IN
      g.value.day - (AgencyDay(g.seen) + i - 2) \in -1..1

(***************************************************************************)
(* Unless an entry was evicted, lost or failed to be read, or a poll fell  *)
(* on a full hour, the three days of a poll follow each other and the      *)
(* agency's today is among them, although they are cached for half a day   *)
(* and today becomes yesterday meanwhile.                                  *)
(***************************************************************************)
TodayAmongDays ==
  calm => \A c \in Caller : answer[c].goal = "days" =>
    LET day(i) == answer[c].got[i].value.day IN
    /\ day(2) = day(1) + 1 /\ day(3) = day(1) + 2
    /\ \E i \in 1..3 : day(i) = AgencyDay(answer[c].at)
=============================================================================
