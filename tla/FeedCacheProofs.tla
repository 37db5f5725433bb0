--------------------------- MODULE FeedCacheProofs ---------------------------
(***************************************************************************)
(* That no answer is older than the caches that it passed through allow,   *)
(* for any number of callers, any times to live and any clock; and that    *)
(* the days of a schedule are the ones asked for, or one day off.          *)
(*                                                                         *)
(* FreshEnough only speaks of what a caller was told.  The invariant says  *)
(* of every entry, stored or on its way to the store, that it expires in   *)
(* time for what it rests on, and of a call that it has not been under way *)
(* for longer than Patience; nothing depends on the order of the writes.   *)
(***************************************************************************)
EXTENDS FeedCache, WellFoundedInduction, SequenceTheorems, TLAPS

Key == [what : What, date : Int, hour : Int]
Value == [day : Int, at : Int]
Reading == [value : Value, seen : Int]
Call == [goal : What \cup {"none"}, stage : {"idle", "get", "fetch"}, key : Key \cup {NoKey},
         offset : Int, got : Seq(Reading), since : Int]
Answer == [goal : What \cup {"none"}, got : Seq(Reading), at : Int]

CacheTypes ==
  /\ clock \in Nat
  /\ call \in [Caller -> Call]
  /\ answer \in [Caller -> Answer]
  /\ goals \in [Caller -> SUBSET What]

(* For how long after it was read a value may be served. *)
Lifetime(what) == IF what = "areas" THEN Ttl["areas"] + Ttl["stops"] ELSE Ttl[what]

Entry(key, value, expires) ==
  /\ key.what \in What /\ value \in Value /\ expires \in Int
  /\ expires <= value.at + Lifetime(key.what)

StoreInv ==
  /\ \A k \in DOMAIN memory : Entry(k, memory[k].value, memory[k].expires)
  /\ \A w \in writes : Entry(w.key, w.value, w.expires)

CallInv ==
  \A c \in Caller : call[c].stage # "idle" =>
    /\ call[c].goal \in What /\ call[c].key \in Key /\ call[c].key.what = call[c].goal
    /\ call[c].since <= clock /\ clock <= call[c].since + Patience
    /\ \A i \in 1..Len(call[c].got) :
         /\ call[c].since <= call[c].got[i].seen
         /\ call[c].got[i].seen - call[c].got[i].value.at < Lifetime(call[c].goal)

AnswerInv ==
  \A c \in Caller : answer[c].goal # "none" =>
    \A i \in 1..Len(answer[c].got) :
      answer[c].at - answer[c].got[i].value.at < Patience + Lifetime(answer[c].goal)

CacheInv == CacheTypes /\ StoreInv /\ CallInv /\ AnswerInv

-----------------------------------------------------------------------------
(* The clock goes forward. *)
LEMMA LaterIsLater == ASSUME NEW t \in Nat PROVE Later(t) \in Nat /\ Later(t) > t
<1> DEFINE S == {d * 24 + h : d \in DateOf(t)..(DateOf(t) + 1), h \in Hours} \ 0..t
<1>1. DateOf(t) \in Nat /\ t < (DateOf(t) + 1) * 24
  BY DEF DateOf
<1>2. (DateOf(t) + 1) * 24 + 0 \in S /\ (DateOf(t) + 1) * 24 + 0 \in Nat
  BY <1>1, ClockAssumption
<1>3. \A n \in S : n \in Nat /\ n > t
  BY <1>1, ClockAssumption
<1> DEFINE R == OpToRel(<, Nat)
<1>4. \E m \in S : \A n \in S : ~(<<n, m>> \in R)
  <2> HIDE DEF S
  <2>1. S \subseteq Nat /\ S # {}
    BY <1>2, <1>3
  <2>2. QED BY <2>1, WFMin, NatLessThanWellFounded
<1>5. \E m \in S : \A n \in S : m <= n
  <2>1. ASSUME NEW n \in Nat, NEW m \in Nat, n < m PROVE <<n, m>> \in R
    <3>1. <<n, m>> \in Nat \X Nat /\ <<n, m>>[1] < <<n, m>>[2]
      BY <2>1
    <3>2. QED BY <3>1, Zenon DEF OpToRel
  <2> HIDE DEF S, R
  <2>2. PICK m \in S : \A n \in S : ~(<<n, m>> \in R)
    BY <1>4
  <2>3. ASSUME NEW n \in S PROVE m <= n
    <3>1. n \in Nat /\ m \in Nat /\ ~(<<n, m>> \in R)
      BY <1>3, <2>2
    <3>2. ~(n < m)
      BY <2>1, <3>1
    <3>3. QED BY <3>1, <3>2
  <2>4. QED BY <2>3
<1>6. Min(S) \in S
  <2> HIDE DEF S
  <2>1. QED BY <1>5 DEF Min
<1>7. QED BY <1>3, <1>6 DEF Later

(* A cached value that has not expired is young enough.                     *)
LEMMA CachedIsYoung ==
  ASSUME CacheInv, NEW key, Cached(key)
  PROVE  /\ key \in DOMAIN memory /\ memory[key].value \in Value
         /\ clock - memory[key].value.at < Lifetime(key.what)
BY TtlAssumption DEF CacheInv, CacheTypes, StoreInv, Entry, Cached, Value, Lifetime, What

(* Every key is one of the days, stops or service areas.                    *)
LEMMA KeyTypes ==
  ASSUME NEW goal \in What, NEW offset \in Int, CacheTypes
  PROVE  KeyFor(goal, offset) \in Key /\ KeyFor(goal, offset).what = goal
<1>1. clock \in Nat /\ HourOf(clock) \in 0..23 /\ DateOf(clock) \in Int
  BY DEF CacheTypes, HourOf, DateOf
<1>2. 12 % (HourOf(clock) + 1) \in Int
  BY <1>1
<1>3. ScheduleKey(clock, offset) \in Key /\ ScheduleKey(clock, offset).what = "days"
  BY <1>1, <1>2 DEF ScheduleKey, Key, What
<1>4. FixedKey(goal) \in Key /\ FixedKey(goal).what = goal
  BY DEF FixedKey, Key
<1>5. QED BY <1>3, <1>4 DEF KeyFor

(* A caller that is given a young enough value goes on, or has an answer    *)
(* that is young enough.                                                    *)
LEMMA DeliverStep ==
  ASSUME CacheInv, NEW c \in Caller, call[c].stage # "idle",
         NEW value \in Value, clock - value.at < Lifetime(call[c].goal),
         Deliver(c, value), clock' = clock, goals' = goals
  PROVE  CacheTypes' /\ CallInv' /\ AnswerInv'
<1> DEFINE reading == [value |-> value, seen |-> clock]
           got == Append(call[c].got, reading)
<1>1. /\ call \in [Caller -> Call] /\ answer \in [Caller -> Answer] /\ clock \in Nat
      /\ call[c].got \in Seq(Reading) /\ call[c].since \in Int /\ call[c].goal \in What
      /\ call[c].offset \in Int /\ goals \in [Caller -> SUBSET What]
  BY DEF CacheInv, CacheTypes, CallInv, Call
<1>2. reading \in Reading /\ reading.value.at = value.at /\ reading.seen = clock
  BY <1>1 DEF Reading
<1> HIDE DEF reading
<1>3. /\ got \in Seq(Reading) /\ Len(got) = Len(call[c].got) + 1
      /\ \A i \in 1..Len(call[c].got) : got[i] = call[c].got[i]
      /\ got[Len(call[c].got) + 1] = reading
  BY <1>1, <1>2, AppendProperties
<1>4. /\ call[c].since <= clock /\ clock <= call[c].since + Patience
      /\ \A i \in 1..Len(got) : /\ call[c].since <= got[i].seen
                                /\ got[i].seen - got[i].value.at < Lifetime(call[c].goal)
  <2>1. /\ call[c].since <= clock /\ clock <= call[c].since + Patience
        /\ \A i \in 1..Len(call[c].got) :
             /\ call[c].since <= call[c].got[i].seen
             /\ call[c].got[i].seen - call[c].got[i].value.at < Lifetime(call[c].goal)
    BY DEF CacheInv, CallInv
  <2> DEFINE n == Len(call[c].got)
  <2>2. n \in Nat
    BY <1>1
  <2> HIDE DEF got, n
  <2>3. ASSUME NEW i \in 1..Len(got)
        PROVE  /\ call[c].since <= got[i].seen
               /\ got[i].seen - got[i].value.at < Lifetime(call[c].goal)
    <3>1. CASE i = n + 1
      BY <1>1, <1>2, <1>3, <2>1, <3>1 DEF n
    <3>2. CASE i # n + 1
      <4>1. i \in 1..n
        BY <1>3, <2>2, <3>2 DEF n
      <4>2. QED BY <1>3, <2>1, <4>1 DEF n
    <3>3. QED BY <3>1, <3>2
  <2>4. QED BY <2>1, <2>3
<1>5. CASE call[c].goal = "days" /\ call[c].offset < 1
  <2> DEFINE key == KeyFor("days", call[c].offset + 1)
             x == [goal |-> "days", stage |-> "get", key |-> key,
                   offset |-> call[c].offset + 1, got |-> got, since |-> call[c].since]
  <2>1. key \in Key /\ key.what = "days"
    BY <1>1, KeyTypes DEF CacheInv, What
  <2>2. call' = [call EXCEPT ![c] = x] /\ answer' = answer
    BY <1>5, Zenon DEF Deliver, reading
  <2> HIDE DEF got, key
  <2>3. x \in Call /\ x.key \in Key /\ x.goal \in What
    BY <1>1, <1>3, <2>1 DEF Call, What
  <2>4. CacheTypes'
    BY <1>1, <2>2, <2>3 DEF CacheTypes
  <2>5. CallInv'
    BY <1>1, <1>4, <1>5, <2>1, <2>2, <2>3 DEF CacheInv, CacheTypes, CallInv
  <2>6. AnswerInv'
    BY <2>2 DEF CacheInv, AnswerInv
  <2>7. QED BY <2>4, <2>5, <2>6
<1>6. CASE ~(call[c].goal = "days" /\ call[c].offset < 1)
  <2> DEFINE a == [goal |-> call[c].goal, got |-> got, at |-> clock]
  <2>1. call' = [call EXCEPT ![c] = Idle] /\ answer' = [answer EXCEPT ![c] = a]
    BY <1>6, Zenon DEF Deliver, reading
  <2> HIDE DEF got
  <2>2. Idle \in Call /\ Idle.stage = "idle"
    BY DEF Idle, Call
  <2>3. a \in Answer
    BY <1>1, <1>3 DEF Answer
  <2>4. CacheTypes'
    BY <1>1, <2>1, <2>2, <2>3 DEF CacheTypes
  <2>5. CallInv'
    BY <1>1, <2>1, <2>2 DEF CacheInv, CallInv
  <2>6. AnswerInv'
    <3>1. \A i \in 1..Len(got) : clock - got[i].value.at < Patience + Lifetime(call[c].goal)
      <4>1. ASSUME NEW i \in 1..Len(got)
            PROVE  clock - got[i].value.at < Patience + Lifetime(call[c].goal)
        <5>1. got[i] \in Reading
          BY <1>3
        <5>2. got[i].seen \in Int /\ got[i].value.at \in Int
          BY <5>1 DEF Reading, Value
        <5>3. Lifetime(call[c].goal) \in Int /\ Patience \in Int
          BY <1>1, TtlAssumption, ClockAssumption DEF Lifetime, What
        <5>4. QED BY <1>1, <1>4, <5>2, <5>3
      <4>2. QED BY <4>1
    <3>2. QED BY <1>1, <2>1, <3>1 DEF CacheInv, AnswerInv
  <2>7. QED BY <2>4, <2>5, <2>6
<1>7. QED BY <1>5, <1>6

(* The invariant holds while nothing is cached and nobody asks.             *)
LEMMA CacheInit == Init => CacheInv
BY WorkloadsAssumption
   DEF Init, CacheInv, CacheTypes, StoreInv, CallInv, AnswerInv, Idle, Nothing, Call, Answer

(* What a read found may be kept for as long as it is good.                 *)
LEMMA WriteIsEntry ==
  ASSUME CacheTypes, NEW key, key.what \in What, NEW value \in Value,
         clock + Ttl[key.what] <= value.at + Lifetime(key.what)
  PROVE  LET w == Write(key, value) IN Entry(w.key, w.value, w.expires)
BY TtlAssumption DEF Write, Expiry, Entry, CacheTypes, What

(* Of service areas drawn around cached stops, too: these have not expired. *)
LEMMA FetchStep ==
  ASSUME CacheInv, NEW c \in Caller, Fetch(c) PROVE CacheInv'
<1> DEFINE key == call[c].key
           day == IF key.what = "days" THEN AgencyDay(clock) + call[c].offset ELSE 0
           fresh == [day |-> day, at |-> clock]
           value == IF key.what = "areas" THEN ServiceAreas(fresh) ELSE fresh
<1>1. /\ call[c].stage # "idle" /\ Deliver(c, value)
      /\ writes' = writes \cup IF key.what = "areas" THEN Intercepted(value)
                               ELSE {Write(key, value)}
      /\ clock' = clock /\ memory' = memory /\ goals' = goals
  BY Zenon DEF Fetch
<1>2. key \in Key /\ key.what = call[c].goal /\ key.what \in What /\ CacheTypes /\ clock \in Nat
  BY <1>1 DEF CacheInv, CallInv, CacheTypes
<1>3. fresh \in Value /\ fresh.at = clock
  BY <1>2, ClockAssumption DEF CacheTypes, Call, AgencyDay, DateOf, Value
<1>4. /\ Ttl["areas"] \in Nat \ {0} /\ Ttl["stops"] \in Nat \ {0} /\ Ttl["days"] \in Nat \ {0}
      /\ Lifetime("areas") = Ttl["areas"] + Ttl["stops"]
      /\ Lifetime("stops") = Ttl["stops"] /\ Lifetime("days") = Ttl["days"]
  BY TtlAssumption DEF What, Lifetime
<1> HIDE DEF key, fresh
<1>5. /\ value \in Value /\ value.at \in Int /\ clock - value.at < Lifetime(key.what)
      /\ clock + Ttl[key.what] <= value.at + Lifetime(key.what)
      /\ (key.what = "areas" /\ ~Cached(FixedKey("stops"))) => value = fresh
  <2>1. CASE key.what = "areas" /\ Cached(FixedKey("stops"))
    <3>1. FixedKey("stops").what = "stops"
      BY DEF FixedKey
    <3>2. /\ value = memory[FixedKey("stops")].value /\ value \in Value
          /\ clock - value.at < Ttl["stops"]
      BY <1>4, <2>1, <3>1, CachedIsYoung DEF ServiceAreas
    <3>3. value.at \in Int
      BY <3>2 DEF Value
    <3> HIDE DEF value
    <3>4. QED BY <1>2, <1>4, <2>1, <3>2, <3>3
  <2>2. CASE ~(key.what = "areas" /\ Cached(FixedKey("stops")))
    <3>1. value = fresh
      BY <2>2 DEF ServiceAreas
    <3> HIDE DEF value
    <3>2. QED BY <1>2, <1>3, <1>4, <3>1 DEF What
  <2>3. QED BY <2>1, <2>2
<1>6. \A w \in writes' : Entry(w.key, w.value, w.expires)
  <2>1. \A w \in writes : Entry(w.key, w.value, w.expires)
    BY DEF CacheInv, StoreInv
  <2> HIDE DEF value
  <2>2. CASE key.what = "areas"
    <3>1. FixedKey("areas").what = "areas" /\ FixedKey("stops").what = "stops"
      BY DEF FixedKey
    <3>2. LET w == Write(FixedKey("areas"), value) IN Entry(w.key, w.value, w.expires)
      BY <1>2, <1>5, <2>2, <3>1, WriteIsEntry
    <3>3. ~Cached(FixedKey("stops")) =>
            LET w == Write(FixedKey("stops"), value) IN Entry(w.key, w.value, w.expires)
      <4>1. SUFFICES ASSUME ~Cached(FixedKey("stops"))
                     PROVE  LET w == Write(FixedKey("stops"), value)
                            IN  Entry(w.key, w.value, w.expires)
        OBVIOUS
      <4>2. value.at = clock
        BY <1>3, <1>5, <2>2, <4>1
      <4>3. clock + Ttl["stops"] <= value.at + Lifetime("stops")
        BY <1>2, <1>4, <4>2
      <4>4. "stops" \in What
        BY DEF What
      <4>5. QED BY <1>2, <1>5, <3>1, <4>3, <4>4, WriteIsEntry
    <3>4. QED BY <1>1, <2>1, <2>2, <3>2, <3>3 DEF Intercepted
  <2>3. CASE key.what # "areas"
    <3>1. LET w == Write(key, value) IN Entry(w.key, w.value, w.expires)
      BY <1>2, <1>5, WriteIsEntry
    <3>2. QED BY <1>1, <2>1, <2>3, <3>1
  <2>4. QED BY <2>2, <2>3
<1>7. CacheTypes' /\ CallInv' /\ AnswerInv'
  <2> HIDE DEF value
  <2>1. QED BY <1>1, <1>2, <1>5, DeliverStep
<1>8. StoreInv'
  BY <1>1, <1>6 DEF CacheInv, StoreInv
<1>9. QED BY <1>7, <1>8 DEF CacheInv

(* The steps of the store leave the callers alone.                          *)
LEMMA CallersUntouched ==
  ASSUME CacheInv, UNCHANGED <<clock, call, answer, goals>>
  PROVE  CacheTypes' /\ CallInv' /\ AnswerInv'
BY DEF CacheInv, CacheTypes, CallInv, AnswerInv

(* The invariant is preserved by every step.                                *)
LEMMA CacheStep == CacheInv /\ [Next]_vars => CacheInv'
<1> SUFFICES ASSUME CacheInv, [Next]_vars PROVE CacheInv'
  OBVIOUS
<1>1. ASSUME NEW c \in Caller, NEW goal \in goals[c], Ask(c, goal) PROVE CacheInv'
  <2> DEFINE offset == IF goal = "days" THEN -1 ELSE 0
             x == [goal |-> goal, stage |-> "get", key |-> KeyFor(goal, offset),
                   offset |-> offset, got |-> <<>>, since |-> clock]
  <2>1. /\ call' = [call EXCEPT ![c] = x]
        /\ UNCHANGED <<clock, memory, writes, answer, goals>>
    BY <1>1 DEF Ask
  <2>2. goal \in What /\ clock \in Nat
    BY DEF CacheInv, CacheTypes
  <2>3. offset \in Int /\ KeyFor(goal, offset) \in Key /\ KeyFor(goal, offset).what = goal
    BY <2>2, KeyTypes DEF CacheInv
  <2> HIDE DEF offset
  <2>4. x \in Call
    BY <2>2, <2>3 DEF Call
  <2>5. CacheTypes'
    BY <2>1, <2>4 DEF CacheInv, CacheTypes
  <2>6. CallInv'
    BY <2>1, <2>2, <2>3, ClockAssumption DEF CacheInv, CacheTypes, CallInv
  <2>7. StoreInv' /\ AnswerInv'
    BY <2>1 DEF CacheInv, StoreInv, AnswerInv
  <2>8. QED BY <2>5, <2>6, <2>7 DEF CacheInv
<1>2. ASSUME NEW c \in Caller, Get(c) PROVE CacheInv'
  <2>1. call[c].stage = "get" /\ UNCHANGED <<clock, memory, writes, goals>>
    BY <1>2, Zenon DEF Get
  <2>2. StoreInv'
    BY <2>1 DEF CacheInv, StoreInv
  <2>3. call[c].key.what = call[c].goal
    BY <2>1 DEF CacheInv, CallInv
  <2>4. CASE Cached(call[c].key)
    <3>1. Deliver(c, memory[call[c].key].value)
      BY <1>2, <2>4, Zenon DEF Get
    <3>2. QED BY <2>1, <2>2, <2>3, <2>4, <3>1, CachedIsYoung, DeliverStep DEF CacheInv
  <2>5. CASE ~Cached(call[c].key)
    <3>1. call' = [call EXCEPT ![c].stage = "fetch"] /\ answer' = answer
      BY <1>2, <2>5, Zenon DEF Get
    <3>2. CacheTypes'
      BY <2>1, <3>1 DEF CacheInv, CacheTypes, Call
    <3>3. CallInv'
      <4>1. ASSUME NEW d \in Caller
            PROVE  /\ call'[d].stage # "idle" => call[d].stage # "idle"
                   /\ call'[d].goal = call[d].goal /\ call'[d].key = call[d].key
                   /\ call'[d].since = call[d].since /\ call'[d].got = call[d].got
        BY <2>1, <3>1 DEF CacheInv, CacheTypes, Call
      <4>2. QED BY <2>1, <4>1 DEF CacheInv, CallInv
    <3>4. AnswerInv'
      BY <3>1 DEF CacheInv, AnswerInv
    <3>5. QED BY <2>2, <3>2, <3>3, <3>4 DEF CacheInv
  <2>6. QED BY <2>4, <2>5
<1>3. ASSUME NEW c \in Caller, Fetch(c) PROVE CacheInv'
  BY <1>3, FetchStep
<1>4. ASSUME NEW c \in Caller, FailFetch(c) PROVE CacheInv'
  <2>1. /\ call' = [call EXCEPT ![c] = Idle] /\ Idle \in Call /\ Idle.stage = "idle"
        /\ UNCHANGED <<clock, memory, writes, answer, goals>>
    BY <1>4 DEF FailFetch, Idle, Call
  <2>2. CacheTypes'
    BY <2>1 DEF CacheInv, CacheTypes
  <2>3. CallInv'
    BY <2>1 DEF CacheInv, CacheTypes, CallInv
  <2>4. StoreInv' /\ AnswerInv'
    BY <2>1 DEF CacheInv, StoreInv, AnswerInv
  <2>5. QED BY <2>2, <2>3, <2>4 DEF CacheInv
<1>5. ASSUME NEW w \in writes, Stored(w) PROVE CacheInv'
  <2>1. /\ writes' \subseteq writes /\ memory' = Applied(w)
        /\ UNCHANGED <<clock, call, answer, goals>>
    BY <1>5 DEF Stored
  <2>2. StoreInv'
    BY <2>1 DEF CacheInv, StoreInv, Applied
  <2>3. QED BY <2>1, <2>2, CallersUntouched DEF CacheInv
<1>6. ASSUME NEW w \in writes, LoseWrite(w) PROVE CacheInv'
  <2>1. writes' \subseteq writes /\ memory' = memory /\ UNCHANGED <<clock, call, answer, goals>>
    BY <1>6 DEF LoseWrite
  <2>2. StoreInv'
    BY <2>1 DEF CacheInv, StoreInv
  <2>3. QED BY <2>1, <2>2, CallersUntouched DEF CacheInv
<1>7. ASSUME NEW k \in DOMAIN memory, Evict(k) PROVE CacheInv'
  <2>1. writes' = writes /\ memory' = Without(memory, {k}) /\ UNCHANGED <<clock, call, answer, goals>>
    BY <1>7 DEF Evict
  <2>2. StoreInv'
    BY <2>1 DEF CacheInv, StoreInv, Without
  <2>3. QED BY <2>1, <2>2, CallersUntouched DEF CacheInv
<1>8. CASE Tick
  <2>1. /\ clock' = Later(clock) /\ UNCHANGED <<writes, call, answer, goals>>
        /\ \A c \in Caller : call[c].stage # "idle" => clock' - call[c].since <= Patience
        /\ memory' = Without(memory, {k \in DOMAIN memory : memory[k].expires <= clock'})
    BY <1>8, Zenon DEF Tick
  <2>2. clock \in Nat /\ clock' \in Nat /\ clock' > clock
    BY <2>1, LaterIsLater DEF CacheInv, CacheTypes
  <2>3. CacheTypes'
    BY <2>1, <2>2 DEF CacheInv, CacheTypes
  <2>4. StoreInv'
    BY <2>1 DEF CacheInv, StoreInv, Without
  <2>5. CallInv'
    <3>1. SUFFICES ASSUME NEW c \in Caller, call[c].stage # "idle"
                   PROVE  call[c].since <= clock' /\ clock' <= call[c].since + Patience
      BY <2>1 DEF CacheInv, CallInv
    <3>2. call[c].since \in Int /\ call[c].since <= clock /\ Patience \in Nat
      BY <3>1, ClockAssumption DEF CacheInv, CacheTypes, CallInv, Call
    <3>3. QED BY <2>1, <2>2, <3>1, <3>2
  <2>6. AnswerInv'
    BY <2>1 DEF CacheInv, AnswerInv
  <2>7. QED BY <2>3, <2>4, <2>5, <2>6 DEF CacheInv
<1>9. CASE UNCHANGED vars
  BY <1>9 DEF vars, CacheInv, CacheTypes, StoreInv, CallInv, AnswerInv
<1>10. QED
  BY <1>1, <1>2, <1>3, <1>4, <1>5, <1>6, <1>7, <1>8, <1>9 DEF Next

(***************************************************************************)
(* Whatever is evicted, fails or is written late and in any order, and for *)
(* any times to live and any number of callers: no answer rests on rows    *)
(* that were read longer ago than the caches on its way allow              *)
(* (FeedCacheService.cached, whose writes nobody awaits, below             *)
(* CacheInterceptor).                                                      *)
(***************************************************************************)
THEOREM AnswersFreshEnough == Spec => []FreshEnough
<1>1. CacheInv => FreshEnough
  <2> SUFFICES ASSUME CacheInv, NEW c \in Caller, answer[c].goal # "none",
                      NEW i \in DOMAIN answer[c].got
               PROVE  answer[c].at - answer[c].got[i].value.at < OldestAnswer(answer[c].goal)
    BY DEF FreshEnough
  <2>1. answer[c].got \in Seq(Reading)
    BY DEF CacheInv, CacheTypes, Answer
  <2>2. i \in 1..Len(answer[c].got)
    BY <2>1
  <2>3. QED BY <2>2 DEF CacheInv, AnswerInv, OldestAnswer, Lifetime
<1>2. QED
  BY <1>1, CacheInit, CacheStep, PTL DEF Spec

-----------------------------------------------------------------------------
(* DayOffByAtMostOne: the day that a schedule is of lies at most one day    *)
(* after the date in its key, or at most one day before it, depending on    *)
(* which clock is ahead; the same is true of the day that a poll asks for.  *)

(* The clocks differ by less than a day, however long a call takes.         *)
ClocksWithinADay ==
  IF Shift < 0 THEN Shift >= -24 /\ Shift + Patience <= 0 ELSE Shift + Patience <= 24

Least == IF Shift < 0 THEN -1 ELSE 0

NearDate(key, value) == key.what = "days" => value.day - key.date \in Least..(Least + 1)

DaysNear(got) ==
  \A i \in 1..Len(got) : got[i].value.day - (AgencyDay(got[i].seen) + i - 2) \in -1..1

(* The key of a poll has the date at some time since the poll began.        *)
NearPoll(x, now) ==
  x.stage # "idle" /\ x.goal = "days" =>
    /\ x.offset \in -1..1 /\ Len(x.got) = x.offset + 1
    /\ \E t \in x.since..now : x.key.date = DateOf(t) + x.offset
    /\ DaysNear(x.got)

NearAnswer(a) == a.goal = "days" => Len(a.got) = 3 /\ DaysNear(a.got)

NearStore ==
  /\ \A k \in DOMAIN memory : NearDate(k, memory[k].value)
  /\ \A w \in writes : NearDate(w.key, w.value)

NearInv ==
  NearStore /\ \A c \in Caller : NearPoll(call[c], clock) /\ NearAnswer(answer[c])

(* Each clock's day, seen from the other's.                                 *)
LEMMA AgencyDayNearDate ==
  ASSUME ClocksWithinADay, NEW t \in Int, NEW u \in t..(t + Patience)
  PROVE  AgencyDay(u) - DateOf(t) \in Least..(Least + 1)
<1>1. Shift \in Int /\ Patience \in Nat
  BY ClockAssumption
<1>2. /\ AgencyDay(u) \in Int /\ DateOf(t) \in Int
      /\ 24 * AgencyDay(u) <= u + Shift /\ u + Shift < 24 * AgencyDay(u) + 24
      /\ 24 * DateOf(t) <= t /\ t < 24 * DateOf(t) + 24
  BY <1>1 DEF AgencyDay, DateOf
<1> QED
  BY <1>1, <1>2 DEF ClocksWithinADay, Least

(* What a caller has been told once it is told one day more.                *)
LEMMA OneReadingMore ==
  ASSUME CacheInv, NEW c \in Caller, NEW value \in Value
  PROVE  LET reading == [value |-> value, seen |-> clock]
             got == Append(call[c].got, reading)
             n == Len(call[c].got)
         IN  /\ reading \in Reading /\ got \in Seq(Reading)
             /\ n \in Nat /\ Len(got) = n + 1 /\ got[n + 1] = reading
             /\ \A i \in 1..n : got[i] = call[c].got[i]
<1> DEFINE reading == [value |-> value, seen |-> clock]
<1>1. call[c].got \in Seq(Reading) /\ clock \in Int
  BY DEF CacheInv, CacheTypes, Call
<1>2. reading \in Reading
  BY <1>1 DEF Reading
<1> HIDE DEF reading
<1>3. Len(call[c].got) \in Nat
  BY <1>1
<1>4. /\ Append(call[c].got, reading) \in Seq(Reading)
      /\ Len(Append(call[c].got, reading)) = Len(call[c].got) + 1
      /\ \A i \in 1..Len(call[c].got) : Append(call[c].got, reading)[i] = call[c].got[i]
      /\ Append(call[c].got, reading)[Len(call[c].got) + 1] = reading
  BY <1>1, <1>2, AppendProperties
<1> QED
  BY <1>2, <1>3, <1>4 DEF reading

(* What becomes of a call when a value is delivered.                        *)
LEMMA DeliverCases ==
  ASSUME NEW c \in Caller, NEW value, Deliver(c, value)
  PROVE  LET got == Append(call[c].got, [value |-> value, seen |-> clock])
             more == call[c].goal = "days" /\ call[c].offset < 1
         IN  /\ more => /\ call' = [call EXCEPT ![c] =
                              [goal |-> "days", stage |-> "get",
                               key |-> ScheduleKey(clock, call[c].offset + 1),
                               offset |-> call[c].offset + 1, got |-> got, since |-> call[c].since]]
                        /\ answer' = answer
             /\ ~more => /\ call' = [call EXCEPT ![c] = Idle]
                         /\ answer' = [answer EXCEPT ![c] =
                                         [goal |-> call[c].goal, got |-> got, at |-> clock]]
<1> DEFINE got == Append(call[c].got, [value |-> value, seen |-> clock])
           more == call[c].goal = "days" /\ call[c].offset < 1
<1>1. CASE more
  <2>1. /\ call' = [call EXCEPT ![c] =
                      [goal |-> "days", stage |-> "get", key |-> KeyFor("days", call[c].offset + 1),
                       offset |-> call[c].offset + 1, got |-> got, since |-> call[c].since]]
        /\ answer' = answer
    BY <1>1, Zenon DEF Deliver
  <2>2. KeyFor("days", call[c].offset + 1) = ScheduleKey(clock, call[c].offset + 1)
    BY DEF KeyFor
  <2> QED
    BY <1>1, <2>1, <2>2
<1>2. CASE ~more
  <2>1. /\ call' = [call EXCEPT ![c] = Idle]
        /\ answer' = [answer EXCEPT ![c] = [goal |-> call[c].goal, got |-> got, at |-> clock]]
    BY <1>2, Zenon DEF Deliver
  <2> QED
    BY <1>2, <2>1
<1> QED
  BY <1>1, <1>2

LEMMA NearDeliver ==
  ASSUME ClocksWithinADay, CacheInv, NearInv,
         NEW c \in Caller, call[c].stage # "idle", NEW value \in Value,
         NearDate(call[c].key, value), Deliver(c, value), clock' = clock
  PROVE  \A d \in Caller : NearPoll(call[d], clock)' /\ NearAnswer(answer[d])'
<1> DEFINE x == call[c]
           reading == [value |-> value, seen |-> clock]
           got == Append(x.got, reading)
           n == Len(x.got)
           more == x.goal = "days" /\ x.offset < 1
           next == [goal |-> "days", stage |-> "get", key |-> ScheduleKey(clock, x.offset + 1),
                    offset |-> x.offset + 1, got |-> got, since |-> x.since]
           told == [goal |-> x.goal, got |-> got, at |-> clock]
<1>1. /\ call \in [Caller -> Call] /\ answer \in [Caller -> Answer] /\ clock \in Nat
      /\ x \in Call /\ x.since <= clock /\ clock <= x.since + Patience /\ x.key.what = x.goal
  BY DEF CacheInv, CacheTypes, CallInv
<1>2. /\ more => call' = [call EXCEPT ![c] = next] /\ answer' = answer
      /\ ~more => call' = [call EXCEPT ![c] = Idle] /\ answer' = [answer EXCEPT ![c] = told]
  BY DeliverCases
<1>3. /\ reading \in Reading /\ n \in Nat /\ Len(got) = n + 1 /\ got[n + 1] = reading
      /\ \A i \in 1..n : got[i] = x.got[i]
  BY OneReadingMore
<1>4. reading.value = value /\ reading.seen = clock
  OBVIOUS
<1> HIDE DEF got, n, reading
<1>5. ASSUME x.goal = "days" PROVE x.offset \in -1..1 /\ n = x.offset + 1 /\ DaysNear(got)
  <2>1. /\ x.offset \in -1..1 /\ n = x.offset + 1 /\ DaysNear(x.got)
        /\ \E t \in x.since..clock : x.key.date = DateOf(t) + x.offset
    BY <1>5 DEF NearInv, NearPoll, n
  <2>2. PICK t \in x.since..clock : x.key.date = DateOf(t) + x.offset
    BY <2>1
  <2>3. x.since \in Int /\ Patience \in Nat /\ value.day \in Int /\ Shift \in Int
    BY <1>1, ClockAssumption DEF Call, Value
  <2>4. t \in Int /\ clock \in t..(t + Patience)
    BY <1>1, <2>2, <2>3
  <2>5. AgencyDay(clock) - DateOf(t) \in Least..(Least + 1)
    BY <2>4, AgencyDayNearDate
  <2>6. value.day - x.key.date \in Least..(Least + 1)
    BY <1>1, <1>5 DEF NearDate
  <2>7. DateOf(t) \in Int /\ AgencyDay(clock) \in Int /\ Least \in Int
    BY <1>1, <2>3, <2>4 DEF DateOf, AgencyDay, Least
  <2>8. value.day - (AgencyDay(clock) + (n + 1) - 2) \in -1..1
    <3> DEFINE v == value.day
               o == x.offset
               a == AgencyDay(clock)
               t0 == DateOf(t)
               l == Least
    <3>1. /\ v - (t0 + o) \in l..(l + 1) /\ a - t0 \in l..(l + 1) /\ n = o + 1
          /\ v \in Int /\ o \in Int /\ a \in Int /\ t0 \in Int /\ l \in Int
      BY <2>1, <2>2, <2>3, <2>5, <2>6, <2>7
    <3> HIDE DEF v, o, a, t0, l
    <3>2. v - (a + (n + 1) - 2) \in -1..1
      BY <3>1
    <3> QED
      BY <3>2 DEF v, a
  <2>9. ASSUME NEW i \in 1..Len(got)
        PROVE  got[i].value.day - (AgencyDay(got[i].seen) + i - 2) \in -1..1
    <3>1. CASE i = n + 1
      BY <1>3, <1>4, <2>8, <3>1
    <3>2. CASE i # n + 1
      <4>1. i \in 1..n
        BY <1>3, <3>2
      <4> QED
        BY <1>3, <2>1, <4>1 DEF DaysNear, n
    <3> QED
      BY <3>1, <3>2
  <2> QED
    BY <2>1, <2>9 DEF DaysNear
<1>6. CASE more
  <2>1. x.since \in Int
    BY <1>1 DEF Call
  <2>2. ScheduleKey(clock, x.offset + 1).date = DateOf(clock) + (x.offset + 1)
    BY DEF ScheduleKey
  <2>3. clock \in x.since..clock
    BY <1>1, <2>1
  <2>4. NearPoll(next, clock)
    BY <1>3, <1>5, <1>6, <2>2, <2>3 DEF NearPoll
  <2> HIDE DEF next
  <2> QED
    BY <1>1, <1>2, <1>6, <2>4 DEF NearInv
<1>7. CASE ~more
  <2>1. NearAnswer(told)
    BY <1>3, <1>5, <1>7 DEF NearAnswer
  <2>2. NearPoll(Idle, clock)
    BY DEF NearPoll, Idle
  <2> HIDE DEF told
  <2> QED
    BY <1>1, <1>2, <1>7, <2>1, <2>2 DEF NearInv
<1> QED
  BY <1>6, <1>7

(* Later, a poll is still near the date in its key.                         *)
LEMMA NearLater ==
  ASSUME NEW x \in Call, NEW t \in Int, NEW u \in Int, t <= u, NearPoll(x, t)
  PROVE  NearPoll(x, u)
BY DEF NearPoll, Call

LEMMA NearStep ==
  ASSUME ClocksWithinADay, CacheInv, NearInv, [Next]_vars PROVE NearInv'
<1>t. /\ call \in [Caller -> Call] /\ answer \in [Caller -> Answer] /\ clock \in Nat
      /\ goals \in [Caller -> SUBSET What]
  BY DEF CacheInv, CacheTypes
<1>c. ASSUME UNCHANGED <<clock, call, answer>>
      PROVE  \A c \in Caller : NearPoll(call[c], clock)' /\ NearAnswer(answer[c])'
  BY <1>c DEF NearInv
<1>1. ASSUME NEW c \in Caller, NEW goal \in goals[c], Ask(c, goal) PROVE NearInv'
  <2> DEFINE offset == IF goal = "days" THEN -1 ELSE 0
             x == [goal |-> goal, stage |-> "get", key |-> KeyFor(goal, offset),
                   offset |-> offset, got |-> <<>>, since |-> clock]
  <2>1. /\ call' = [call EXCEPT ![c] = x]
        /\ UNCHANGED <<clock, memory, writes, answer>>
    BY <1>1 DEF Ask
  <2>2. NearPoll(x, clock)
    <3>1. goal = "days" => KeyFor(goal, offset).date = DateOf(clock) + offset
      BY DEF KeyFor, ScheduleKey
    <3>2. clock \in clock..clock
      BY <1>t
    <3> QED
      BY <1>t, <3>1, <3>2 DEF NearPoll, DaysNear
  <2> HIDE DEF x
  <2> QED
    BY <1>t, <2>1, <2>2 DEF NearInv, NearStore
<1>2. ASSUME NEW c \in Caller, Get(c) PROVE NearInv'
  <2>1. call[c].stage = "get" /\ UNCHANGED <<clock, memory, writes, goals>>
    BY <1>2, Zenon DEF Get
  <2>2. NearStore'
    BY <2>1 DEF NearInv, NearStore
  <2>3. CASE Cached(call[c].key)
    <3>1. Deliver(c, memory[call[c].key].value)
      BY <1>2, <2>3, Zenon DEF Get
    <3>2. memory[call[c].key].value \in Value /\ call[c].key \in DOMAIN memory
      BY <2>3, CachedIsYoung
    <3>3. NearDate(call[c].key, memory[call[c].key].value)
      BY <3>2 DEF NearInv, NearStore
    <3> QED
      BY <2>1, <2>2, <3>1, <3>2, <3>3, NearDeliver DEF NearInv
  <2>4. CASE ~Cached(call[c].key)
    <3>1. call' = [call EXCEPT ![c].stage = "fetch"] /\ answer' = answer
      BY <1>2, <2>4, Zenon DEF Get
    <3>2. NearPoll(call'[c], clock)
      BY <1>t, <2>1, <3>1 DEF NearInv, NearPoll, Call
    <3> QED
      BY <1>t, <2>1, <2>2, <3>1, <3>2 DEF NearInv
  <2> QED
    BY <2>3, <2>4
<1>3. ASSUME NEW c \in Caller, Fetch(c) PROVE NearInv'
  <2> DEFINE key == call[c].key
             day == IF key.what = "days" THEN AgencyDay(clock) + call[c].offset ELSE 0
             fresh == [day |-> day, at |-> clock]
             value == IF key.what = "areas" THEN ServiceAreas(fresh) ELSE fresh
  <2>1. /\ call[c].stage # "idle" /\ Deliver(c, value)
        /\ writes' = writes \cup IF key.what = "areas" THEN Intercepted(value)
                                 ELSE {Write(key, value)}
        /\ clock' = clock /\ memory' = memory
    BY <1>3, Zenon DEF Fetch
  <2>2. /\ key \in Key /\ key.what = call[c].goal /\ call[c].since <= clock
        /\ clock <= call[c].since + Patience /\ call[c] \in Call
    BY <1>t, <2>1 DEF CacheInv, CallInv
  <2>3. fresh \in Value
    BY <1>t, <2>2, ClockAssumption DEF Call, AgencyDay, DateOf, Value
  <2>4. value \in Value
    <3>1. CASE key.what = "areas" /\ Cached(FixedKey("stops"))
      BY <3>1, CachedIsYoung DEF ServiceAreas
    <3>2. CASE ~(key.what = "areas" /\ Cached(FixedKey("stops")))
      BY <2>3, <3>2 DEF ServiceAreas
    <3> QED
      BY <3>1, <3>2
  <2>5. key.what = "days" => value.day - key.date \in Least..(Least + 1)
    <3>1. SUFFICES ASSUME key.what = "days" PROVE value.day - key.date \in Least..(Least + 1)
      OBVIOUS
    <3>2. PICK t \in call[c].since..clock : key.date = DateOf(t) + call[c].offset
      BY <2>1, <2>2, <3>1 DEF NearInv, NearPoll
    <3>3. /\ call[c].since \in Int /\ Patience \in Nat /\ call[c].offset \in Int
          /\ t \in Int /\ clock \in t..(t + Patience)
      BY <1>t, <2>2, <3>2, ClockAssumption DEF Call
    <3>4. AgencyDay(clock) - DateOf(t) \in Least..(Least + 1)
      BY <3>3, AgencyDayNearDate
    <3>5. value.day = AgencyDay(clock) + call[c].offset
      BY <3>1
    <3>6. AgencyDay(clock) \in Int /\ DateOf(t) \in Int /\ Least \in Int
      BY <1>t, <3>3, ClockAssumption DEF AgencyDay, DateOf, Least
    <3> HIDE DEF value, key
    <3> QED
      BY <3>2, <3>3, <3>4, <3>5, <3>6
  <2> HIDE DEF key, value
  <2>6. NearDate(key, value)
    BY <2>5 DEF NearDate
  <2>7. \A w \in writes' : NearDate(w.key, w.value)
    <3>1. \A w \in writes : NearDate(w.key, w.value)
      BY DEF NearInv, NearStore
    <3>2. \A w \in Intercepted(value) : NearDate(w.key, w.value)
      BY DEF Intercepted, Write, FixedKey, NearDate
    <3>3. Write(key, value).key = key /\ Write(key, value).value = value
      BY DEF Write
    <3> QED
      BY <2>1, <2>6, <3>1, <3>2, <3>3
  <2>8. \A d \in Caller : NearPoll(call[d], clock)' /\ NearAnswer(answer[d])'
    BY <2>1, <2>4, <2>6, NearDeliver DEF key
  <2> QED
    BY <2>1, <2>7, <2>8 DEF NearInv, NearStore
<1>4. ASSUME NEW c \in Caller, FailFetch(c) PROVE NearInv'
  <2>1. /\ call' = [call EXCEPT ![c] = Idle]
        /\ UNCHANGED <<clock, memory, writes, answer, goals>>
    BY <1>4 DEF FailFetch
  <2>2. NearPoll(Idle, clock)
    BY DEF NearPoll, Idle
  <2> QED
    BY <1>t, <2>1, <2>2 DEF NearInv, NearStore
<1>5. ASSUME NEW w \in writes, Stored(w) PROVE NearInv'
  <2>1. /\ writes' \subseteq writes /\ memory' = Applied(w) /\ UNCHANGED <<clock, call, answer>>
    BY <1>5 DEF Stored
  <2> QED
    BY <1>c, <2>1 DEF NearInv, NearStore, Applied
<1>6. ASSUME NEW w \in writes, LoseWrite(w) PROVE NearInv'
  <2>1. writes' \subseteq writes /\ memory' = memory /\ UNCHANGED <<clock, call, answer>>
    BY <1>6 DEF LoseWrite
  <2> QED
    BY <1>c, <2>1 DEF NearInv, NearStore
<1>7. ASSUME NEW k \in DOMAIN memory, Evict(k) PROVE NearInv'
  <2>1. writes' = writes /\ memory' = Without(memory, {k}) /\ UNCHANGED <<clock, call, answer>>
    BY <1>7 DEF Evict
  <2> QED
    BY <1>c, <2>1 DEF NearInv, NearStore, Without
<1>8. CASE Tick
  <2>1. /\ clock' = Later(clock) /\ UNCHANGED <<writes, call, answer>>
        /\ memory' = Without(memory, {k \in DOMAIN memory : memory[k].expires <= clock'})
    BY <1>8, Zenon DEF Tick
  <2>2. clock' \in Nat /\ clock <= clock'
    BY <1>t, <2>1, LaterIsLater
  <2>3. \A c \in Caller : NearPoll(call[c], clock')
    BY <1>t, <2>2, NearLater DEF NearInv
  <2>4. NearStore'
    BY <2>1 DEF NearInv, NearStore, Without
  <2> QED
    BY <2>1, <2>3, <2>4 DEF NearInv
<1>9. CASE UNCHANGED vars
  BY <1>9 DEF vars, NearInv, NearStore
<1> QED
  BY <1>1, <1>2, <1>3, <1>4, <1>5, <1>6, <1>7, <1>8, <1>9 DEF Next

(***************************************************************************)
(* Whatever was evicted, failed or was written late: the schedule that     *)
(* getScheduleForRouteAtStop serves for a day is at most one day from it,  *)
(* for any two clocks less than a day apart (ClocksWithinADay), although   *)
(* the key has the server's date and the value the agency's.               *)
(***************************************************************************)
THEOREM DaysOffByAtMostOne ==
  ASSUME ClocksWithinADay PROVE Spec => []DayOffByAtMostOne
<1>1. Init => NearInv
  BY DEF Init, NearInv, NearStore, NearPoll, NearAnswer, Idle, Nothing
<1>2. CacheInv /\ NearInv /\ [Next]_vars => (CacheInv /\ NearInv)'
  BY CacheStep, NearStep
<1>3. CacheInv /\ NearInv => DayOffByAtMostOne
  <2> SUFFICES ASSUME CacheInv, NearInv, NEW c \in Caller, answer[c].goal = "days", NEW i \in 1..3
               PROVE  answer[c].got[i].value.day - (AgencyDay(answer[c].got[i].seen) + i - 2) \in -1..1
    BY DEF DayOffByAtMostOne
  <2> QED
    BY DEF NearInv, NearAnswer, DaysNear
<1> QED
  BY <1>1, <1>2, <1>3, CacheInit, PTL DEF Spec

-----------------------------------------------------------------------------
(* TodayAmongDays: while nothing goes wrong (calm), the three days of a     *)
(* poll are read, written and expire together, and two polls on different   *)
(* dates that have a key in common are further apart than a half day.       *)

Offsets == -1..1

ReadFor(key, value) ==
  \E o \in Offsets : key = ScheduleKey(value.at, o) /\ value.day = AgencyDay(value.at) + o

IsDay(k) == k \in DOMAIN memory /\ k.what = "days"

ReadAt(k) == memory[k].value.at

(* A key of the polls of this hour, whose value was read in an earlier one, *)
(* or was read or written in this one.                                      *)
Old(o) == LET k == ScheduleKey(clock, o) IN IsDay(k) /\ ReadAt(k) < clock

New(o) == LET k == ScheduleKey(clock, o) IN
          \/ IsDay(k) /\ ReadAt(k) = clock
          \/ \E w \in writes : w.key = k

Polling(c) == call[c].stage # "idle" /\ call[c].goal = "days"

CalmMemory ==
  \A k \in DOMAIN memory : k.what = "days" =>
    /\ ReadFor(k, memory[k].value) /\ ReadAt(k) \in Nat /\ ReadAt(k) <= clock
    /\ memory[k].expires = ReadAt(k) + Ttl["days"] /\ clock < memory[k].expires

CalmWrites ==
  \A w \in writes : w.key.what = "days" =>
    ReadFor(w.key, w.value) /\ w.value.at = clock /\ w.expires = clock + Ttl["days"]

(* What was read in an earlier hour was read for all three days.            *)
Together ==
  \A k \in DOMAIN memory : k.what = "days" /\ ReadAt(k) < clock =>
    \A o \in Offsets : LET other == ScheduleKey(ReadAt(k), o) IN
                       IsDay(other) /\ ReadAt(other) = ReadAt(k)

(* In this hour a poll reads no day, or each.                               *)
AllOrNone ==
  (\E o \in Offsets : New(o)) \/ (\E c \in Caller : Polling(c) /\ call[c].stage = "fetch")
  => \A o \in Offsets : ~Old(o)

Complete ==
  (\E o \in Offsets : New(o)) =>
    \A o \in Offsets : New(o) \/ \E c \in Caller : Polling(c) /\ call[c].offset <= o

CalmPoll(c) ==
  LET x == call[c] IN
  Polling(c) =>
    /\ x.offset \in Offsets /\ Len(x.got) = x.offset + 1
    /\ x.key = ScheduleKey(clock, x.offset)
    /\ \A i \in 1..Len(x.got) :
         /\ x.got[i].value.day = AgencyDay(x.got[i].value.at) + i - 2
         /\ \/ Old(i - 2) /\ x.got[i].value.at = ReadAt(ScheduleKey(clock, i - 2))
            \/ New(i - 2) /\ x.got[i].value.at = clock

CalmInv ==
  calm => /\ CalmMemory /\ CalmWrites /\ Together /\ AllOrNone /\ Complete
          /\ \A c \in Caller : CalmPoll(c)

(* The day was over before a key comes up again, or the half day is.        *)
LEMMA TwelveModulo ==
  ASSUME NEW h \in 0..23
  PROVE  12 % (h + 1) \in Int /\ (h >= 12 => 12 % (h + 1) = 12) /\ (h < 12 => 12 % (h + 1) < 12)
<1>1. CASE h < 12
  <2>1. h + 1 \in 1..12
    BY <1>1
  <2>2. 12 % (h + 1) \in 0..h
    BY <2>1
  <2> QED
    BY <1>1, <2>2
<1>2. CASE h >= 12
  <2>1. h \in {12, 13, 14, 15, 16, 17, 18, 19, 20, 21, 22, 23}
    BY <1>2
  <2>2. 12 % (h + 1) = 12
    BY <2>1
  <2> QED
    BY <1>2, <2>2
<1> QED
  BY <1>1, <1>2

LEMMA SamePoll ==
  ASSUME NEW r \in Nat, NEW t \in Nat, r <= t, t < r + 13,
         NEW o \in Offsets, NEW p \in Offsets, ScheduleKey(r, o) = ScheduleKey(t, p)
  PROVE  /\ DateOf(r) = DateOf(t) /\ o = p
         /\ \A x : ScheduleKey(r, x) = ScheduleKey(t, x)
<1>1. /\ DateOf(r) + o = DateOf(t) + p
      /\ 12 % (HourOf(r) + 1) = 12 % (HourOf(t) + 1)
  BY DEF ScheduleKey
<1>2. /\ DateOf(r) \in Int /\ DateOf(t) \in Int
      /\ HourOf(r) \in 0..23 /\ HourOf(t) \in 0..23
      /\ r = 24 * DateOf(r) + HourOf(r) /\ t = 24 * DateOf(t) + HourOf(t)
  BY DEF DateOf, HourOf
<1>3. HourOf(r) >= 12 <=> HourOf(t) >= 12
  BY <1>1, <1>2, TwelveModulo
<1>4. DateOf(r) = DateOf(t)
  <2>1. ASSUME NEW a \in Int, NEW b \in Int, NEW h \in 0..23, NEW k \in 0..23,
               24 * a + h <= 24 * b + k, 24 * b + k < 24 * a + h + 13, h >= 12 <=> k >= 12
        PROVE  a = b
    BY <2>1
  <2> HIDE DEF Offsets
  <2> QED
    BY <1>2, <1>3, <2>1
<1>5. o = p
  BY <1>1, <1>2, <1>4 DEF Offsets
<1> QED
  BY <1>1, <1>4, <1>5 DEF ScheduleKey

LEMMA KeyOfOneDay ==
  ASSUME NEW t \in Nat, NEW o \in Int, NEW p \in Int, ScheduleKey(t, o) = ScheduleKey(t, p)
  PROVE  o = p
<1>1. DateOf(t) \in Int /\ DateOf(t) + o = DateOf(t) + p
  BY DEF ScheduleKey, DateOf
<1> QED
  BY <1>1

(* All that was found in an earlier hour was read in the same one.          *)
LEMMA OldTogether ==
  ASSUME CacheTypes, CalmMemory, Together, Ttl["days"] <= 13, NEW o \in Offsets, Old(o)
  PROVE  LET r == ReadAt(ScheduleKey(clock, o)) IN
         /\ r \in Nat /\ r <= clock /\ DateOf(r) = DateOf(clock)
         /\ memory[ScheduleKey(clock, o)].value.day = AgencyDay(r) + o
         /\ \A p \in Offsets : Old(p) /\ ReadAt(ScheduleKey(clock, p)) = r
<1> DEFINE k == ScheduleKey(clock, o)
           r == ReadAt(k)
<1>1. /\ k \in DOMAIN memory /\ k.what = "days" /\ r < clock
      /\ r \in Nat /\ clock \in Nat /\ ReadFor(k, memory[k].value)
      /\ clock < r + Ttl["days"] /\ Ttl["days"] \in Nat
  BY TtlAssumption DEF Old, IsDay, CalmMemory, CacheTypes, What
<1>2. PICK p \in Offsets : k = ScheduleKey(r, p) /\ memory[k].value.day = AgencyDay(r) + p
  BY <1>1 DEF ReadFor, ReadAt
<1>3. clock < r + 13 /\ r <= clock
  BY <1>1
<1>4. DateOf(r) = DateOf(clock) /\ p = o /\ \A x : ScheduleKey(r, x) = ScheduleKey(clock, x)
  BY <1>1, <1>2, <1>3, SamePoll
<1>5. \A x \in Offsets : IsDay(ScheduleKey(clock, x)) /\ ReadAt(ScheduleKey(clock, x)) = r
  BY <1>1, <1>4 DEF Together
<1> QED
  BY <1>1, <1>2, <1>3, <1>4, <1>5 DEF Old

(* The agency's day changes at most once within a day of the server.        *)
LEMMA AgencyDayWithinDate ==
  ASSUME NEW r \in Nat, NEW t \in Nat, r <= t, DateOf(r) = DateOf(t)
  PROVE  AgencyDay(r) \in Int /\ AgencyDay(t) \in {AgencyDay(r), AgencyDay(r) + 1}
BY ClockAssumption DEF AgencyDay, DateOf

-----------------------------------------------------------------------------
(* Steps that do not touch the schedules.                                   *)
SchedulesUntouched ==
  /\ clock' = clock /\ calm' = calm
  /\ \A k : k.what = "days" => /\ k \in DOMAIN memory' <=> k \in DOMAIN memory
                               /\ k \in DOMAIN memory => memory'[k] = memory[k]
  /\ \A w : w.key.what = "days" => (w \in writes' <=> w \in writes)

PollsUntouched ==
  \A c \in Caller : /\ Polling(c)' <=> Polling(c)
                    /\ Polling(c) => call'[c] = call[c]
                    /\ answer'[c].goal = "days" => answer'[c] = answer[c]

LEMMA SchedulesFrame ==
  ASSUME SchedulesUntouched, CalmMemory, CalmWrites, Together
  PROVE  /\ CalmMemory' /\ CalmWrites' /\ Together'
         /\ \A o : (Old(o)' <=> Old(o)) /\ (New(o)' <=> New(o))
         /\ \A o : Old(o) => ReadAt(ScheduleKey(clock, o))' = ReadAt(ScheduleKey(clock, o))
<1>1. \A k : k.what = "days" => (IsDay(k)' <=> IsDay(k)) /\ (IsDay(k) => ReadAt(k)' = ReadAt(k))
  BY DEF SchedulesUntouched, IsDay, ReadAt
<1>2. \A t, o : ScheduleKey(t, o).what = "days"
  BY DEF ScheduleKey
<1>3. CalmMemory'
  BY DEF CalmMemory, SchedulesUntouched, ReadAt, ReadFor
<1>4. CalmWrites'
  BY DEF CalmWrites, SchedulesUntouched, ReadFor
<1>5. Together'
  <2>1. ASSUME NEW k \in DOMAIN memory', k.what = "days", NEW r, r = ReadAt(k)', r < clock',
               NEW o \in Offsets
        PROVE  IsDay(ScheduleKey(r, o))' /\ ReadAt(ScheduleKey(r, o))' = r
    <3>1. k \in DOMAIN memory /\ ReadAt(k) = r /\ clock' = clock
      BY <1>1, <2>1 DEF SchedulesUntouched, IsDay
    <3>2. IsDay(ScheduleKey(r, o)) /\ ReadAt(ScheduleKey(r, o)) = r
      BY <2>1, <3>1 DEF Together
    <3> QED
      BY <1>1, <1>2, <3>2
  <2> QED
    BY <2>1 DEF Together, ReadAt, IsDay
<1>6. \A o : Old(o)' <=> Old(o)
  BY <1>1, <1>2 DEF Old, SchedulesUntouched
<1>7. \A o : New(o)' <=> New(o)
  BY <1>1, <1>2 DEF New, SchedulesUntouched
<1>8. \A o : Old(o) => ReadAt(ScheduleKey(clock, o))' = ReadAt(ScheduleKey(clock, o))
  BY <1>1, <1>2 DEF Old, SchedulesUntouched
<1> QED
  BY <1>3, <1>4, <1>5, <1>6, <1>7, <1>8

LEMMA CalmFrame ==
  ASSUME calm, CalmInv, TodayAmongDays, SchedulesUntouched, PollsUntouched
  PROVE  CalmInv' /\ TodayAmongDays'
<1>1. /\ CalmMemory' /\ CalmWrites' /\ Together'
      /\ \A o : (Old(o)' <=> Old(o)) /\ (New(o)' <=> New(o))
      /\ \A o : Old(o) => ReadAt(ScheduleKey(clock, o))' = ReadAt(ScheduleKey(clock, o))
  BY SchedulesFrame DEF CalmInv
<1>2. AllOrNone'
  BY <1>1 DEF CalmInv, AllOrNone, PollsUntouched
<1>3. Complete'
  BY <1>1 DEF CalmInv, Complete, PollsUntouched
<1>4. ASSUME NEW c \in Caller PROVE CalmPoll(c)'
  BY <1>1 DEF CalmInv, CalmPoll, PollsUntouched, SchedulesUntouched
<1>5. TodayAmongDays'
  BY DEF TodayAmongDays, PollsUntouched, SchedulesUntouched
<1> QED
  BY <1>1, <1>2, <1>3, <1>4, <1>5 DEF CalmInv

(* A poll is told what was read for its day.                                *)
LEMMA CalmDeliver ==
  ASSUME calm, CacheInv, CalmInv, TodayAmongDays, Ttl["days"] <= 13,
         NEW c \in Caller, Polling(c), NEW value \in Value, Deliver(c, value),
         clock' = clock, memory' = memory, calm' = calm, writes \subseteq writes',
         CalmWrites',
         (\E o \in Offsets : New(o)') => \A o \in Offsets : ~Old(o),
         value.day = AgencyDay(value.at) + call[c].offset,
         NEW q \in Offsets, q = call[c].offset,
         \/ Old(q) /\ value.at = ReadAt(ScheduleKey(clock, q))
         \/ New(q)' /\ value.at = clock
  PROVE  CalmInv' /\ TodayAmongDays'
<1> DEFINE x == call[c]
           reading == [value |-> value, seen |-> clock]
           got == Append(x.got, reading)
           n == Len(x.got)
           next == [goal |-> "days", stage |-> "get", key |-> ScheduleKey(clock, x.offset + 1),
                    offset |-> x.offset + 1, got |-> got, since |-> x.since]
           told == [goal |-> x.goal, got |-> got, at |-> clock]
<1>1. /\ call \in [Caller -> Call] /\ answer \in [Caller -> Answer] /\ clock \in Nat
      /\ CacheTypes
  BY DEF CacheInv, CacheTypes
<1>2. /\ CalmMemory /\ CalmWrites /\ Together /\ AllOrNone /\ Complete
      /\ \A d \in Caller : CalmPoll(d)
  BY DEF CalmInv
<1>3. /\ x.goal = "days" /\ x.offset \in Offsets /\ n = x.offset + 1
      /\ \A i \in 1..n :
           /\ x.got[i].value.day = AgencyDay(x.got[i].value.at) + i - 2
           /\ \/ Old(i - 2) /\ x.got[i].value.at = ReadAt(ScheduleKey(clock, i - 2))
              \/ New(i - 2) /\ x.got[i].value.at = clock
  BY <1>2 DEF CalmPoll, Polling
<1>4. /\ x.offset < 1 => call' = [call EXCEPT ![c] = next] /\ answer' = answer
      /\ ~(x.offset < 1) => call' = [call EXCEPT ![c] = Idle] /\ answer' = [answer EXCEPT ![c] = told]
  BY <1>3, DeliverCases
<1>5. /\ n \in Nat /\ Len(got) = n + 1 /\ got[n + 1] = reading
      /\ \A i \in 1..n : got[i] = x.got[i]
  BY OneReadingMore
<1>6. reading.value = value
  OBVIOUS
<1> HIDE DEF got, n, reading
<1>7. /\ \A o : Old(o)' <=> Old(o)
      /\ \A o : New(o) => New(o)'
      /\ \A k : ReadAt(k)' = ReadAt(k)
  BY DEF Old, New, IsDay, ReadAt
<1>8. \A i \in 1..(n + 1) :
        /\ got[i].value.day = AgencyDay(got[i].value.at) + i - 2
        /\ \/ Old(i - 2) /\ got[i].value.at = ReadAt(ScheduleKey(clock, i - 2))
           \/ New(i - 2)' /\ got[i].value.at = clock
  <2> SUFFICES ASSUME NEW i \in 1..(n + 1)
               PROVE  /\ got[i].value.day = AgencyDay(got[i].value.at) + i - 2
                      /\ \/ Old(i - 2) /\ got[i].value.at = ReadAt(ScheduleKey(clock, i - 2))
                         \/ New(i - 2)' /\ got[i].value.at = clock
    OBVIOUS
  <2>1. CASE i = n + 1
    <3>1. got[i].value = value /\ i - 2 = q
      BY <1>3, <1>5, <1>6, <2>1 DEF Offsets
    <3>2. AgencyDay(value.at) \in Int
      BY ClockAssumption DEF Value, AgencyDay, DateOf
    <3>3. value.day = AgencyDay(value.at) + i - 2
      BY <1>3, <1>5, <2>1, <3>1, <3>2 DEF Offsets
    <3> QED
      BY <3>1, <3>3
  <2>2. CASE i # n + 1
    <3>1. i \in 1..n /\ got[i] = x.got[i]
      BY <1>5, <2>2
    <3> QED
      BY <1>3, <1>7, <3>1
  <2> QED
    BY <2>1, <2>2
(* What is not found is there by now, up to this day.                       *)
<1>9. ASSUME \E o \in Offsets : New(o)', NEW p \in Offsets, p <= x.offset
      PROVE  New(p)'
  <2>1. p + 2 \in 1..(n + 1) /\ (p + 2) - 2 = p
    BY <1>3, <1>5, <1>9 DEF Offsets
  <2>2. ~Old(p)
    BY <1>9
  <2> QED
    BY <1>8, <2>1, <2>2
<1>10. CalmMemory' /\ CalmWrites' /\ Together'
  BY <1>2 DEF CalmMemory, Together, IsDay, ReadAt, ReadFor
<1>11. \A d \in Caller : d # c => call'[d] = call[d] /\ (Polling(d)' <=> Polling(d))
  BY <1>1, <1>4 DEF Polling
<1>12. call'[c].stage # "fetch" /\ (x.offset < 1 => Polling(c)' /\ call'[c] = next)
       /\ (~(x.offset < 1) => ~Polling(c)')
  BY <1>1, <1>4 DEF Polling, Idle
<1>13. AllOrNone'
  <2>1. (\E d \in Caller : Polling(d)' /\ call'[d].stage = "fetch")
        => \A o \in Offsets : ~Old(o)
    BY <1>2, <1>11, <1>12 DEF AllOrNone
  <2> QED
    BY <1>7, <2>1 DEF AllOrNone
<1>14. Complete'
  <2> SUFFICES ASSUME \E o \in Offsets : New(o)', NEW p \in Offsets
               PROVE  New(p)' \/ \E d \in Caller : Polling(d)' /\ call'[d].offset <= p
    BY DEF Complete
  <2>1. CASE p <= x.offset
    BY <1>9, <2>1
  <2>2. CASE ~(p <= x.offset)
    <3>1. x.offset < 1 /\ x.offset + 1 <= p
      BY <1>3, <2>2 DEF Offsets
    <3> QED
      BY <1>12, <3>1
  <2> QED
    BY <2>1, <2>2
<1>15. ASSUME NEW d \in Caller PROVE CalmPoll(d)'
  <2>1. CASE d # c
    <3>1. CalmPoll(d) /\ call'[d] = call[d] /\ (Polling(d)' <=> Polling(d))
      BY <1>2, <1>11, <2>1
    <3> QED
      BY <1>7, <3>1 DEF CalmPoll
  <2>2. CASE d = c
    <3> SUFFICES ASSUME Polling(c)' PROVE CalmPoll(c)'
      BY <2>2 DEF CalmPoll
    <3>1. x.offset < 1 /\ call'[c] = next
      BY <1>12
    <3>2. next.offset \in Offsets /\ Len(next.got) = next.offset + 1
      BY <1>3, <1>5, <3>1 DEF Offsets
    <3>3. next.key = ScheduleKey(clock, next.offset) /\ next.got = got
      OBVIOUS
    <3> HIDE DEF next
    <3> QED
      BY <1>5, <1>7, <1>8, <3>1, <3>2, <3>3 DEF CalmPoll
  <2> QED
    BY <2>1, <2>2
<1>16. TodayAmongDays'
  <2>1. CASE x.offset < 1
    BY <1>4, <2>1 DEF TodayAmongDays
  <2>2. CASE ~(x.offset < 1)
    <3>1. n = 2 /\ x.offset = 1
      BY <1>3, <2>2 DEF Offsets
    <3> DEFINE day(i) == got[i].value.day
    <3>2. \E r \in Nat : /\ r <= clock /\ DateOf(r) = DateOf(clock)
                         /\ \A i \in 1..3 : day(i) = AgencyDay(r) + i - 2
      <4>1. CASE \E o \in Offsets : Old(o)
        <5>1. PICK o \in Offsets : Old(o)
          BY <4>1
        <5> DEFINE r == ReadAt(ScheduleKey(clock, o))
        <5>2. /\ r \in Nat /\ r <= clock /\ DateOf(r) = DateOf(clock)
              /\ \A p \in Offsets : Old(p) /\ ReadAt(ScheduleKey(clock, p)) = r
          BY <1>1, <1>2, <5>1, OldTogether
        <5> HIDE DEF r
        <5>3. ASSUME NEW i \in 1..3 PROVE day(i) = AgencyDay(r) + i - 2
          <6>1. i \in 1..(n + 1) /\ i - 2 \in Offsets
            BY <3>1 DEF Offsets
          <6>2. ~New(i - 2)'
            BY <5>1, <6>1
          <6>3. got[i].value.at = r
            BY <1>8, <5>2, <6>1, <6>2
          <6> QED
            BY <1>8, <6>1, <6>3
        <5> QED
          BY <5>2, <5>3
      <4>2. CASE \A o \in Offsets : ~Old(o)
        <5>1. ASSUME NEW i \in 1..3 PROVE day(i) = AgencyDay(clock) + i - 2
          <6>1. i \in 1..(n + 1) /\ i - 2 \in Offsets
            BY <3>1 DEF Offsets
          <6> QED
            BY <1>8, <4>2, <6>1
        <5> QED
          BY <1>1, <5>1
      <4> QED
        BY <4>1, <4>2
    <3>3. PICK r \in Nat : /\ r <= clock /\ DateOf(r) = DateOf(clock)
                           /\ \A i \in 1..3 : day(i) = AgencyDay(r) + i - 2
      BY <3>2
    <3>4. AgencyDay(r) \in Int /\ AgencyDay(clock) \in {AgencyDay(r), AgencyDay(r) + 1}
      BY <1>1, <3>3, AgencyDayWithinDate
    <3>5. /\ day(1) = AgencyDay(r) - 1 /\ day(2) = AgencyDay(r) /\ day(3) = AgencyDay(r) + 1
      BY <3>3, <3>4
    <3>6. /\ day(2) = day(1) + 1 /\ day(3) = day(1) + 2
          /\ \E i \in 1..3 : day(i) = AgencyDay(clock)
      BY <3>4, <3>5
    <3>7. /\ \A d \in Caller : d # c => answer'[d] = answer[d]
          /\ answer'[c].got = got /\ answer'[c].at = clock
      BY <1>1, <1>4, <2>2
    <3> HIDE DEF day
    <3>8. ASSUME NEW d \in Caller, answer'[d].goal = "days"
          PROVE  LET today(i) == answer'[d].got[i].value.day IN
                 /\ today(2) = today(1) + 1 /\ today(3) = today(1) + 2
                 /\ \E i \in 1..3 : today(i) = AgencyDay(answer'[d].at)
      BY <3>6, <3>7, <3>8 DEF day, TodayAmongDays
    <3> QED
      BY <3>8 DEF TodayAmongDays
  <2> QED
    BY <2>1, <2>2
<1> QED
  BY <1>10, <1>13, <1>14, <1>15, <1>16 DEF CalmInv

(* A poll begins.                                                           *)
LEMMA CalmAsk ==
  ASSUME calm, CacheInv, CalmInv, TodayAmongDays, NEW c \in Caller, Ask(c, "days")
  PROVE  CalmInv' /\ TodayAmongDays'
<1> DEFINE x == [goal |-> "days", stage |-> "get", key |-> KeyFor("days", -1),
                 offset |-> -1, got |-> <<>>, since |-> clock]
<1>1. /\ call[c].stage = "idle" /\ call' = [call EXCEPT ![c] = x]
      /\ UNCHANGED <<clock, memory, writes, answer, goals, faultsLeft, calm>>
  BY DEF Ask
<1>2. call \in [Caller -> Call] /\ x.key = ScheduleKey(clock, x.offset)
  BY DEF CacheInv, CacheTypes, KeyFor
<1>3. SchedulesUntouched
  BY <1>1 DEF SchedulesUntouched
<1>4. /\ CalmMemory' /\ CalmWrites' /\ Together'
      /\ \A o : (Old(o)' <=> Old(o)) /\ (New(o)' <=> New(o))
      /\ \A o : Old(o) => ReadAt(ScheduleKey(clock, o))' = ReadAt(ScheduleKey(clock, o))
  BY <1>3, SchedulesFrame DEF CalmInv
<1>5. \A d \in Caller : d # c => call'[d] = call[d] /\ (Polling(d)' <=> Polling(d))
  BY <1>1, <1>2 DEF Polling
<1>6. ~Polling(c) /\ call'[c] = x /\ x.stage = "get"
  BY <1>1, <1>2 DEF Polling
<1>7. AllOrNone'
  BY <1>4, <1>5, <1>6 DEF CalmInv, AllOrNone
<1>8. Complete'
  BY <1>4, <1>5, <1>6 DEF CalmInv, Complete
<1>9. ASSUME NEW d \in Caller PROVE CalmPoll(d)'
  <2>1. CASE d = c
    BY <1>1, <1>2, <1>6, <2>1 DEF CalmPoll, Offsets
  <2>2. CASE d # c
    <3>1. CalmPoll(d) /\ call'[d] = call[d] /\ (Polling(d)' <=> Polling(d)) /\ clock' = clock
      BY <1>1, <1>5, <2>2 DEF CalmInv
    <3> QED
      BY <1>4, <3>1 DEF CalmPoll
  <2> QED
    BY <2>1, <2>2
<1>10. TodayAmongDays'
  BY <1>1 DEF TodayAmongDays
<1> QED
  BY <1>4, <1>7, <1>8, <1>9, <1>10 DEF CalmInv

(* A poll finds its day in the cache, or goes on to read it.                *)
LEMMA CalmGet ==
  ASSUME calm, CacheInv, CalmInv, TodayAmongDays, Ttl["days"] <= 13,
         NEW c \in Caller, Polling(c), Get(c)
  PROVE  CalmInv' /\ TodayAmongDays'
<1> DEFINE key == call[c].key
<1>1. call[c].stage = "get" /\ UNCHANGED <<clock, memory, writes, goals, calm>>
  BY Zenon DEF Get
<1>p. PICK q \in Offsets : q = call[c].offset /\ key = ScheduleKey(clock, q)
  BY DEF CalmInv, CalmPoll
<1>2. /\ call \in [Caller -> Call] /\ clock \in Nat /\ CacheTypes
      /\ CalmMemory /\ CalmWrites /\ Together /\ AllOrNone /\ Complete
      /\ key = ScheduleKey(clock, q) /\ key.what = "days"
  BY <1>p DEF CacheInv, CacheTypes, CalmInv, ScheduleKey
<1>3. CASE Cached(key)
  <2> DEFINE value == memory[key].value
  <2>1. Deliver(c, value)
    BY <1>3, Zenon DEF Get
  <2>2. value \in Value /\ key \in DOMAIN memory
    BY <1>3, CachedIsYoung
  <2>3. ReadAt(key) <= clock /\ ReadAt(key) \in Nat /\ ReadFor(key, value) /\ value.at = ReadAt(key)
    BY <1>2, <2>2 DEF CalmMemory, ReadAt
  <2>4. \A o \in Offsets : New(o)' <=> New(o)
    BY <1>1 DEF New, IsDay, ReadAt
  <2>5. (\E o \in Offsets : New(o)') => \A o \in Offsets : ~Old(o)
    BY <1>2, <2>4 DEF AllOrNone
  <2>6. CalmWrites'
    BY <1>1, <1>2 DEF CalmWrites, ReadFor
  <2> HIDE DEF key
  <2>7. CASE ReadAt(key) < clock
    <3>1. Old(q)
      BY <1>2, <2>2, <2>7 DEF Old, IsDay
    <3>2. value.day = AgencyDay(value.at) + q
      BY <1>2, <2>3, <3>1, OldTogether
    <3>3. \/ Old(q) /\ value.at = ReadAt(ScheduleKey(clock, q))
          \/ New(q)' /\ value.at = clock
      BY <1>2, <2>3, <3>1
    <3> HIDE DEF value
    <3> QED
      BY <1>1, <1>p, <2>1, <2>2, <2>5, <2>6, <3>2, <3>3, CalmDeliver
  <2>8. CASE ReadAt(key) = clock
    <3>1. PICK o \in Offsets : key = ScheduleKey(clock, o) /\ value.day = AgencyDay(clock) + o
      BY <2>3, <2>8 DEF ReadFor
    <3>2. o = q
      <4>1. ScheduleKey(clock, o) = ScheduleKey(clock, q) /\ clock \in Nat
        BY <1>2, <3>1
      <4>2. o \in Int /\ q \in Int
        BY <1>p, <3>1 DEF Offsets
      <4> QED
        BY <4>1, <4>2, KeyOfOneDay
    <3>3. New(q)'
      BY <1>2, <2>2, <2>4, <2>8 DEF New, IsDay
    <3> HIDE DEF value
    <3>4. value.day = AgencyDay(value.at) + q /\ value.at = clock
      BY <2>3, <2>8, <3>1, <3>2
    <3> QED
      BY <1>1, <1>p, <2>1, <2>2, <2>5, <2>6, <3>3, <3>4, CalmDeliver
  <2> QED
    BY <1>2, <2>3, <2>7, <2>8
<1>4. CASE ~Cached(key)
  <2>1. call' = [call EXCEPT ![c].stage = "fetch"] /\ answer' = answer
    BY <1>4, Zenon DEF Get
  <2>2. key \notin DOMAIN memory
    BY <1>2, <1>4 DEF Cached, CalmMemory
  <2>3. ~Old(q)
    BY <1>2, <2>2 DEF Old, IsDay
  <2>4. \A o \in Offsets : ~Old(o)
    BY <1>2, <2>3, OldTogether
  <2>5. SchedulesUntouched
    BY <1>1 DEF SchedulesUntouched
  <2>6. /\ CalmMemory' /\ CalmWrites' /\ Together'
        /\ \A o : (Old(o)' <=> Old(o)) /\ (New(o)' <=> New(o))
        /\ \A o : Old(o) => ReadAt(ScheduleKey(clock, o))' = ReadAt(ScheduleKey(clock, o))
    BY <1>2, <2>5, SchedulesFrame
  <2>7. \A d \in Caller : /\ Polling(d)' <=> Polling(d)
                          /\ call'[d].offset = call[d].offset /\ call'[d].got = call[d].got
                          /\ call'[d].key = call[d].key
    BY <1>1, <1>2, <2>1 DEF Polling, Call
  <2>8. AllOrNone'
    BY <2>4, <2>6 DEF AllOrNone
  <2>9. Complete'
    BY <1>2, <2>6, <2>7 DEF Complete
  <2>10. ASSUME NEW d \in Caller PROVE CalmPoll(d)'
    <3>1. CalmPoll(d)
      BY DEF CalmInv
    <3> QED
      BY <1>1, <2>6, <2>7, <3>1 DEF CalmPoll
  <2>11. TodayAmongDays'
    BY <1>1, <2>1 DEF TodayAmongDays
  <2> QED
    BY <2>6, <2>8, <2>9, <2>10, <2>11 DEF CalmInv
<1> QED
  BY <1>3, <1>4

(* A poll reads its day of the feed, and has it written.                    *)
LEMMA CalmFetch ==
  ASSUME calm, CacheInv, CalmInv, TodayAmongDays, Ttl["days"] <= 13,
         NEW c \in Caller, Polling(c), Fetch(c)
  PROVE  CalmInv' /\ TodayAmongDays'
<1> DEFINE key == call[c].key
           fresh == [day |-> AgencyDay(clock) + call[c].offset, at |-> clock]
<1>1. /\ call \in [Caller -> Call] /\ clock \in Nat /\ CacheTypes
      /\ CalmMemory /\ CalmWrites /\ AllOrNone
      /\ call[c].offset \in Offsets /\ key = ScheduleKey(clock, call[c].offset) /\ key.what = "days"
  BY DEF CacheInv, CacheTypes, CalmInv, CalmPoll, ScheduleKey
<1>2. /\ call[c].stage = "fetch" /\ Deliver(c, fresh)
      /\ writes' = writes \cup {Write(key, fresh)}
      /\ UNCHANGED <<clock, memory, goals, faultsLeft, calm>>
  BY <1>1, Zenon DEF Fetch
<1>3. PICK q \in Offsets : q = call[c].offset
  BY <1>1
<1>4. fresh \in Value /\ fresh.day = AgencyDay(fresh.at) + q /\ fresh.at = clock
  BY <1>1, <1>3, ClockAssumption DEF AgencyDay, DateOf, Value, Offsets
<1>5. \A o \in Offsets : ~Old(o)
  BY <1>1, <1>2 DEF AllOrNone
<1>6. Write(key, fresh).key = ScheduleKey(clock, q)
      /\ Write(key, fresh).value = fresh /\ Write(key, fresh).expires = clock + Ttl["days"]
  BY <1>1, <1>3 DEF Write, Expiry
<1>7. New(q)'
  BY <1>2, <1>6 DEF New
<1> HIDE DEF fresh, key
<1>8. ReadFor(ScheduleKey(clock, q), fresh)
  BY <1>4 DEF ReadFor
<1>9. CalmWrites'
  <2>1. ASSUME NEW w \in writes', w.key.what = "days"
        PROVE  ReadFor(w.key, w.value) /\ w.value.at = clock /\ w.expires = clock + Ttl["days"]
    BY <1>1, <1>2, <1>4, <1>6, <1>8, <2>1 DEF CalmWrites
  <2> QED
    BY <1>2, <2>1 DEF CalmWrites, ReadFor
<1> QED
  BY <1>2, <1>3, <1>4, <1>5, <1>7, <1>9, CalmDeliver

(* A value of this hour reaches the store, where there is none of an        *)
(* earlier one.                                                             *)
LEMMA CalmStored ==
  ASSUME calm, CacheInv, CalmInv, TodayAmongDays, Ttl["days"] <= 13,
         NEW w \in writes, w.key.what = "days", Stored(w)
  PROVE  CalmInv' /\ TodayAmongDays'
<1>1. /\ writes' = writes \ {w} /\ memory' = Applied(w)
      /\ UNCHANGED <<clock, call, answer, goals, faultsLeft, calm>>
  BY DEF Stored
<1>2. /\ CalmMemory /\ CalmWrites /\ Together /\ AllOrNone /\ Complete
      /\ \A c \in Caller : CalmPoll(c)
      /\ clock \in Nat /\ Ttl["days"] \in Nat \ {0}
  BY TtlAssumption DEF CalmInv, CacheInv, CacheTypes, What
<1>3. PICK q \in Offsets : w.key = ScheduleKey(clock, q) /\ w.value.day = AgencyDay(clock) + q
  BY <1>2 DEF CalmWrites, ReadFor
<1>4. w.value.at = clock /\ w.expires = clock + Ttl["days"] /\ ReadFor(w.key, w.value)
  BY <1>2 DEF CalmWrites
<1>5. New(q)
  BY <1>3 DEF New
<1>6. \A o \in Offsets : ~Old(o)
  BY <1>2, <1>5 DEF AllOrNone
<1>7. /\ DOMAIN memory' = DOMAIN memory \cup {w.key}
      /\ memory'[w.key].value = w.value /\ memory'[w.key].expires = w.expires
      /\ \A k \in DOMAIN memory : k # w.key => memory'[k] = memory[k]
  BY <1>1 DEF Applied
<1>8. /\ IsDay(w.key)' /\ ReadAt(w.key)' = clock
      /\ \A k : k # w.key => (IsDay(k)' <=> IsDay(k)) /\ (IsDay(k) => ReadAt(k)' = ReadAt(k))
  BY <1>4, <1>7 DEF IsDay, ReadAt
<1>9. CalmMemory'
  <2> SUFFICES ASSUME NEW k \in DOMAIN memory', k.what = "days"
               PROVE  /\ ReadFor(k, memory'[k].value) /\ ReadAt(k)' \in Nat /\ ReadAt(k)' <= clock
                      /\ memory'[k].expires = ReadAt(k)' + Ttl["days"] /\ clock < memory'[k].expires
    BY <1>1 DEF CalmMemory, ReadFor
  <2>1. CASE k = w.key
    BY <1>2, <1>4, <1>7, <1>8, <2>1
  <2>2. CASE k # w.key
    <3>1. k \in DOMAIN memory /\ memory'[k] = memory[k] /\ ReadAt(k)' = ReadAt(k)
      BY <1>7, <2>2 DEF ReadAt
    <3> QED
      BY <1>2, <3>1 DEF CalmMemory
  <2> QED
    BY <2>1, <2>2
<1>10. CalmWrites'
  BY <1>1, <1>2 DEF CalmWrites, ReadFor
<1>11. Together'
  <2>1. ASSUME NEW k \in DOMAIN memory', k.what = "days", NEW r, r = ReadAt(k)', r < clock,
               NEW o \in Offsets
        PROVE  IsDay(ScheduleKey(r, o))' /\ ReadAt(ScheduleKey(r, o))' = r
    <3>1. k # w.key
      BY <1>2, <1>8, <2>1
    <3>2. k \in DOMAIN memory /\ ReadAt(k) = r
      BY <1>7, <1>8, <2>1, <3>1 DEF IsDay
    <3>3. IsDay(ScheduleKey(r, o)) /\ ReadAt(ScheduleKey(r, o)) = r
      BY <1>2, <2>1, <3>2 DEF Together
    <3>4. ScheduleKey(r, o) # w.key
      <4> SUFFICES ASSUME ScheduleKey(r, o) = w.key PROVE FALSE
        OBVIOUS
      <4>1. Old(q)
        BY <1>3, <2>1, <3>3 DEF Old
      <4> QED
        BY <1>6, <4>1
    <3> QED
      BY <1>8, <3>3, <3>4
  <2> QED
    BY <1>1, <2>1 DEF Together, ReadAt, IsDay
<1>12. \A o \in Offsets : ~Old(o)'
  <2> SUFFICES ASSUME NEW o \in Offsets, Old(o)' PROVE FALSE
    OBVIOUS
  <2>1. IsDay(ScheduleKey(clock, o))' /\ ReadAt(ScheduleKey(clock, o))' < clock
    BY <1>1 DEF Old
  <2>2. ScheduleKey(clock, o) # w.key
    BY <1>1, <1>2, <1>8, <2>1
  <2>3. Old(o)
    BY <1>1, <1>8, <2>1, <2>2 DEF Old
  <2> QED
    BY <1>6, <2>3
<1>13. \A o \in Offsets : New(o) => New(o)'
  <2> SUFFICES ASSUME NEW o \in Offsets, New(o) PROVE New(o)'
    OBVIOUS
  <2>1. CASE ScheduleKey(clock, o) = w.key
    BY <1>1, <1>8, <2>1 DEF New
  <2>2. CASE ScheduleKey(clock, o) # w.key
    BY <1>1, <1>8, <2>2 DEF New
  <2> QED
    BY <2>1, <2>2
<1>14. AllOrNone'
  BY <1>12 DEF AllOrNone
<1>15. \A c \in Caller : (Polling(c)' <=> Polling(c)) /\ call'[c] = call[c]
  BY <1>1 DEF Polling
<1>16. Complete'
  BY <1>2, <1>5, <1>13, <1>15 DEF Complete
<1>17. ASSUME NEW c \in Caller PROVE CalmPoll(c)'
  <2> SUFFICES ASSUME Polling(c)' PROVE CalmPoll(c)'
    BY DEF CalmPoll
  <2>1. CalmPoll(c) /\ Polling(c) /\ call'[c] = call[c] /\ clock' = clock
    BY <1>1, <1>2, <1>15
  <2>2. /\ call[c].offset \in Offsets /\ Len(call[c].got) = call[c].offset + 1
        /\ call[c].key = ScheduleKey(clock, call[c].offset)
    BY <2>1 DEF CalmPoll
  <2>3. ASSUME NEW i \in 1..Len(call[c].got)
        PROVE  /\ call[c].got[i].value.day = AgencyDay(call[c].got[i].value.at) + i - 2
               /\ New(i - 2)' /\ call[c].got[i].value.at = clock
    <3>1. i - 2 \in Offsets
      BY <2>2 DEF Offsets
    <3> QED
      BY <1>6, <1>13, <2>1, <3>1 DEF CalmPoll
  <2> QED
    BY <2>1, <2>2, <2>3 DEF CalmPoll
<1>18. TodayAmongDays'
  BY <1>1 DEF TodayAmongDays
<1> QED
  BY <1>9, <1>10, <1>11, <1>14, <1>16, <1>17, <1>18 DEF CalmInv

(* An hour ends once nobody polls and nothing is on its way to the store:   *)
(* what was read in it is there for all three days.                         *)
LEMMA CalmTick ==
  ASSUME calm, calm', CacheInv, CalmInv, TodayAmongDays, Tick
  PROVE  CalmInv' /\ TodayAmongDays'
<1>1. /\ clock' = Later(clock) /\ UNCHANGED <<writes, call, answer, goals>>
      /\ memory' = Without(memory, {k \in DOMAIN memory : memory[k].expires <= clock'})
      /\ \A c \in Caller : call[c].goal # "days"
      /\ \A w \in writes : w.key.what # "days"
  BY Zenon DEF Tick
<1>2. /\ clock \in Nat /\ clock' \in Nat /\ clock < clock'
      /\ Ttl["days"] \in Nat /\ CacheTypes
  BY <1>1, LaterIsLater, TtlAssumption DEF CacheInv, CacheTypes, What
<1>3. /\ CalmMemory /\ CalmWrites /\ Together /\ AllOrNone /\ Complete
  BY DEF CalmInv
<1>4. /\ \A k : k \in DOMAIN memory' <=> k \in DOMAIN memory /\ ~(memory[k].expires <= clock')
      /\ \A k : k \in DOMAIN memory' => memory'[k] = memory[k]
  BY <1>1 DEF Without
<1>5. ASSUME NEW k \in DOMAIN memory', k.what = "days"
      PROVE  /\ k \in DOMAIN memory /\ memory'[k] = memory[k]
             /\ ReadAt(k)' = ReadAt(k) /\ ReadAt(k) \in Nat /\ ReadAt(k) <= clock
             /\ ReadFor(k, memory[k].value)
             /\ memory[k].expires = ReadAt(k) + Ttl["days"] /\ clock' < ReadAt(k) + Ttl["days"]
  <2>1. k \in DOMAIN memory /\ memory'[k] = memory[k] /\ ~(memory[k].expires <= clock')
    BY <1>4
  <2>2. /\ ReadAt(k) \in Nat /\ ReadAt(k) <= clock /\ ReadFor(k, memory[k].value)
        /\ memory[k].expires = ReadAt(k) + Ttl["days"]
    BY <1>3, <1>5, <2>1 DEF CalmMemory
  <2>3. ReadAt(k)' = ReadAt(k)
    BY <2>1 DEF ReadAt
  <2> QED
    BY <1>2, <2>1, <2>2, <2>3
<1>6. CalmMemory'
  BY <1>2, <1>5 DEF CalmMemory, ReadFor
<1>7. CalmWrites'
  BY <1>1 DEF CalmWrites
<1>8. \A o \in Offsets : New(o) => IsDay(ScheduleKey(clock, o)) /\ ReadAt(ScheduleKey(clock, o)) = clock
  <2>1. \A o \in Offsets : ScheduleKey(clock, o).what = "days"
    BY DEF ScheduleKey
  <2> QED
    BY <1>1, <2>1 DEF New
<1>9. \A c \in Caller : ~Polling(c)
  BY <1>1 DEF Polling
<1>10. ASSUME NEW k \in DOMAIN memory', k.what = "days", NEW r, r = ReadAt(k)', NEW o \in Offsets
       PROVE  IsDay(ScheduleKey(r, o))' /\ ReadAt(ScheduleKey(r, o))' = r
  <2>1. /\ k \in DOMAIN memory /\ ReadAt(k) = r /\ r \in Nat /\ r <= clock
        /\ clock' < r + Ttl["days"] /\ ReadFor(k, memory[k].value)
    BY <1>5, <1>10
  <2>2. IsDay(ScheduleKey(r, o)) /\ ReadAt(ScheduleKey(r, o)) = r
    <3>1. CASE r < clock
      BY <1>3, <1>10, <2>1, <3>1 DEF Together
    <3>2. CASE r = clock
      <4>1. PICK p \in Offsets : k = ScheduleKey(r, p)
        BY <2>1 DEF ReadFor, ReadAt
      <4>2. New(p)
        BY <1>10, <2>1, <3>2, <4>1 DEF New, IsDay
      <4>3. New(o)
        BY <1>3, <1>9, <4>1, <4>2 DEF Complete
      <4> QED
        BY <1>8, <3>2, <4>3
    <3> QED
      BY <1>2, <2>1, <3>1, <3>2
  <2> DEFINE other == ScheduleKey(r, o)
  <2>3. other \in DOMAIN memory /\ other.what = "days" /\ memory[other].value.at = r
    BY <2>2 DEF IsDay, ReadAt
  <2>4. memory[other].expires = r + Ttl["days"]
    BY <1>3, <2>3 DEF CalmMemory, ReadAt
  <2>5. other \in DOMAIN memory' /\ memory'[other] = memory[other]
    BY <1>2, <1>4, <2>1, <2>3, <2>4
  <2> QED
    BY <2>3, <2>5 DEF IsDay, ReadAt
<1>11. Together'
  BY <1>10 DEF Together, ReadAt, IsDay
(* The next hour is later than all that was read.                           *)
<1>12. \A o \in Offsets : ~New(o)'
  <2> SUFFICES ASSUME NEW o \in Offsets, New(o)' PROVE FALSE
    OBVIOUS
  <2>1. PICK k \in DOMAIN memory' : k.what = "days" /\ ReadAt(k)' = clock'
    <3>1. \/ IsDay(ScheduleKey(clock, o))' /\ ReadAt(ScheduleKey(clock, o))' = clock'
          \/ \E w \in writes' : w.key = ScheduleKey(clock, o)'
      BY DEF New
    <3>2. ScheduleKey(clock, o)'.what = "days"
      BY DEF ScheduleKey
    <3>3. IsDay(ScheduleKey(clock, o))' /\ ReadAt(ScheduleKey(clock, o))' = clock'
      BY <1>1, <3>1, <3>2
    <3> QED
      BY <3>2, <3>3 DEF IsDay, ReadAt
  <2> QED
    BY <1>2, <1>5, <2>1
<1>13. \A c \in Caller : ~Polling(c)'
  BY <1>1 DEF Polling
<1>14. AllOrNone' /\ Complete' /\ \A c \in Caller : CalmPoll(c)'
  BY <1>12, <1>13 DEF AllOrNone, Complete, CalmPoll
<1>15. TodayAmongDays'
  BY <1>1 DEF TodayAmongDays
<1> QED
  BY <1>6, <1>7, <1>11, <1>14, <1>15 DEF CalmInv

(* A value is delivered to a call that does not poll.                       *)
LEMMA OtherDelivered ==
  ASSUME CacheInv, NEW c \in Caller, call[c].goal # "days", NEW value, Deliver(c, value)
  PROVE  PollsUntouched
<1> DEFINE told == [goal |-> call[c].goal, got |-> Append(call[c].got, [value |-> value, seen |-> clock]),
                    at |-> clock]
<1>1. call' = [call EXCEPT ![c] = Idle] /\ answer' = [answer EXCEPT ![c] = told]
  BY DeliverCases
<1>2. call \in [Caller -> Call] /\ answer \in [Caller -> Answer] /\ told.goal = call[c].goal
  BY DEF CacheInv, CacheTypes
<1> HIDE DEF told
<1> QED
  BY <1>1, <1>2 DEF PollsUntouched, Polling, Idle

LEMMA CalmStep ==
  ASSUME Ttl["days"] <= 13, CacheInv, CalmInv, TodayAmongDays, [Next]_vars
  PROVE  CalmInv' /\ TodayAmongDays'
<1>t. /\ call \in [Caller -> Call] /\ answer \in [Caller -> Answer]
      /\ \A c \in Caller : call[c].stage # "idle" => call[c].key.what = call[c].goal
  BY DEF CacheInv, CacheTypes, CallInv
<1> SUFFICES ASSUME calm' PROVE CalmInv' /\ TodayAmongDays'
  BY DEF CalmInv, TodayAmongDays
<1>f. ASSUME calm, SchedulesUntouched, PollsUntouched PROVE CalmInv' /\ TodayAmongDays'
  BY <1>f, CalmFrame
<1>p. ASSUME UNCHANGED <<call, answer>> PROVE PollsUntouched
  BY <1>p DEF PollsUntouched, Polling
<1>s. ASSUME UNCHANGED <<clock, memory, writes, calm>> PROVE SchedulesUntouched
  BY <1>s DEF SchedulesUntouched
<1>1. ASSUME NEW c \in Caller, NEW goal \in goals[c], Ask(c, goal) PROVE CalmInv' /\ TodayAmongDays'
  <2>1. CASE goal = "days"
    BY <1>1, <2>1, CalmAsk DEF Ask
  <2>2. CASE goal # "days"
    <3> DEFINE x == [goal |-> goal, stage |-> "get", key |-> KeyFor(goal, 0),
                     offset |-> 0, got |-> <<>>, since |-> clock]
    <3>1. /\ call[c].stage = "idle" /\ call' = [call EXCEPT ![c] = x] /\ x.goal = goal
          /\ UNCHANGED <<clock, memory, writes, answer, calm>>
      BY <1>1, <2>2 DEF Ask
    <3> HIDE DEF x
    <3>2. PollsUntouched
      BY <1>t, <2>2, <3>1 DEF PollsUntouched, Polling
    <3> QED
      BY <1>f, <1>s, <3>1, <3>2
  <2> QED
    BY <2>1, <2>2
<1>2. ASSUME NEW c \in Caller, Get(c) PROVE CalmInv' /\ TodayAmongDays'
  <2>1. call[c].stage = "get" /\ UNCHANGED <<clock, memory, writes, calm>>
    BY <1>2, Zenon DEF Get
  <2>2. CASE call[c].goal = "days"
    BY <1>2, <2>1, <2>2, CalmGet DEF Polling
  <2>3. CASE call[c].goal # "days"
    <3>1. CASE Cached(call[c].key)
      <4>1. Deliver(c, memory[call[c].key].value)
        BY <1>2, <3>1, Zenon DEF Get
      <4> QED
        BY <1>f, <1>s, <2>1, <2>3, <4>1, OtherDelivered
    <3>2. CASE ~Cached(call[c].key)
      <4>1. call' = [call EXCEPT ![c].stage = "fetch"] /\ answer' = answer
        BY <1>2, <3>2, Zenon DEF Get
      <4>2. PollsUntouched
        BY <1>t, <2>3, <4>1 DEF PollsUntouched, Polling, Call
      <4> QED
        BY <1>f, <1>s, <2>1, <4>2
    <3> QED
      BY <3>1, <3>2
  <2> QED
    BY <2>2, <2>3
<1>3. ASSUME NEW c \in Caller, Fetch(c) PROVE CalmInv' /\ TodayAmongDays'
  <2> DEFINE key == call[c].key
             fresh == [day |-> IF key.what = "days" THEN AgencyDay(clock) + call[c].offset ELSE 0,
                       at |-> clock]
             value == IF key.what = "areas" THEN ServiceAreas(fresh) ELSE fresh
  <2>1. /\ call[c].stage = "fetch" /\ Deliver(c, value)
        /\ writes' = writes \cup IF key.what = "areas" THEN Intercepted(value)
                                 ELSE {Write(key, value)}
        /\ UNCHANGED <<clock, memory, calm>>
    BY <1>3, Zenon DEF Fetch
  <2>2. CASE call[c].goal = "days"
    BY <1>3, <2>1, <2>2, CalmFetch DEF Polling
  <2>3. CASE call[c].goal # "days"
    <3>1. key.what # "days"
      BY <1>t, <2>1, <2>3
    <3> HIDE DEF value, key
    <3>2. \A w \in writes' : w \notin writes => w.key.what # "days"
      <4>1. \A w \in Intercepted(value) : w.key.what # "days"
        BY DEF Intercepted, Write, FixedKey
      <4>2. Write(key, value).key = key
        BY DEF Write
      <4> QED
        BY <2>1, <3>1, <4>1, <4>2
    <3>3. SchedulesUntouched
      BY <2>1, <3>2 DEF SchedulesUntouched
    <3> QED
      BY <1>f, <2>1, <2>3, <3>3, OtherDelivered
  <2> QED
    BY <2>2, <2>3
<1>4. ASSUME NEW c \in Caller, FailFetch(c) PROVE CalmInv' /\ TodayAmongDays'
  <2>1. /\ call' = [call EXCEPT ![c] = Idle] /\ calm /\ calm' = calm /\ call[c].goal # "days"
        /\ UNCHANGED <<clock, memory, writes, answer>>
    BY <1>4 DEF FailFetch
  <2>2. PollsUntouched
    BY <1>t, <2>1 DEF PollsUntouched, Polling, Idle
  <2> QED
    BY <1>f, <1>s, <2>1, <2>2
<1>5. ASSUME NEW w \in writes, Stored(w) PROVE CalmInv' /\ TodayAmongDays'
  <2>1. /\ writes' = writes \ {w} /\ memory' = Applied(w)
        /\ UNCHANGED <<clock, call, answer, calm>>
    BY <1>5 DEF Stored
  <2>2. CASE w.key.what = "days"
    BY <1>5, <2>1, <2>2, CalmStored
  <2>3. CASE w.key.what # "days"
    <3>1. SchedulesUntouched
      BY <2>1, <2>3 DEF SchedulesUntouched, Applied
    <3> QED
      BY <1>f, <1>p, <2>1, <3>1
  <2> QED
    BY <2>2, <2>3
<1>6. ASSUME NEW w \in writes, LoseWrite(w) PROVE CalmInv' /\ TodayAmongDays'
  <2>1. /\ writes' = writes \ {w} /\ w.key.what # "days" /\ calm /\ calm' = calm
        /\ UNCHANGED <<clock, memory, call, answer>>
    BY <1>6 DEF LoseWrite
  <2>2. SchedulesUntouched
    BY <2>1 DEF SchedulesUntouched
  <2> QED
    BY <1>f, <1>p, <2>1, <2>2
<1>7. ASSUME NEW k \in DOMAIN memory, Evict(k) PROVE CalmInv' /\ TodayAmongDays'
  <2>1. /\ memory' = Without(memory, {k}) /\ k.what # "days" /\ calm /\ calm' = calm
        /\ UNCHANGED <<clock, writes, call, answer>>
    BY <1>7 DEF Evict
  <2>2. SchedulesUntouched
    BY <2>1 DEF SchedulesUntouched, Without
  <2> QED
    BY <1>f, <1>p, <2>1, <2>2
<1>8. CASE Tick
  <2>1. calm
    BY <1>8 DEF Tick
  <2> QED
    BY <1>8, <2>1, CalmTick
<1>9. CASE UNCHANGED vars
  BY <1>f, <1>p, <1>s, <1>9 DEF vars
<1> QED
  BY <1>1, <1>2, <1>3, <1>4, <1>5, <1>6, <1>7, <1>8, <1>9 DEF Next

(***************************************************************************)
(* As long as schedules are kept for half a day (or an hour longer), and   *)
(* nothing is evicted or fails, the three days that getScheduleForRouteAt- *)
(* Stop reads follow each other and the agency's today is among them, for  *)
(* every two clocks, any number of callers and whoever wrote the entries.  *)
(***************************************************************************)
THEOREM TodayIsAmongDays ==
  ASSUME Ttl["days"] <= 13 PROVE Spec => []TodayAmongDays
<1>1. Init => CalmInv /\ TodayAmongDays
  <2> SUFFICES ASSUME Init PROVE CalmInv /\ TodayAmongDays
    OBVIOUS
  <2>1. /\ DOMAIN memory = {} /\ writes = {} /\ \A c \in Caller : ~Polling(c)
        /\ \A c \in Caller : answer[c].goal # "days"
    BY DEF Init, Polling, Idle, Nothing
  <2> QED
    BY <2>1 DEF CalmInv, CalmMemory, CalmWrites, Together, AllOrNone, Complete, CalmPoll,
                New, IsDay, TodayAmongDays
<1>2. CacheInv /\ CalmInv /\ TodayAmongDays /\ [Next]_vars => (CacheInv /\ CalmInv /\ TodayAmongDays)'
  BY CacheStep, CalmStep
<1> QED
  BY <1>1, <1>2, CacheInit, PTL DEF Spec
===============================================================================
