---------------------------- MODULE FeedSyncProofs ----------------------------
(***************************************************************************)
(* That a completed sync has tried every feed, for any feeds, any number   *)
(* of overlapping syncs and any number of crashes.                         *)
(*                                                                         *)
(* CompletedTriedAll only speaks of syncs that are over.  The invariant    *)
(* says of one in the loop that what it has not tried yet is still to do,  *)
(* and of one in its pre-import hook that nothing was unloaded since it    *)
(* started; the registry fills up to `next` while it is loaded.            *)
(***************************************************************************)
EXTENDS FeedSync, TLAPS

Stage == {"idle", "pre", "loop", "post", "completed", "failed", "gone"}

SyncTypes ==
  /\ config \in [Feed -> Kinds]
  /\ phase \in {"loading", "up", "dead"}
  /\ next \in Nat \ {0}
  /\ run \in [Run -> [stage : Stage, codes : SUBSET Feed, todo : SUBSET Feed]]
  /\ DOMAIN tried = Run

LoadedInv ==
  /\ phase = "loading" =>
       \A i \in DOMAIN Feeds : i < next /\ Loadable(Feeds[i]) => Feeds[i] \in providers
  /\ phase = "up" => \A feed \in Feed : Loadable(feed) => feed \in providers

Called(r, feed) == <<feed, "ok">> \in tried[r] \/ <<feed, "failed">> \in tried[r]

(* What holds of the sync r. *)
Progress(r) ==
  /\ run[r].stage = "idle" => tried[r] = {} /\ r \notin whole
  /\ run[r].stage = "pre" /\ r \in whole => phase = "up"
  /\ run[r].stage \in {"post", "completed"} => run[r].todo = {}
  /\ run[r].stage \in {"loop", "post", "completed"} /\ r \in whole =>
       \A feed \in run[r].codes :
         config[feed] = "static" => feed \in run[r].todo \/ Called(r, feed)

Warned(r) ==
  run[r].stage # "gone" =>
    \A feed \in Feed : <<feed, "failed">> \in tried[r] =>
      Event(r, "warn", feed) \in alerts \cup handled

SyncInv ==
  /\ SyncTypes
  /\ LoadedInv
  /\ \A r \in Run : Progress(r) /\ Warned(r)

-----------------------------------------------------------------------------
(* Every feed that is registered and can be synced is selected: with a      *)
(* registry that is up nothing that was asked for is left out.              *)
LEMMA SelectedAll ==
  ASSUME SyncInv, phase = "up", NEW codes \in SUBSET Feed, NEW feed \in codes,
         config[feed] = "static"
  PROVE  feed \in Selected(codes)
BY DEF SyncInv, LoadedInv, Loadable, Selected

(* The invariant holds when the process starts. *)
LEMMA SyncInit == Init => SyncInv
BY FeedsAssumption
   DEF Init, SyncInv, SyncTypes, LoadedInv, Progress, Warned, Idle, Stage, Feed

(* A sync that goes on has nothing behind it that it has not called.        *)
LEMMA ProceedStep ==
  ASSUME SyncInv,
         NEW r \in Run, NEW codes \in SUBSET Feed, NEW todo \in SUBSET Feed,
         NEW events, Proceed(r, codes, todo, events),
         run[r].stage # "gone",
         UNCHANGED registry, UNCHANGED handled,
         DOMAIN tried' = Run,
         \A s \in Run \ {r} : tried'[s] = tried[s] /\ (s \in whole' => s \in whole),
         \A feed \in Feed : <<feed, "failed">> \in tried'[r] =>
           <<feed, "failed">> \in tried[r] \/ Event(r, "warn", feed) \in events,
         r \in whole' =>
           \A feed \in codes : config[feed] = "static" => feed \in todo \/ Called(r, feed)'
  PROVE  SyncInv'
<1>1. SyncTypes'
  BY DEF SyncInv, SyncTypes, Proceed, registry, Stage
<1>2. LoadedInv'
  BY DEF SyncInv, LoadedInv, Loadable, registry
<1>3. ASSUME NEW s \in Run PROVE Progress(s)' /\ Warned(s)'
  <2>1. alerts \cup events \subseteq alerts' /\ handled' = handled /\ config' = config /\ phase' = phase
    BY DEF Proceed, Emit, registry
  <2>2. CASE s = r
    <3>1. /\ run'[r].codes = codes /\ run'[r].todo = todo
          /\ run'[r].stage \in {"loop", "post", "completed"}
          /\ run'[r].stage \in {"post", "completed"} => todo = {}
      BY DEF Proceed, SyncInv, SyncTypes
    <3>2. Progress(r)'
      BY <2>1, <3>1 DEF Progress
    <3>3. Warned(r)'
      BY <2>1, <3>1 DEF Warned, SyncInv, Event
    <3>4. QED BY <2>2, <3>2, <3>3
  <2>3. CASE s # r
    <3>1. run'[s] = run[s] /\ tried'[s] = tried[s] /\ (s \in whole' => s \in whole)
      BY <2>3 DEF Proceed, SyncInv, SyncTypes
    <3>2. Progress(s) /\ Warned(s)
      BY DEF SyncInv
    <3>3. Progress(s)'
      BY <2>1, <3>1, <3>2 DEF Progress, Called
    <3>4. Warned(s)'
      BY <2>1, <3>1, <3>2 DEF Warned, Event
    <3>5. QED BY <3>3, <3>4
  <2>4. QED BY <2>2, <2>3
<1>4. QED BY <1>1, <1>2, <1>3 DEF SyncInv

(* While the feeds are loaded, or another process comes and goes, the runs  *)
(* that are not touched stay right.                                         *)
LEMMA RunsUntouched ==
  ASSUME SyncInv, UNCHANGED <<config, run, tried, whole>>,
         alerts \cup handled \subseteq alerts' \cup handled',
         phase = "up" => phase' = "up",
         NEW r \in Run
  PROVE  Progress(r)' /\ Warned(r)'
BY DEF SyncInv, Progress, Warned, Called, Event

(* The invariant is preserved by every step. *)
LEMMA SyncStep == SyncInv /\ [Next]_vars => SyncInv'
<1> SUFFICES ASSUME SyncInv, [Next]_vars PROVE SyncInv'
  OBVIOUS
<1>1. CASE LoadFeed
  <2>1. SyncTypes' BY <1>1 DEF LoadFeed, SyncInv, SyncTypes
  <2>2. LoadedInv'
    BY <1>1, FeedsAssumption DEF LoadFeed, SyncInv, SyncTypes, LoadedInv, Loadable
  <2>3. \A r \in Run : Progress(r)' /\ Warned(r)'
    BY <1>1, RunsUntouched DEF LoadFeed
  <2>4. QED BY <2>1, <2>2, <2>3 DEF SyncInv
<1>2. CASE Listen
  <2>1. SyncTypes' BY <1>2 DEF Listen, SyncInv, SyncTypes
  <2>2. LoadedInv'
    BY <1>2, FeedsAssumption DEF Listen, SyncInv, SyncTypes, LoadedInv, Loadable, Feed, Range
  <2>3. \A r \in Run : Progress(r)' /\ Warned(r)'
    BY <1>2, RunsUntouched DEF Listen
  <2>4. QED BY <2>1, <2>2, <2>3 DEF SyncInv
<1>3. CASE Crash
  <2>1. SyncTypes' BY <1>3 DEF Crash, SyncInv, SyncTypes, Stage
  <2>2. LoadedInv' BY <1>3 DEF Crash, LoadedInv
  <2>3. ASSUME NEW r \in Run PROVE Progress(r)' /\ Warned(r)'
    <3>1. \/ run'[r] = run[r] /\ run[r].stage = "idle"
          \/ run'[r].stage = "gone"
      BY <1>3 DEF Crash, SyncInv, SyncTypes
    <3>2. Progress(r) /\ tried' = tried /\ whole' = whole
      BY <1>3 DEF Crash, SyncInv
    <3>3. QED BY <3>1, <3>2 DEF Progress, Warned
  <2>4. QED BY <2>1, <2>2, <2>3 DEF SyncInv
<1>4. CASE Restart
  <2>1. SyncTypes' BY <1>4 DEF Restart, SyncInv, SyncTypes
  <2>2. LoadedInv' BY <1>4, FeedsAssumption DEF Restart, LoadedInv
  <2>3. \A r \in Run : Progress(r)' /\ Warned(r)'
    BY <1>4, RunsUntouched DEF Restart
  <2>4. QED BY <2>1, <2>2, <2>3 DEF SyncInv
<1>5. ASSUME NEW r \in Run, NEW codes \in SUBSET Feed, SyncAllFeeds(r, codes)
      PROVE  SyncInv'
  <2>1. Progress(r) /\ run[r].stage = "idle" /\ tried' = tried /\ tried[r] = {} /\ r \notin whole
    BY <1>5 DEF SyncAllFeeds, SyncInv, Progress
  <2>2. r \in whole' => phase = "up"
    BY <1>5, <2>1 DEF SyncAllFeeds
  <2>3. CASE "pre" \in hooks
    <3>1. /\ run' = [run EXCEPT ![r].stage = "pre", ![r].codes = codes]
          /\ alerts' = alerts /\ UNCHANGED registry /\ handled' = handled
      BY <1>5, <2>3 DEF SyncAllFeeds, Emit
    <3>2. SyncTypes'
      BY <1>5, <2>1, <3>1 DEF SyncInv, SyncTypes, registry, Stage
    <3>3. LoadedInv'
      BY <3>1 DEF SyncInv, LoadedInv, Loadable, registry
    <3>4. ASSUME NEW s \in Run PROVE Progress(s)' /\ Warned(s)'
      <4>1. CASE s = r
        <5>1. run'[r].stage = "pre" /\ tried'[r] = {} /\ phase' = phase
          BY <2>1, <3>1 DEF SyncInv, SyncTypes, registry
        <5>2. QED BY <2>2, <4>1, <5>1 DEF Progress, Warned
      <4>2. CASE s # r
        <5>1. run'[s] = run[s] /\ (s \in whole' => s \in whole) /\ phase' = phase /\ config' = config
          BY <1>5, <3>1, <4>2 DEF SyncAllFeeds, SyncInv, SyncTypes, registry
        <5>2. Progress(s) /\ Warned(s)
          BY DEF SyncInv
        <5>3. QED BY <2>1, <3>1, <5>1, <5>2 DEF Progress, Warned, Called, Event
      <4>3. QED BY <4>1, <4>2
    <3>5. QED BY <3>2, <3>3, <3>4 DEF SyncInv
  <2>4. CASE "pre" \notin hooks
    <3>1. Proceed(r, codes, Selected(codes), {}) /\ UNCHANGED registry /\ UNCHANGED handled
      BY <1>5, <2>4 DEF SyncAllFeeds
    <3>2. Selected(codes) \in SUBSET Feed
      BY DEF Selected
    <3>3. r \in whole' =>
            \A feed \in codes : config[feed] = "static" => feed \in Selected(codes)
      BY <2>2, SelectedAll
    <3>4. /\ DOMAIN tried' = Run
          /\ \A s \in Run \ {r} : tried'[s] = tried[s] /\ (s \in whole' => s \in whole)
      BY <1>5, <2>1 DEF SyncAllFeeds, SyncInv, SyncTypes
    <3>5. QED BY <2>1, <3>1, <3>2, <3>3, <3>4, ProceedStep
  <2>5. QED BY <2>3, <2>4
<1>6. ASSUME NEW r \in Run, PreHook(r) PROVE SyncInv'
  <2> DEFINE codes == run[r].codes
  <2>1. codes \in SUBSET Feed
    BY DEF SyncInv, SyncTypes
  <2>2. Proceed(r, codes, Selected(codes), {}) /\ UNCHANGED <<registry, tried, whole, handled>>
    BY <1>6 DEF PreHook
  <2>3. r \in whole => phase = "up"
    BY <1>6 DEF PreHook, SyncInv, Progress
  <2>4. Selected(codes) \in SUBSET Feed
    BY <2>1 DEF Selected
  <2>5. r \in whole => \A feed \in codes : config[feed] = "static" => feed \in Selected(codes)
    BY <2>1, <2>3, SelectedAll
  <2>6. run[r].stage # "gone"
    BY <1>6 DEF PreHook
  <2>7. DOMAIN tried = Run
    BY DEF SyncInv, SyncTypes
  <2> HIDE DEF codes
  <2>8. QED BY <2>1, <2>2, <2>4, <2>5, <2>6, <2>7, ProceedStep
<1>7. ASSUME NEW r \in Run, FailHook(r) PROVE SyncInv'
  <2>1. SyncTypes' BY <1>7 DEF FailHook, SyncInv, SyncTypes, registry, Stage
  <2>2. LoadedInv' BY <1>7 DEF FailHook, SyncInv, LoadedInv, Loadable, registry
  <2>3. ASSUME NEW s \in Run PROVE Progress(s)' /\ Warned(s)'
    <3>1. /\ \/ run'[s] = run[s]
             \/ run[s].stage # "gone" /\ run'[s].stage = "failed"
          /\ tried' = tried /\ whole' = whole /\ phase' = phase /\ config' = config
          /\ alerts \subseteq alerts' /\ handled' = handled
      <4>1. /\ run' = [run EXCEPT ![r].stage = "failed", ![r].todo = {}]
            /\ run[r].stage # "gone" /\ UNCHANGED <<registry, tried, whole, handled>>
            /\ alerts \subseteq alerts'
        BY <1>7 DEF FailHook, Emit
      <4>2. \/ run'[s] = run[s]
            \/ run[s].stage # "gone" /\ run'[s].stage = "failed"
        BY <4>1 DEF SyncInv, SyncTypes
      <4>3. QED BY <4>1, <4>2 DEF registry
    <3>2. Progress(s) /\ Warned(s) BY DEF SyncInv
    <3>3. Progress(s)' BY <3>1, <3>2 DEF Progress, Called
    <3>4. Warned(s)' BY <3>1, <3>2 DEF Warned, Event
    <3>5. QED BY <3>3, <3>4
  <2>4. QED BY <2>1, <2>2, <2>3 DEF SyncInv
<1>8. ASSUME NEW r \in Run, Synced(r) PROVE SyncInv'
  <2> DEFINE codes == run[r].codes
             feed == First(run[r].todo)
             rest == run[r].todo \ {feed}
  <2>1. codes \in SUBSET Feed /\ rest \in SUBSET Feed
    BY DEF SyncInv, SyncTypes
  <2>2. /\ Proceed(r, codes, rest, {}) /\ UNCHANGED <<registry, whole, handled>>
        /\ tried' = [tried EXCEPT ![r] = @ \cup {<<feed, "ok">>}]
    BY <1>8 DEF Synced
  <2>3. /\ DOMAIN tried' = Run /\ tried'[r] = tried[r] \cup {<<feed, "ok">>}
        /\ \A s \in Run \ {r} : tried'[s] = tried[s]
    BY <2>2 DEF SyncInv, SyncTypes
  <2>4. run[r].stage = "loop" /\ Progress(r)
    BY <1>8 DEF Synced, SyncInv
  <2>5. r \in whole' =>
          \A f \in codes : config[f] = "static" => f \in rest \/ Called(r, f)'
    BY <2>2, <2>3, <2>4 DEF Progress, Called
  <2> HIDE DEF codes, feed, rest
  <2>6. \A f \in Feed : <<f, "failed">> \in tried'[r] => <<f, "failed">> \in tried[r]
    BY <2>3
  <2>7. QED BY <2>1, <2>2, <2>3, <2>4, <2>5, <2>6, ProceedStep
<1>9. ASSUME NEW r \in Run, FailSync(r) PROVE SyncInv'
  <2> DEFINE codes == run[r].codes
             feed == First(run[r].todo)
             rest == run[r].todo \ {feed}
             events == {Event(r, "warn", feed)}
  <2>1. codes \in SUBSET Feed /\ rest \in SUBSET Feed
    BY DEF SyncInv, SyncTypes
  <2>2. /\ Proceed(r, codes, rest, events) /\ UNCHANGED <<registry, whole, handled>>
        /\ tried' = [tried EXCEPT ![r] = @ \cup {<<feed, "failed">>}]
    BY <1>9 DEF FailSync
  <2>3. /\ DOMAIN tried' = Run /\ tried'[r] = tried[r] \cup {<<feed, "failed">>}
        /\ \A s \in Run \ {r} : tried'[s] = tried[s]
    BY <2>2 DEF SyncInv, SyncTypes
  <2>4. run[r].stage = "loop" /\ Progress(r)
    BY <1>9 DEF FailSync, SyncInv
  <2>5. r \in whole' =>
          \A f \in codes : config[f] = "static" => f \in rest \/ Called(r, f)'
    BY <2>2, <2>3, <2>4 DEF Progress, Called
  <2>6. \A f \in Feed : <<f, "failed">> \in tried'[r] =>
          <<f, "failed">> \in tried[r] \/ Event(r, "warn", f) \in events
    BY <2>3
  <2> HIDE DEF codes, feed, rest, events
  <2>7. QED BY <2>1, <2>2, <2>3, <2>4, <2>5, <2>6, ProceedStep
<1>10. ASSUME NEW r \in Run, PostHook(r) PROVE SyncInv'
  <2>1. SyncTypes' BY <1>10 DEF PostHook, SyncInv, SyncTypes, registry, Stage
  <2>2. LoadedInv' BY <1>10 DEF PostHook, SyncInv, LoadedInv, Loadable, registry
  <2>3. ASSUME NEW s \in Run PROVE Progress(s)' /\ Warned(s)'
    <3>1. /\ \/ run'[s] = run[s]
             \/ /\ run[s].stage = "post" /\ run'[s].stage = "completed"
                /\ run'[s].todo = run[s].todo /\ run'[s].codes = run[s].codes
          /\ tried' = tried /\ whole' = whole /\ phase' = phase /\ config' = config
          /\ alerts \subseteq alerts' /\ handled' = handled
      BY <1>10 DEF PostHook, SyncInv, SyncTypes, registry, Emit
    <3>2. Progress(s) /\ Warned(s) BY DEF SyncInv
    <3>3. Progress(s)' BY <3>1, <3>2 DEF Progress, Called
    <3>4. Warned(s)' BY <3>1, <3>2 DEF Warned, Event
    <3>5. QED BY <3>3, <3>4
  <2>4. QED BY <2>1, <2>2, <2>3 DEF SyncInv
<1>11. ASSUME NEW event \in alerts, Notify(event) PROVE SyncInv'
  <2>1. SyncTypes' BY <1>11 DEF Notify, SyncInv, SyncTypes, registry
  <2>2. LoadedInv' BY <1>11 DEF Notify, SyncInv, LoadedInv, Loadable, registry
  <2>3. \A r \in Run : Progress(r)' /\ Warned(r)'
    <3>1. /\ UNCHANGED <<config, phase, run, tried, whole>>
          /\ alerts \cup handled \subseteq alerts' \cup handled'
      BY <1>11 DEF Notify, registry
    <3>2. QED BY <3>1, RunsUntouched
  <2>4. QED BY <2>1, <2>2, <2>3 DEF SyncInv
<1>12. CASE UNCHANGED vars
  BY <1>12 DEF vars, SyncInv, SyncTypes, LoadedInv, Loadable, Progress, Warned, Called, Event
<1>13. CASE \E r \in Run : CronFires(r) \/ Command(r)
  BY <1>5, <1>13 DEF CronFires, Command
<1>14. QED
  BY <1>1, <1>2, <1>3, <1>4, <1>6, <1>7, <1>8, <1>9, <1>10, <1>11, <1>12, <1>13 DEF Next

(***************************************************************************)
(* Whatever feeds there are, however many syncs overlap and whenever the   *)
(* process crashes: a completed sync that started with all feeds loaded    *)
(* called each feed it was asked for, and warned of each that failed       *)
(* (syncAllFeeds: a feed's failure is caught inside the loop).             *)
(***************************************************************************)
THEOREM NoFeedLeftOut == Spec => []CompletedTriedAll
<1>1. SyncInv => CompletedTriedAll
  <2> SUFFICES ASSUME SyncInv, NEW r \in Run, run[r].stage = "completed"
               PROVE  /\ r \in whole =>
                           \A feed \in run[r].codes : config[feed] = "static" => Called(r, feed)
                      /\ \A feed \in Feed : <<feed, "failed">> \in tried[r] =>
                           Event(r, "warn", feed) \in alerts \cup handled
    BY DEF CompletedTriedAll, Called
  <2>1. Progress(r) /\ Warned(r)
    BY DEF SyncInv
  <2>2. QED BY <2>1 DEF Progress, Warned
<1>2. QED
  BY <1>1, SyncInit, SyncStep, PTL DEF Spec
===============================================================================
