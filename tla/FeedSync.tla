------------------------------- MODULE FeedSync -------------------------------
(***************************************************************************)
(* FeedService, which loads the feeds of feeds.yaml when the process       *)
(* starts, and FeedSyncService, whose cron job starts with it and which    *)
(* the sync command calls too; what SystemAlertListener makes of the       *)
(* events of a sync.                                                       *)
(*                                                                         *)
(* Of a feed's configuration only its kind is kept: "schema" does not      *)
(* match FeedConfigSchema, "config" is refused by its provider's           *)
(* validateConfig, "broken" cannot be instantiated, "unknown" names no     *)
(* provider, a "live" provider has no sync(), a "static" one has.  How a   *)
(* feed is imported is GtfsSync's matter: here it succeeds or throws.      *)
(***************************************************************************)
EXTENDS Integers, Sequences, FiniteSets, Functions

CONSTANTS
  Feeds,       \* the feed codes, in the order of feeds.yaml
  Kinds,       \* the kinds of configuration that occur
  Run,         \* the syncs that may start, once each
  HookSets,    \* which of the hooks "pre" and "post" may be set
  MaxCrashes,  \* bound
  None

Feed == Range(Feeds)

ASSUME FeedsAssumption == Feeds \in Seq(Feed)
ASSUME KindsAssumption ==
  Kinds \subseteq {"schema", "config", "broken", "unknown", "live", "static"}
ASSUME HooksAssumption == HookSets \subseteq SUBSET {"pre", "post"}
ASSUME CrashesAssumption == MaxCrashes \in Nat

VARIABLES
  config,      \* the kind of each feed's configuration
  hooks,       \* the hooks that are set
  phase,       \* "loading", "up" or "dead"
  next,        \* the index of the feed that is loaded next
  providers,   \* feedProviders, whose order is the one of Feeds
  run,         \* [stage, codes, todo] of each sync
  tried,       \* history: the feeds that each sync has called, with the outcome
  whole,       \* history: the syncs that started when all feeds were loaded
  alerts,      \* events whose handler has not run: [run, kind, feed]
  handled,     \* history: events that were handed to apprise, heard or not
  crashesLeft

vars == <<config, hooks, phase, next, providers, run, tried, whole, alerts, handled, crashesLeft>>
registry == <<config, hooks, phase, next, providers>>

Idle == [stage |-> "idle", codes |-> {}, todo |-> {}]

Init ==
  /\ config \in [Feed -> Kinds] /\ hooks \in HookSets
  /\ phase = "loading" /\ next = 1 /\ providers = {}
  /\ run = [r \in Run |-> Idle]
  /\ tried = [r \in Run |-> {}] /\ whole = {}
  /\ alerts = {} /\ handled = {}
  /\ crashesLeft = MaxCrashes

-----------------------------------------------------------------------------
(* onModuleInit. *)

Loadable(feed) == config[feed] \in {"live", "static"}

(* A mistaken loop that ends at the first feed it cannot load. *)
LoadFeed_Return ==
  /\ phase = "loading" /\ next <= Len(Feeds)
  /\ IF Loadable(Feeds[next])
     THEN providers' = providers \cup {Feeds[next]} /\ next' = next + 1
     ELSE next' = Len(Feeds) + 1 /\ UNCHANGED providers
  /\ UNCHANGED <<config, hooks, phase, run, tried, whole, alerts, handled, crashesLeft>>

(* The next feed is instantiated, or logged and left out. *)
LoadFeed ==
  /\ phase = "loading" /\ next <= Len(Feeds)
  /\ next' = next + 1
  /\ providers' = IF Loadable(Feeds[next]) THEN providers \cup {Feeds[next]} ELSE providers
  /\ UNCHANGED <<config, hooks, phase, run, tried, whole, alerts, handled, crashesLeft>>

Listen ==
  /\ phase = "loading" /\ next > Len(Feeds)
  /\ phase' = "up"
  /\ UNCHANGED <<config, hooks, next, providers, run, tried, whole, alerts, handled, crashesLeft>>

-----------------------------------------------------------------------------
(* syncAllFeeds, between its awaits. *)

Event(r, kind, feed) == [run |-> r, kind |-> kind, feed |-> feed]

Emit(events) == alerts' = alerts \cup events

(* The providers as they are now that have sync() and are asked for. *)
Selected(codes) == {feed \in providers : config[feed] = "static" /\ feed \in codes}

(* The loop goes through them in the order of feeds.yaml. *)
First(todo) ==
  Feeds[CHOOSE i \in DOMAIN Feeds :
          Feeds[i] \in todo /\ \A j \in DOMAIN Feeds : Feeds[j] \in todo => i <= j]

(* Into the loop, or past it, as far as the next await; `events` happened
   before. *)
Proceed(r, codes, todo, events) ==
  LET stage == IF todo # {} THEN "loop" ELSE IF "post" \in hooks THEN "post" ELSE "completed"
  IN  /\ run' = [run EXCEPT ![r] = [stage |-> stage, codes |-> codes, todo |-> todo]]
      /\ Emit(events \cup IF stage = "completed" THEN {Event(r, "completed", None)} ELSE {})

SyncAllFeeds(r, codes) ==
  /\ run[r].stage = "idle"
  /\ IF "pre" \in hooks
     THEN run' = [run EXCEPT ![r].stage = "pre", ![r].codes = codes] /\ Emit({})
     ELSE Proceed(r, codes, Selected(codes), {})
  /\ whole' = IF phase = "up" THEN whole \cup {r} ELSE whole
  /\ UNCHANGED <<registry, tried, handled, crashesLeft>>

(* The job is started by onModuleInit too, before the feeds are loaded, and
   does not wait for the last sync to be over. *)
CronFires(r) == phase \in {"loading", "up"} /\ SyncAllFeeds(r, Feed)

(* The sync command, with --feed or without. *)
Command(r) == phase = "up" /\ \E codes \in SUBSET Feed : SyncAllFeeds(r, codes)

PreHook(r) ==
  /\ run[r].stage = "pre"
  /\ Proceed(r, run[r].codes, Selected(run[r].codes), {})
  /\ UNCHANGED <<registry, tried, whole, handled, crashesLeft>>

FailHook(r) ==
  /\ run[r].stage \in {"pre", "post"} \cap hooks
  /\ run' = [run EXCEPT ![r].stage = "failed", ![r].todo = {}]
  /\ Emit({Event(r, "error", None)})
  /\ UNCHANGED <<registry, tried, whole, handled, crashesLeft>>

Synced(r) ==
  /\ run[r].stage = "loop"
  /\ tried' = [tried EXCEPT ![r] = @ \cup {<<First(run[r].todo), "ok">>}]
  /\ Proceed(r, run[r].codes, run[r].todo \ {First(run[r].todo)}, {})
  /\ UNCHANGED <<registry, whole, handled, crashesLeft>>

(* A mistaken loop that does not catch. *)
FailSync_Uncaught(r) ==
  /\ run[r].stage = "loop"
  /\ tried' = [tried EXCEPT ![r] = @ \cup {<<First(run[r].todo), "failed">>}]
  /\ run' = [run EXCEPT ![r].stage = "rejected", ![r].todo = {}]
  /\ UNCHANGED <<registry, whole, alerts, handled, crashesLeft>>

(* provider.sync() throws: a warning, and on to the next feed. *)
FailSync(r) ==
  LET feed == First(run[r].todo) IN
  /\ run[r].stage = "loop"
  /\ tried' = [tried EXCEPT ![r] = @ \cup {<<feed, "failed">>}]
  /\ Proceed(r, run[r].codes, run[r].todo \ {feed}, {Event(r, "warn", feed)})
  /\ UNCHANGED <<registry, whole, handled, crashesLeft>>

PostHook(r) ==
  /\ run[r].stage = "post"
  /\ run' = [run EXCEPT ![r].stage = "completed"]
  /\ Emit({Event(r, "completed", None)})
  /\ UNCHANGED <<registry, tried, whole, handled, crashesLeft>>

-----------------------------------------------------------------------------
(* Listeners and the process. *)

(* The handlers are asynchronous: apprise gets the events in any order, and
   whether it delivers them changes nothing. *)
Notify(event) ==
  /\ event \in alerts /\ alerts' = alerts \ {event}
  /\ handled' = handled \cup {event}
  /\ UNCHANGED <<registry, run, tried, whole, crashesLeft>>

(* The process is killed, or feeds.yaml cannot be read when it starts. *)
Crash ==
  /\ phase # "dead"
  /\ crashesLeft > 0 /\ crashesLeft' = crashesLeft - 1
  /\ phase' = "dead"
  /\ providers' = {} /\ alerts' = {}
  /\ run' = [r \in Run |-> IF run[r].stage = "idle" THEN run[r]
                           ELSE [run[r] EXCEPT !.stage = "gone", !.todo = {}]]
  /\ UNCHANGED <<config, hooks, next, tried, whole, handled>>

Restart ==
  /\ phase = "dead" /\ phase' = "loading" /\ next' = 1
  /\ UNCHANGED <<config, hooks, providers, run, tried, whole, alerts, handled, crashesLeft>>

-----------------------------------------------------------------------------
Next ==
  \/ LoadFeed \/ Listen \/ Crash \/ Restart
  \/ \E r \in Run : \/ CronFires(r) \/ Command(r) \/ PreHook(r) \/ FailHook(r)
                    \/ Synced(r) \/ FailSync(r) \/ PostHook(r)
  \/ \E event \in alerts : Notify(event)

(* The event loop goes on, imports and hooks end, and the process is started
   again; nobody has to start a sync. *)
Fairness ==
  /\ WF_vars(LoadFeed) /\ WF_vars(Listen) /\ WF_vars(Restart)
  /\ \A r \in Run : /\ WF_vars(PreHook(r) \/ (run[r].stage = "pre" /\ FailHook(r)))
                    /\ WF_vars(Synced(r) \/ FailSync(r))
                    /\ WF_vars(PostHook(r) \/ (run[r].stage = "post" /\ FailHook(r)))
  /\ WF_vars(\E event \in alerts : Notify(event))

Spec == Init /\ [][Next]_vars /\ Fairness

-----------------------------------------------------------------------------
(* Properties. *)

(***************************************************************************)
(* A sync that started when the process was up and that completes has      *)
(* called every feed with a sync() that it was asked for, whatever feeds   *)
(* before it could not be loaded or imported and although another sync was *)
(* under way, and there is a warning for each one that failed.             *)
(***************************************************************************)
CompletedTriedAll ==
  \A r \in Run : run[r].stage = "completed" =>
    /\ r \in whole =>
         \A feed \in run[r].codes : config[feed] = "static" =>
           \E outcome \in {"ok", "failed"} : <<feed, outcome>> \in tried[r]
    /\ \A feed \in Feed : <<feed, "failed">> \in tried[r] =>
         Event(r, "warn", feed) \in alerts \cup handled

(***************************************************************************)
(* Every sync that starts is reported as completed or as failed, unless    *)
(* the process dies: there is no way out of syncAllFeeds past both events. *)
(***************************************************************************)
EveryRunReported ==
  \A r \in Run : run[r].stage # "idle" ~>
    \/ run[r].stage = "gone"
    \/ \E kind \in {"completed", "error"} : Event(r, kind, None) \in handled
=============================================================================
