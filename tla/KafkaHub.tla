------------------------------- MODULE KafkaHub -------------------------------
(***************************************************************************)
(* examples/kafka-websubhub/websubhub/hub.go: several hub processes that   *)
(* share one state-event log.  Each keeps a projection of the log, answers *)
(* requests from it, publishes what it decides and applies nothing until   *)
(* its own consumer reads the event back.  The hub that accepted a         *)
(* subscription (server_id) runs the delivery worker of that subscription. *)
(*                                                                         *)
(* Kafka is external: log is websub-events.  The snapshot a starting hub   *)
(* is given is the consolidator's view after some prefix of the log, which *)
(* is what module Consolidator shows about the snapshot endpoint.          *)
(***************************************************************************)
EXTENDS StateLog, FiniteSets

CONSTANTS
    None,           \* no pending operation, no pending start
    MaxLog,         \* bound on the events published
    MaxGen,         \* bound on the stored objects one process creates per key
    MaxFailures     \* bound on failures and failed writes of the workers

VARIABLES
    log,
    phase,          \* per hub: down, loaded, replaying, tailing, launching, serving, ending
    view,           \* per hub: topics and subscribers
    cursor,         \* per hub: KafkaBroker.eventsOffset
    replayEnd,      \* per hub: the boundary ReplayEvents captured
    gen,            \* per hub and key: identity of the *storedSubscription, 0 for none yet
    attached,       \* per hub and key: stored.cancel # nil
    starting,       \* per hub: the object ApplySubscription is about to start
    toLaunch,       \* per hub: what startReplayedSubscriptionWorkers has left
    op,             \* per hub: the event the holder of operationMu is publishing
    unsubscribing,  \* per hub: unsubscriptions validated and not yet verified
    workers,        \* the delivery workers
    reported,       \* per hub: reportError has told main to shut down
    failures

hubVars == <<phase, view, cursor, replayEnd, gen, attached, starting, toLaunch,
             reported>>
reqVars == <<op, unsubscribing>>
vars    == <<log, hubVars, reqVars, workers, failures>>

Objects == Keys \X (1..MaxGen)

ASSUME BoundsAssumption == MaxGen \in Nat \ {0} /\ MaxFailures \in Nat
ASSUME NoneAssumption == None \notin Events \cup Objects

Workers == [server : Servers, key : Keys, gen : 1..MaxGen, nth : 1..2, lease : Leases,
            step : {"consuming", "gone", "failed"}, cancelled : BOOLEAN]

TypeOK ==
    /\ log \in Seq(Events)
    /\ phase \in [Servers -> {"down", "loaded", "replaying", "tailing",
                           "launching", "serving", "ending"}]
    /\ view \in [Servers -> Views]
    /\ cursor \in [Servers -> 0..Len(log)] /\ replayEnd \in [Servers -> 0..Len(log)]
    /\ gen \in [Servers -> [Keys -> 0..MaxGen]]
    /\ attached \in [Servers -> [Keys -> BOOLEAN]]
    /\ starting \in [Servers -> Objects \cup {None}]
    /\ toLaunch \in [Servers -> SUBSET Objects]
    /\ op \in [Servers -> Events \cup {None}]
    /\ unsubscribing \in [Servers -> SUBSET Keys]
    /\ workers \subseteq Workers
    /\ reported \in [Servers -> BOOLEAN]
    /\ failures \in 0..MaxFailures

Init ==
    /\ log = <<>>
    /\ phase = [h \in Servers |-> "down"]
    /\ view = [h \in Servers |-> EmptyView]
    /\ cursor = [h \in Servers |-> 0] /\ replayEnd = [h \in Servers |-> 0]
    /\ gen = [h \in Servers |-> [k \in Keys |-> 0]]
    /\ attached = [h \in Servers |-> [k \in Keys |-> FALSE]]
    /\ starting = [h \in Servers |-> None]
    /\ toLaunch = [h \in Servers |-> {}]
    /\ op = [h \in Servers |-> None]
    /\ unsubscribing = [h \in Servers |-> {}]
    /\ workers = {}
    /\ reported = [h \in Servers |-> FALSE]
    /\ failures = 0

Stored(h, k) == view[h].subs[k]
Running(h)   == phase[h] \in {"tailing", "launching", "serving", "ending"}
Answering(h) == phase[h] \in {"serving", "ending"}

-----------------------------------------------------------------------------
(* Applying an event.                                                      *)

\* The keys whose stored object an event replaces, marks stale or removes.
Touched(h, v) == {k \in Keys : v.subs[k] # Stored(h, k)}

\* Keys that get a new *storedSubscription.
Created(h, v) ==
    {k \in Touched(h, v) : v.subs[k] # NoSub /\ ~v.subs[k].stale}

\* Mutant of Project: the worker of the entry is not cancelled.
ProjectUncancelled(h, v) ==
    /\ view' = [view EXCEPT ![h] = v]
    /\ gen' = [gen EXCEPT ![h] = [k \in Keys |-> IF k \in Created(h, v) THEN @[k] + 1 ELSE @[k]]]
    /\ attached' = [attached EXCEPT ![h] = [k \in Keys |-> @[k] /\ k \notin Touched(h, v)]]
    /\ UNCHANGED workers

\* The view, the object identities and the cancel functions after h has moved
\* to view v.  Removal and the stale mark cancel the worker; a new object has
\* none.  (The cancel after h.mu is released is folded in: no other event is
\* applied before it, and a removed object is never started.)
Project(h, v) ==
    /\ view' = [view EXCEPT ![h] = v]
    /\ gen' = [gen EXCEPT ![h] = [k \in Keys |-> IF k \in Created(h, v) THEN @[k] + 1 ELSE @[k]]]
    /\ attached' = [attached EXCEPT ![h] = [k \in Keys |-> @[k] /\ k \notin Touched(h, v)]]
    /\ workers' = {[w EXCEPT !.cancelled = @ \/ (w.server = h /\ w.key \in Touched(h, v)
                                                 /\ attached[h][w.key] /\ w.gen = gen[h][w.key])]
                     : w \in workers}

CanCreate(h, v) == \A k \in Created(h, v) : gen[h][k] < MaxGen

-----------------------------------------------------------------------------
(* Startup (New).                                                          *)

\* The snapshot's entries are applied to empty maps.
ApplySnapshot(h, n) ==
    /\ phase[h] = "down"
    /\ n \in 0..Len(log)
    /\ LET v == Materialized(log, n) IN
         /\ view' = [view EXCEPT ![h] = v]
         /\ gen' = [gen EXCEPT ![h] = [k \in Keys |-> IF v.subs[k] = NoSub THEN 0 ELSE 1]]
    /\ attached' = [attached EXCEPT ![h] = [k \in Keys |-> FALSE]]
    /\ phase' = [phase EXCEPT ![h] = "loaded"]
    /\ cursor' = [cursor EXCEPT ![h] = 0]
    /\ UNCHANGED <<log, replayEnd, starting, toLaunch, reported, reqVars, workers, failures>>

ReplayEvents(h) ==
    /\ phase[h] = "loaded"
    /\ replayEnd' = [replayEnd EXCEPT ![h] = Len(log)]
    /\ phase' = [phase EXCEPT ![h] = "replaying"]
    /\ UNCHANGED <<log, view, cursor, gen, attached, starting, toLaunch, reported, reqVars, workers, failures>>

ReplayEvent(h) ==
    /\ phase[h] = "replaying" /\ cursor[h] < replayEnd[h]
    /\ LET v == ApplyEvent(view[h], log[cursor[h] + 1]) IN
         CanCreate(h, v) /\ Project(h, v)
    /\ cursor' = [cursor EXCEPT ![h] = @ + 1]
    /\ UNCHANGED <<log, phase, replayEnd, starting, toLaunch, reported, reqVars, failures>>

\* Mutant of ReplayDone: the boundary is not waited for.
ReplayDoneEarly(h) ==
    /\ phase[h] = "replaying"
    /\ phase' = [phase EXCEPT ![h] = "tailing"]
    /\ UNCHANGED <<log, view, cursor, replayEnd, gen, attached, starting, toLaunch,
                   reported, reqVars, workers, failures>>

\* The boundary is reached: replaying is cleared and the event consumer starts.
ReplayDone(h) ==
    /\ phase[h] = "replaying" /\ cursor[h] >= replayEnd[h]
    /\ phase' = [phase EXCEPT ![h] = "tailing"]
    /\ UNCHANGED <<log, view, cursor, replayEnd, gen, attached, starting, toLaunch,
                   reported, reqVars, workers, failures>>

\* Mutant of ListReplayed: replayed subscriptions are not started.
ListNothing(h) ==
    /\ phase[h] = "tailing"
    /\ phase' = [phase EXCEPT ![h] = "launching"]
    /\ UNCHANGED <<log, view, cursor, replayEnd, gen, attached, starting, toLaunch,
                   reported, reqVars, workers, failures>>

\* startReplayedSubscriptionWorkers lists the entries that are not stale while
\* the event consumer is already running.
ListReplayed(h) ==
    /\ phase[h] = "tailing"
    /\ toLaunch' = [toLaunch EXCEPT ![h] =
         {<<k, gen[h][k]>> : k \in {j \in Keys : Stored(h, j) # NoSub /\ ~Stored(h, j).stale}}]
    /\ phase' = [phase EXCEPT ![h] = "launching"]
    /\ UNCHANGED <<log, view, cursor, replayEnd, gen, attached, starting, reported, reqVars,
                   workers, failures>>

\* Mutant of CanStart: the owner is not asked for.
CanStartUnowned(h, object) ==
    LET k == object[1] IN
    /\ Stored(h, k) # NoSub /\ gen[h][k] = object[2]
    /\ ~Stored(h, k).stale
    /\ ~attached[h][k]

\* startSubscriptionWorker: only for the object still stored, owned, not stale
\* and without a worker.
CanStart(h, object) ==
    LET k == object[1] IN
    /\ Stored(h, k) # NoSub /\ gen[h][k] = object[2]
    /\ Stored(h, k).server = h /\ ~Stored(h, k).stale
    /\ ~attached[h][k]

\* nth tells a second worker of one object from the first.
NewWorker(h, object) ==
    [server |-> h, key |-> object[1], gen |-> object[2],
     nth |-> 1 + Cardinality({w \in workers : /\ w.server = h /\ w.key = object[1]
                                             /\ w.gen = object[2]}),
     lease |-> Stored(h, object[1]).lease, step |-> "consuming", cancelled |-> FALSE]

startSubscriptionWorker(h, object) ==
    IF CanStart(h, object)
    THEN /\ attached' = [attached EXCEPT ![h][object[1]] = TRUE]
         /\ workers' = workers \cup {NewWorker(h, object)}
    ELSE UNCHANGED <<attached, workers>>

LaunchReplayed(h, object) ==
    /\ object \in toLaunch[h]
    /\ startSubscriptionWorker(h, object)
    /\ toLaunch' = [toLaunch EXCEPT ![h] = @ \ {object}]
    /\ UNCHANGED <<log, phase, view, cursor, replayEnd, gen, starting, reported, reqVars, failures>>

\* New returns and main starts the HTTP server.
ServeHTTP(h) ==
    /\ phase[h] = "launching" /\ toLaunch[h] = {}
    /\ phase' = [phase EXCEPT ![h] = "serving"]
    /\ UNCHANGED <<log, view, cursor, replayEnd, gen, attached, starting, toLaunch,
                   reported, reqVars, workers, failures>>

Startup(h) ==
    \/ \E n \in 0..Len(log) : ApplySnapshot(h, n)
    \/ ReplayEvents(h) \/ ReplayEvent(h) \/ ReplayDone(h) \/ ListReplayed(h)
    \/ \E object \in toLaunch[h] : LaunchReplayed(h, object)
    \/ ServeHTTP(h)

-----------------------------------------------------------------------------
(* The event consumer (runEventWorker), one goroutine.                     *)

\* Apply the next record.  A subscription that was stored is started after the
\* lock is released, before the next record.
ConsumeEvent(h) ==
    /\ Running(h) /\ phase[h] # "ending" /\ starting[h] = None /\ cursor[h] < Len(log)
    /\ LET v == ApplyEvent(view[h], log[cursor[h] + 1]) IN
         /\ CanCreate(h, v) /\ Project(h, v)
         /\ starting' = [starting EXCEPT ![h] =
              IF Created(h, v) = {} THEN None
              ELSE LET k == CHOOSE j \in Created(h, v) : TRUE IN <<k, gen[h][k] + 1>>]
    /\ cursor' = [cursor EXCEPT ![h] = @ + 1]
    /\ UNCHANGED <<log, phase, replayEnd, toLaunch, reported, reqVars, failures>>

StartApplied(h) ==
    /\ starting[h] # None
    /\ startSubscriptionWorker(h, starting[h])
    /\ starting' = [starting EXCEPT ![h] = None]
    /\ UNCHANGED <<log, phase, view, cursor, replayEnd, gen, toLaunch, reported, reqVars, failures>>

\* ConsumeEvents returns an error: it is reported, and the hub's context is
\* cancelled, which ends its workers and lets none start.  Until main has acted on
\* the report the hub answers requests from a projection that stands still.
EventConsumerFails(h) ==
    /\ Running(h) /\ phase[h] # "ending" /\ starting[h] = None /\ failures < MaxFailures
    /\ failures' = failures + 1
    /\ phase' = [phase EXCEPT ![h] = "ending"]
    /\ reported' = [reported EXCEPT ![h] = TRUE]
    /\ toLaunch' = [toLaunch EXCEPT ![h] = {}]
    /\ workers' = {[w EXCEPT !.cancelled = @ \/ w.server = h] : w \in workers}
    /\ UNCHANGED <<log, view, cursor, replayEnd, gen, attached, starting, reqVars>>

-----------------------------------------------------------------------------
(* Requests.  op[h] # None: a callback holds operationMu and its write to  *)
(* the log is under way; the projection may move meanwhile.                *)

Publishing(h, e) ==
    /\ Answering(h) /\ op[h] = None
    /\ op' = [op EXCEPT ![h] = e]
    /\ UNCHANGED <<log, hubVars, workers, failures>>

onRegisterTopic(h, t) ==
    /\ t \notin view[h].topics
    /\ Publishing(h, [kind |-> "register", topic |-> t])
    /\ UNCHANGED unsubscribing

onDeregisterTopic(h, t) ==
    /\ t \in view[h].topics
    /\ Publishing(h, [kind |-> "deregister", topic |-> t])
    /\ UNCHANGED unsubscribing

\* LeaseStartedAt is the time the intent was verified: never used before.
FreshLeases ==
    Leases \ ({log[i].lease : i \in {j \in DOMAIN log : log[j].kind \in {"subscribe", "stale"}}}
              \cup {op[h].lease : h \in {g \in Servers : op[g] # None /\ op[g].kind = "subscribe"}})

\* Mutant of onSubscriptionVerified: the topic is looked up before the
\* verification only.
onSubscriptionVerifiedUnchecked(h, k, lease) ==
    /\ \/ Stored(h, k) = NoSub /\ lease \in FreshLeases
       \/ Stored(h, k) # NoSub /\ Stored(h, k).stale /\ lease = Stored(h, k).lease
    /\ Publishing(h, [kind |-> "subscribe", key |-> k, lease |-> lease,
                      server |-> IF Stored(h, k) = NoSub THEN h ELSE Stored(h, k).server])
    /\ UNCHANGED unsubscribing

\* onSubscriptionValidation made the same checks before the verification;
\* these are the ones that count.
onSubscriptionVerified(h, k, lease) ==
    /\ k[1] \in view[h].topics
    /\ \/ Stored(h, k) = NoSub /\ lease \in FreshLeases
       \/ Stored(h, k) # NoSub /\ Stored(h, k).stale /\ lease = Stored(h, k).lease
    /\ Publishing(h, [kind |-> "subscribe", key |-> k, lease |-> lease,
                      server |-> IF Stored(h, k) = NoSub THEN h ELSE Stored(h, k).server])
    /\ UNCHANGED unsubscribing

onUnsubscriptionValidation(h, k) ==
    /\ Answering(h)
    /\ k[1] \in view[h].topics /\ Stored(h, k) # NoSub
    /\ unsubscribing' = [unsubscribing EXCEPT ![h] = @ \cup {k}]
    /\ UNCHANGED <<log, hubVars, op, workers, failures>>

\* Published without asking the projection again.
onUnsubscriptionVerified(h, k) ==
    /\ k \in unsubscribing[h]
    /\ Publishing(h, [kind |-> "unsubscribe", key |-> k])
    /\ unsubscribing' = [unsubscribing EXCEPT ![h] = @ \ {k}]

PublishSucceeds(h) ==
    /\ op[h] # None /\ Len(log) < MaxLog
    /\ log' = Append(log, op[h])
    /\ op' = [op EXCEPT ![h] = None]
    /\ UNCHANGED <<hubVars, unsubscribing, workers, failures>>

\* (A write that fails after it had its effect leaves the hub as PublishSucceeds
\* does: only the answer differs.)
PublishFails(h) ==
    /\ op[h] # None
    /\ op' = [op EXCEPT ![h] = None]
    /\ UNCHANGED <<log, hubVars, unsubscribing, workers, failures>>

Request(h) ==
    \/ \E t \in Topics : onRegisterTopic(h, t) \/ onDeregisterTopic(h, t)
    \/ \E k \in Keys : \/ \E lease \in Leases : onSubscriptionVerified(h, k, lease)
                       \/ onUnsubscriptionValidation(h, k)
                       \/ onUnsubscriptionVerified(h, k)
    \/ PublishSucceeds(h) \/ PublishFails(h)

-----------------------------------------------------------------------------
(* Delivery workers.  Module ContentDelivery has what they consume.        *)

Becomes(w, step) == workers' = (workers \ {w}) \cup {[w EXCEPT !.step = step]}
Ends(w)          == workers' = workers \ {w}

\* Mutant of StaleEvent: the owner is missing.
StaleEventUnowned(w) == [kind |-> "stale", key |-> w.key, lease |-> w.lease]

StaleEvent(w) == [kind |-> "stale", key |-> w.key, lease |-> w.lease, server |-> w.server]
GoneEvent(w)  == [kind |-> "unsubscribe", key |-> w.key]

\* What is in the log after a write of e that failed: it may have had an effect.
AfterFailedWrite(e) == {log} \cup (IF Len(log) < MaxLog THEN {Append(log, e)} ELSE {})

\* The subscriber answers 410.
DeliveryGone(w) ==
    /\ w.step = "consuming" /\ ~w.cancelled
    /\ Becomes(w, "gone")
    /\ UNCHANGED <<log, hubVars, reqVars, failures>>

\* The unsubscription is written, possibly after the worker was cancelled.
PublishGone(w) ==
    /\ w.step = "gone" /\ Len(log) < MaxLog
    /\ log' = Append(log, GoneEvent(w))
    /\ Ends(w)
    /\ UNCHANGED <<hubVars, reqVars, failures>>

\* The write fails: an error like any other, unless the worker was cancelled.
PublishGoneFails(w) ==
    /\ w.step = "gone"
    /\ IF w.cancelled THEN Ends(w) /\ UNCHANGED <<log, failures>>
       ELSE /\ failures < MaxFailures /\ failures' = failures + 1
            /\ log' \in AfterFailedWrite(GoneEvent(w))
            /\ Becomes(w, "failed")
    /\ UNCHANGED <<hubVars, reqVars>>

\* Mutant of WorkerFails: the error is dropped.
WorkerFailsSilently(w) ==
    /\ w.step = "consuming" /\ ~w.cancelled
    /\ Ends(w)
    /\ UNCHANGED <<log, hubVars, reqVars, failures>>

\* ConsumeSubscription returns an error and the worker was not cancelled.
WorkerFails(w) ==
    /\ w.step = "consuming" /\ ~w.cancelled
    /\ Becomes(w, "failed")
    /\ UNCHANGED <<log, hubVars, reqVars, failures>>

PublishStale(w) ==
    /\ w.step = "failed" /\ Len(log) < MaxLog
    /\ log' = Append(log, StaleEvent(w))
    /\ Ends(w)
    /\ UNCHANGED <<hubVars, reqVars, failures>>

\* reportError: main shuts the process down.  Where the hub's context is cancelled
\* the write cannot but fail, unless it was under way.
PublishStaleFails(w) ==
    /\ w.step = "failed"
    /\ IF phase[w.server] = "ending" THEN UNCHANGED failures
       ELSE failures < MaxFailures /\ failures' = failures + 1
    /\ log' \in AfterFailedWrite(StaleEvent(w))
    /\ reported' = [reported EXCEPT ![w.server] = TRUE]
    /\ Ends(w)
    /\ UNCHANGED <<phase, view, cursor, replayEnd, gen, attached, starting, toLaunch, reqVars>>

WorkerCancelled(w) ==
    /\ w.step = "consuming" /\ w.cancelled
    /\ Ends(w)
    /\ UNCHANGED <<log, hubVars, reqVars, failures>>

Work(w) ==
    \/ DeliveryGone(w) \/ PublishGone(w) \/ PublishGoneFails(w)
    \/ WorkerFails(w) \/ PublishStale(w) \/ PublishStaleFails(w)
    \/ WorkerCancelled(w)

-----------------------------------------------------------------------------

\* Everything but the log dies with the process.
Down(h) ==
    /\ phase' = [phase EXCEPT ![h] = "down"]
    /\ view' = [view EXCEPT ![h] = EmptyView]
    /\ cursor' = [cursor EXCEPT ![h] = 0] /\ replayEnd' = [replayEnd EXCEPT ![h] = 0]
    /\ gen' = [gen EXCEPT ![h] = [k \in Keys |-> 0]]
    /\ attached' = [attached EXCEPT ![h] = [k \in Keys |-> FALSE]]
    /\ starting' = [starting EXCEPT ![h] = None]
    /\ toLaunch' = [toLaunch EXCEPT ![h] = {}]
    /\ op' = [op EXCEPT ![h] = None]
    /\ unsubscribing' = [unsubscribing EXCEPT ![h] = {}]
    /\ workers' = {w \in workers : w.server # h}
    /\ reported' = [reported EXCEPT ![h] = FALSE]
    /\ UNCHANGED log

Crash(h) ==
    /\ phase[h] # "down" /\ failures < MaxFailures
    /\ failures' = failures + 1
    /\ Down(h)

Shutdown(h) ==
    /\ Answering(h) /\ reported[h]
    /\ Down(h)
    /\ UNCHANGED failures

Next ==
    \/ \E h \in Servers : \/ Startup(h) \/ ConsumeEvent(h) \/ StartApplied(h)
                         \/ EventConsumerFails(h)
                         \/ Request(h) \/ Crash(h) \/ Shutdown(h)
    \/ \E w \in workers : Work(w)

Spec == Init /\ [][Next]_vars
=============================================================================
