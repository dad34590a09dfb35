------------------------------ MODULE MemoryHub ------------------------------
(***************************************************************************)
(* The application of examples/in-memory-websubhub (hub.go): topics and    *)
(* subscriptions under one lock, an update queue, one dispatcher, a        *)
(* delivery queue, delivery workers, and Close.                            *)
(*                                                                         *)
(* The handler's workers call the callbacks concurrently, validation and   *)
(* verified callback separated by the intent request; publishers call      *)
(* onUpdateMessage, which looks the topic up under one lock and enqueues   *)
(* under another.  An action is one lock region, channel operation or      *)
(* network call.  A stored subscription is its version; that its lease has *)
(* ended is a set of versions, so no clock is needed.                      *)
(***************************************************************************)
EXTENDS Integers, FiniteSets, Sequences

CONSTANTS
    Topics, Callbacks,
    Flows,          \* verification workers that call the callbacks
    Publishers,     \* goroutines in onUpdateMessage
    Deliverers,     \* hubOptions.deliveryWorkers goroutines
    Closers,        \* calls of Close
    UpdateQueue,    \* capacity of updates
    DeliveryQueue,  \* capacity of deliveries
    MaxVersion,     \* bound: subscriptions verified in a behaviour
    MaxUpdates,     \* bound: updates accepted in a behaviour
    None

ASSUME QueuesAssumption == UpdateQueue \in Nat \ {0} /\ DeliveryQueue \in Nat \ {0}
ASSUME DeliverersAssumption == Deliverers # {}     \* newMemoryHub defaults to four
ASSUME BoundsAssumption == MaxVersion \in Nat /\ MaxUpdates \in Nat

VARIABLES
    topics,       \* registered topics
    subs,         \* subs[t][c]: version of the stored subscription, 0 if none
    nextVersion,  \* Hub.nextVersion
    lapsed,       \* versions whose expiresAt is not after now
    flow,         \* flow[f]: the verification worker f runs, between callbacks
    publishing,   \* publishing[p]: the topic p found registered, or None
    updates,      \* channel updates, of [id, topic]
    accepted,     \* number of updates accepted so far; ids are 1..accepted
    dispatcher,   \* step of the dispatch goroutine and what it works on
    deliveries,   \* channel deliveries, of [id, topic, callback, version]
    deliverer,    \* deliverer[d]: step of the delivery worker and its job
    closed,       \* memoryHub.closed; the updates channel is closed with it
    cancelled,    \* memoryHub.ctx is cancelled
    closer,       \* closer[k]: step of the Close call k
    fate,         \* fate[i]: what the dispatcher did with update i
    due,          \* due[i]: the <<callback, version>> pairs update i was to reach
    attempted,    \* <<id, callback, version>> delivery attempts made
    gone          \* versions whose subscriber answered 410

stateVars == <<topics, subs, nextVersion, lapsed>>
queueVars == <<updates, accepted, deliveries>>
history   == <<fate, due, attempted, gone>>
vars == <<stateVars, flow, publishing, queueVars, dispatcher, deliverer, closed,
          cancelled, closer, history>>

UpdateIds == 1..MaxUpdates
Update    == [id : UpdateIds, topic : Topics]
Job       == [id : UpdateIds, topic : Topics, callback : Callbacks, version : 1..MaxVersion]
Verifying == [mode : {"subscribe", "unsubscribe"}, topic : Topics, callback : Callbacks]
Fates     == {"none", "queued", "unavailable", "dispatched", "cancelled"}

TypeOK ==
    /\ topics \subseteq Topics
    /\ subs \in [Topics -> [Callbacks -> 0..MaxVersion]]
    /\ nextVersion \in 0..MaxVersion
    /\ lapsed \subseteq 1..MaxVersion
    /\ flow \in [Flows -> Verifying \cup {None}]
    /\ publishing \in [Publishers -> Topics \cup {None}]
    /\ updates \in Seq(Update) /\ Len(updates) <= UpdateQueue
    /\ accepted \in 0..MaxUpdates
    /\ dispatcher \in [step : {"receive", "content", "snapshot", "send", "exited"},
                       update : Update \cup {None},
                       left : SUBSET (Callbacks \X (1..MaxVersion))]
    /\ deliveries \in Seq(Job) /\ Len(deliveries) <= DeliveryQueue
    /\ deliverer \in [Deliverers -> [step : {"receive", "deliver", "remove", "exited"},
                                     job : Job \cup {None}]]
    /\ closed \in BOOLEAN /\ cancelled \in BOOLEAN
    /\ closer \in [Closers -> {"idle", "waiting", "nil", "expired"}]
    /\ fate \in [UpdateIds -> Fates]
    /\ due \in [UpdateIds -> SUBSET (Callbacks \X (1..MaxVersion))]
    /\ attempted \subseteq UpdateIds \X Callbacks \X (1..MaxVersion)
    /\ gone \subseteq 1..MaxVersion

\* The dispatcher at step s with update u and the pairs l still to send.
Dispatching(s, u, l) == [step |-> s, update |-> u, left |-> l]

\* newMemoryHub
Init ==
    /\ topics = {}
    /\ subs = [t \in Topics |-> [c \in Callbacks |-> 0]]
    /\ nextVersion = 0
    /\ lapsed = {}
    /\ flow = [f \in Flows |-> None]
    /\ publishing = [p \in Publishers |-> None]
    /\ updates = <<>>
    /\ accepted = 0
    /\ dispatcher = Dispatching("receive", None, {})
    /\ deliveries = <<>>
    /\ deliverer = [d \in Deliverers |-> [step |-> "receive", job |-> None]]
    /\ closed = FALSE
    /\ cancelled = FALSE
    /\ closer = [k \in Closers |-> "idle"]
    /\ fate = [i \in UpdateIds |-> "none"]
    /\ due = [i \in UpdateIds |-> {}]
    /\ attempted = {}
    /\ gone = {}

-----------------------------------------------------------------------------
(* Callbacks of the handler.  A denial changes nothing and is left out.    *)

onRegisterTopic(t) ==
    /\ t \notin topics
    /\ topics' = topics \cup {t}
    /\ UNCHANGED <<subs, nextVersion, lapsed, flow, publishing, queueVars, dispatcher,
                   deliverer, closed, cancelled, closer, history>>

onDeregisterTopic(t) ==
    /\ t \in topics
    /\ topics' = topics \ {t}
    /\ subs' = [subs EXCEPT ![t] = [c \in Callbacks |-> 0]]
    /\ UNCHANGED <<nextVersion, lapsed, flow, publishing, queueVars, dispatcher,
                   deliverer, closed, cancelled, closer, history>>

\* The validation callback passes and the worker goes on to verify the intent.
onSubscriptionValidation(f, t, c) ==
    /\ flow[f] = None
    /\ t \in topics
    /\ flow' = [flow EXCEPT ![f] = [mode |-> "subscribe", topic |-> t, callback |-> c]]
    /\ UNCHANGED <<stateVars, publishing, queueVars, dispatcher, deliverer, closed,
                   cancelled, closer, history>>

\* Whether the lease has ended is not looked at: an entry counts until it is purged.
onUnsubscriptionValidation(f, t, c) ==
    /\ flow[f] = None
    /\ t \in topics /\ subs[t][c] # 0
    /\ flow' = [flow EXCEPT ![f] = [mode |-> "unsubscribe", topic |-> t, callback |-> c]]
    /\ UNCHANGED <<stateVars, publishing, queueVars, dispatcher, deliverer, closed,
                   cancelled, closer, history>>

\* The subscriber did not confirm, or the topic is gone by the time it did.
FlowEndsWithoutEffect(f) ==
    /\ flow[f] # None
    /\ flow' = [flow EXCEPT ![f] = None]
    /\ UNCHANGED <<stateVars, publishing, queueVars, dispatcher, deliverer, closed,
                   cancelled, closer, history>>

\* Mutant of onSubscriptionVerified: the topic is not looked up again.
onSubscriptionVerifiedUnchecked(f) ==
    /\ flow[f] # None /\ flow[f].mode = "subscribe"
    /\ nextVersion < MaxVersion
    /\ nextVersion' = nextVersion + 1
    /\ subs' = [subs EXCEPT ![flow[f].topic][flow[f].callback] = nextVersion + 1]
    /\ flow' = [flow EXCEPT ![f] = None]
    /\ UNCHANGED <<topics, lapsed, publishing, queueVars, dispatcher, deliverer, closed,
                   cancelled, closer, history>>

\* A first subscription or a renewal; the topic is looked up again.
onSubscriptionVerified(f) ==
    /\ flow[f] # None /\ flow[f].mode = "subscribe"
    /\ flow[f].topic \in topics
    /\ nextVersion < MaxVersion
    /\ nextVersion' = nextVersion + 1
    /\ subs' = [subs EXCEPT ![flow[f].topic][flow[f].callback] = nextVersion + 1]
    /\ flow' = [flow EXCEPT ![f] = None]
    /\ UNCHANGED <<topics, lapsed, publishing, queueVars, dispatcher, deliverer, closed,
                   cancelled, closer, history>>

\* Deletes whatever is stored now, without looking again.
onUnsubscriptionVerified(f) ==
    /\ flow[f] # None /\ flow[f].mode = "unsubscribe"
    /\ subs' = [subs EXCEPT ![flow[f].topic][flow[f].callback] = 0]
    /\ flow' = [flow EXCEPT ![f] = None]
    /\ UNCHANGED <<topics, nextVersion, lapsed, publishing, queueVars, dispatcher,
                   deliverer, closed, cancelled, closer, history>>

\* A lease ends: expiresAt is no longer after now.
LeaseEnds(v) ==
    /\ \E t \in Topics, c \in Callbacks : subs[t][c] = v
    /\ v \in (1..nextVersion) \ lapsed
    /\ lapsed' = lapsed \cup {v}
    /\ UNCHANGED <<topics, subs, nextVersion, flow, publishing, queueVars, dispatcher,
                   deliverer, closed, cancelled, closer, history>>

\* onUpdateMessage, first half: hasTopic under mu.
UpdateTopicFound(p, t) ==
    /\ publishing[p] = None
    /\ t \in topics
    /\ publishing' = [publishing EXCEPT ![p] = t]
    /\ UNCHANGED <<stateVars, flow, queueVars, dispatcher, deliverer, closed, cancelled,
                   closer, history>>

\* Mutants of UpdateQueued: no bound on the queue; closed is not looked at.
UpdateQueuedUnbounded(p) ==
    /\ publishing[p] # None /\ ~closed /\ accepted < MaxUpdates
    /\ accepted' = accepted + 1
    /\ updates' = Append(updates, [id |-> accepted + 1, topic |-> publishing[p]])
    /\ fate' = [fate EXCEPT ![accepted + 1] = "queued"]
    /\ publishing' = [publishing EXCEPT ![p] = None]
    /\ UNCHANGED <<stateVars, flow, deliveries, dispatcher, deliverer, closed, cancelled,
                   closer, due, attempted, gone>>

UpdateQueuedWhenClosed(p) ==
    /\ publishing[p] # None /\ Len(updates) < UpdateQueue /\ accepted < MaxUpdates
    /\ accepted' = accepted + 1
    /\ updates' = Append(updates, [id |-> accepted + 1, topic |-> publishing[p]])
    /\ fate' = [fate EXCEPT ![accepted + 1] = "queued"]
    /\ publishing' = [publishing EXCEPT ![p] = None]
    /\ UNCHANGED <<stateVars, flow, deliveries, dispatcher, deliverer, closed, cancelled,
                   closer, due, attempted, gone>>

\* Second half, under queueMu: a non-blocking send.
UpdateQueued(p) ==
    /\ publishing[p] # None
    /\ ~closed
    /\ Len(updates) < UpdateQueue
    /\ accepted < MaxUpdates
    /\ accepted' = accepted + 1
    /\ updates' = Append(updates, [id |-> accepted + 1, topic |-> publishing[p]])
    /\ fate' = [fate EXCEPT ![accepted + 1] = "queued"]
    /\ publishing' = [publishing EXCEPT ![p] = None]
    /\ UNCHANGED <<stateVars, flow, deliveries, dispatcher, deliverer, closed, cancelled,
                   closer, due, attempted, gone>>

\* 503: shutting down, or the queue is full.
UpdateRefused(p) ==
    /\ publishing[p] # None
    /\ closed \/ Len(updates) = UpdateQueue
    /\ publishing' = [publishing EXCEPT ![p] = None]
    /\ UNCHANGED <<stateVars, flow, queueVars, dispatcher, deliverer, closed, cancelled,
                   closer, history>>

CallbackStep ==
    \/ \E t \in Topics : onRegisterTopic(t) \/ onDeregisterTopic(t)
    \/ \E f \in Flows, t \in Topics, c \in Callbacks :
         onSubscriptionValidation(f, t, c) \/ onUnsubscriptionValidation(f, t, c)
    \/ \E f \in Flows :
         \/ onSubscriptionVerified(f) \/ onUnsubscriptionVerified(f)
         \/ FlowEndsWithoutEffect(f)
    \/ \E v \in 1..MaxVersion : LeaseEnds(v)
    \/ \E p \in Publishers : UpdateQueued(p) \/ UpdateRefused(p)
    \/ \E p \in Publishers, t \in Topics : UpdateTopicFound(p, t)

-----------------------------------------------------------------------------
(* dispatch                                                                *)

ReceiveUpdate ==
    /\ dispatcher.step = "receive"
    /\ updates # <<>>
    /\ dispatcher' = Dispatching("content", Head(updates), {})
    /\ updates' = Tail(updates)
    /\ UNCHANGED <<stateVars, flow, publishing, accepted, deliveries, deliverer, closed,
                   cancelled, closer, history>>

\* contentFor: the update's own body, or the topic fetched in time.
ContentAvailable ==
    /\ dispatcher.step = "content"
    /\ dispatcher' = Dispatching("snapshot", dispatcher.update, {})
    /\ UNCHANGED <<stateVars, flow, publishing, queueVars, deliverer, closed, cancelled,
                   closer, history>>

ContentUnavailable ==
    /\ dispatcher.step = "content"
    /\ fate' = [fate EXCEPT ![dispatcher.update.id] = "unavailable"]
    /\ dispatcher' = Dispatching("receive", None, {})
    /\ UNCHANGED <<stateVars, flow, publishing, queueVars, deliverer, closed, cancelled,
                   closer, due, attempted, gone>>

\* activeSubscriptions, under mu: purge what lapsed, copy the rest.
Active(t) == {c \in Callbacks : subs[t][c] # 0 /\ subs[t][c] \notin lapsed}

SnapshotSubscribers ==
    /\ dispatcher.step = "snapshot"
    /\ LET t == dispatcher.update.topic
           pairs == {<<c, subs[t][c]>> : c \in Active(t)}
       IN  /\ subs' = [subs EXCEPT ![t] =
                        [c \in Callbacks |-> IF c \in Active(t) THEN subs[t][c] ELSE 0]]
           /\ due' = [due EXCEPT ![dispatcher.update.id] = pairs]
           /\ dispatcher' = Dispatching("send", dispatcher.update, pairs)
    /\ UNCHANGED <<topics, nextVersion, lapsed, flow, publishing, queueVars, deliverer,
                   closed, cancelled, closer, fate, attempted, gone>>

\* Mutant of SendDelivery: a subscription already sent to may be sent to again.
SendDeliveryAgain(pair) ==
    /\ dispatcher.step = "send" /\ pair \in dispatcher.left
    /\ Len(deliveries) < DeliveryQueue
    /\ deliveries' = Append(deliveries,
                        [id |-> dispatcher.update.id, topic |-> dispatcher.update.topic,
                         callback |-> pair[1], version |-> pair[2]])
    /\ UNCHANGED <<stateVars, flow, publishing, updates, accepted, dispatcher, deliverer,
                   closed, cancelled, closer, history>>

\* One blocking send; the order of the copies is the map's.
SendDelivery(pair) ==
    /\ dispatcher.step = "send"
    /\ pair \in dispatcher.left
    /\ Len(deliveries) < DeliveryQueue
    /\ deliveries' = Append(deliveries,
                        [id |-> dispatcher.update.id, topic |-> dispatcher.update.topic,
                         callback |-> pair[1], version |-> pair[2]])
    /\ dispatcher' = [dispatcher EXCEPT !.left = @ \ {pair}]
    /\ UNCHANGED <<stateVars, flow, publishing, updates, accepted, deliverer, closed,
                   cancelled, closer, history>>

UpdateDispatched ==
    /\ dispatcher.step = "send"
    /\ dispatcher.left = {}
    /\ fate' = [fate EXCEPT ![dispatcher.update.id] = "dispatched"]
    /\ dispatcher' = Dispatching("receive", None, {})
    /\ UNCHANGED <<stateVars, flow, publishing, queueVars, deliverer, closed, cancelled,
                   closer, due, attempted, gone>>

\* select picks ctx.Done, even when there is room: return, deliveries closed.
DispatchCancelled ==
    /\ dispatcher.step = "send"
    /\ dispatcher.left # {}
    /\ cancelled
    /\ fate' = [fate EXCEPT ![dispatcher.update.id] = "cancelled"]
    /\ dispatcher' = Dispatching("exited", None, {})
    /\ UNCHANGED <<stateVars, flow, publishing, queueVars, deliverer, closed, cancelled,
                   closer, due, attempted, gone>>

\* Mutant of DispatchEnds: only a cancelled context ends the dispatcher.
DispatchEndsCancelled ==
    /\ dispatcher.step = "receive" /\ cancelled /\ updates = <<>>
    /\ dispatcher' = Dispatching("exited", None, {})
    /\ UNCHANGED <<stateVars, flow, publishing, queueVars, deliverer, closed, cancelled,
                   closer, history>>

\* updates is closed and empty: close(deliveries).
DispatchEnds ==
    /\ dispatcher.step = "receive"
    /\ closed
    /\ updates = <<>>
    /\ dispatcher' = Dispatching("exited", None, {})
    /\ UNCHANGED <<stateVars, flow, publishing, queueVars, deliverer, closed, cancelled,
                   closer, history>>

DispatcherStep ==
    \/ ReceiveUpdate \/ ContentAvailable \/ ContentUnavailable \/ SnapshotSubscribers
    \/ \E pair \in dispatcher.left : SendDelivery(pair)
    \/ UpdateDispatched \/ DispatchCancelled \/ DispatchEnds

-----------------------------------------------------------------------------
(* deliver, worker d                                                       *)

Delivering(d, s, j) == deliverer' = [deliverer EXCEPT ![d] = [step |-> s, job |-> j]]

ReceiveDelivery(d) ==
    /\ deliverer[d].step = "receive"
    /\ deliveries # <<>>
    /\ Delivering(d, "deliver", Head(deliveries))
    /\ deliveries' = Tail(deliveries)
    /\ UNCHANGED <<stateVars, flow, publishing, updates, accepted, dispatcher, closed,
                   cancelled, closer, history>>

\* DeliveryClient.Deliver: one attempt; accepted, or failed in any way but 410.
Attempt(d) == attempted' = attempted \cup
    {<<deliverer[d].job.id, deliverer[d].job.callback, deliverer[d].job.version>>}

\* Mutant of DeliveryDone: a failed delivery ends the worker.
DeliveryDoneEnds(d) ==
    /\ deliverer[d].step = "deliver"
    /\ Attempt(d)
    /\ Delivering(d, "exited", None)
    /\ UNCHANGED <<stateVars, flow, publishing, queueVars, dispatcher, closed, cancelled,
                   closer, fate, due, gone>>

DeliveryDone(d) ==
    /\ deliverer[d].step = "deliver"
    /\ Attempt(d)
    /\ Delivering(d, "receive", None)
    /\ UNCHANGED <<stateVars, flow, publishing, queueVars, dispatcher, closed, cancelled,
                   closer, fate, due, gone>>

\* HTTP 410; removeSubscription needs mu, so others may run in between.
DeliveryGone(d) ==
    /\ deliverer[d].step = "deliver"
    /\ Attempt(d)
    /\ gone' = gone \cup {deliverer[d].job.version}
    /\ Delivering(d, "remove", deliverer[d].job)
    /\ UNCHANGED <<stateVars, flow, publishing, queueVars, dispatcher, closed, cancelled,
                   closer, fate, due>>

\* Mutant of removeSubscription: the version is not compared.
removeAnySubscription(d) ==
    /\ deliverer[d].step = "remove"
    /\ LET j == deliverer[d].job IN subs' = [subs EXCEPT ![j.topic][j.callback] = 0]
    /\ Delivering(d, "receive", None)
    /\ UNCHANGED <<topics, nextVersion, lapsed, flow, publishing, queueVars, dispatcher,
                   closed, cancelled, closer, history>>

removeSubscription(d) ==
    /\ deliverer[d].step = "remove"
    /\ LET j == deliverer[d].job IN
         subs' = IF subs[j.topic][j.callback] = j.version
                 THEN [subs EXCEPT ![j.topic][j.callback] = 0] ELSE subs
    /\ Delivering(d, "receive", None)
    /\ UNCHANGED <<topics, nextVersion, lapsed, flow, publishing, queueVars, dispatcher,
                   closed, cancelled, closer, history>>

\* Mutant of DelivererEnds: a worker leaves when admission is closed.
DelivererEndsAtClose(d) ==
    /\ deliverer[d].step = "receive" /\ closed
    /\ Delivering(d, "exited", None)
    /\ UNCHANGED <<stateVars, flow, publishing, queueVars, dispatcher, closed, cancelled,
                   closer, history>>

DelivererEnds(d) ==
    /\ deliverer[d].step = "receive"
    /\ dispatcher.step = "exited"
    /\ deliveries = <<>>
    /\ Delivering(d, "exited", None)
    /\ UNCHANGED <<stateVars, flow, publishing, queueVars, dispatcher, closed, cancelled,
                   closer, history>>

DelivererStep(d) ==
    \/ ReceiveDelivery(d) \/ DeliveryDone(d) \/ DeliveryGone(d)
    \/ removeSubscription(d) \/ DelivererEnds(d)

-----------------------------------------------------------------------------
(* Close                                                                   *)

\* close(done): the dispatcher and every delivery worker have returned.
Done == dispatcher.step = "exited" /\ \A d \in Deliverers : deliverer[d].step = "exited"

CloseCalled(k) ==
    /\ closer[k] = "idle"
    /\ closer' = [closer EXCEPT ![k] = "waiting"]
    /\ closed' = TRUE
    /\ UNCHANGED <<stateVars, flow, publishing, queueVars, dispatcher, deliverer, cancelled,
                   history>>

CloseReturns(k, result) ==
    /\ closer[k] = "waiting"
    /\ result = "nil" => Done
    /\ closer' = [closer EXCEPT ![k] = result]
    /\ cancelled' = TRUE
    /\ UNCHANGED <<stateVars, flow, publishing, queueVars, dispatcher, deliverer, closed,
                   history>>

CloserStep(k) == CloseCalled(k) \/ CloseReturns(k, "nil") \/ CloseReturns(k, "expired")

-----------------------------------------------------------------------------
Next ==
    \/ CallbackStep
    \/ DispatcherStep
    \/ \E d \in Deliverers : DelivererStep(d)
    \/ \E k \in Closers : CloserStep(k)

Spec == Init /\ [][Next]_vars

\* The hub's own goroutines run; a topic fetch and a delivery are bounded by
\* the 15 s HTTP client timeout of newMemoryHub.  No request, lease or Close is
\* assumed to happen.
LiveSpec ==
    /\ Spec
    /\ WF_vars(DispatcherStep)
    /\ \A d \in Deliverers : WF_vars(DelivererStep(d))
    /\ \A k \in Closers : WF_vars(CloseReturns(k, "nil"))
=============================================================================
