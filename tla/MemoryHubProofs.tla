---------------------------- MODULE MemoryHubProofs ----------------------------
(***************************************************************************)
(* Proofs about the in-memory hub: its types, the subscriptions of a topic *)
(* that is gone, the closed channels, and what becomes of an accepted      *)
(* update, for any topics, subscribers, publishers, workers and queues.    *)
(***************************************************************************)
EXTENDS MemoryHubProperties, TLAPS

USE QueuesAssumption, BoundsAssumption

\* The dispatcher and a delivery worker that are at work have something in hand.
InHand ==
    /\ dispatcher.step \in {"content", "snapshot", "send"} => dispatcher.update \in Update
    /\ \A d \in Deliverers : deliverer[d].step \in {"deliver", "remove"} => deliverer[d].job \in Job

TypeInv == TypeOK /\ InHand

-----------------------------------------------------------------------------
(* Types                                                                   *)

LEMMA TypesHoldInitially == Init => TypeInv
<1> SUFFICES ASSUME Init PROVE TypeInv
  OBVIOUS
<1>1. InHand
  BY DEF Init, InHand, Dispatching
<1>2. /\ subs \in [Topics -> [Callbacks -> 0..MaxVersion]]
      /\ dispatcher \in [step : {"receive", "content", "snapshot", "send", "exited"},
                         update : Update \cup {None},
                         left : SUBSET (Callbacks \X (1..MaxVersion))]
      /\ deliverer \in [Deliverers -> [step : {"receive", "deliver", "remove", "exited"},
                                       job : Job \cup {None}]]
  BY DEF Init, Dispatching
<1>3. /\ updates \in Seq(Update) /\ Len(updates) <= UpdateQueue
      /\ deliveries \in Seq(Job) /\ Len(deliveries) <= DeliveryQueue
  BY DEF Init
<1>4. /\ due \in [UpdateIds -> SUBSET (Callbacks \X (1..MaxVersion))]
      /\ attempted \subseteq UpdateIds \X Callbacks \X (1..MaxVersion)
      /\ gone \subseteq 1..MaxVersion /\ lapsed \subseteq 1..MaxVersion /\ topics \subseteq Topics
  BY DEF Init
<1>5. /\ fate \in [UpdateIds -> Fates]
      /\ flow \in [Flows -> Verifying \cup {None}]
      /\ publishing \in [Publishers -> Topics \cup {None}]
      /\ closer \in [Closers -> {"idle", "waiting", "nil", "expired"}]
      /\ accepted \in 0..MaxUpdates /\ nextVersion \in 0..MaxVersion
  BY DEF Init, Fates
<1> QED  BY <1>1, <1>2, <1>3, <1>4, <1>5 DEF Init, TypeInv, TypeOK

LEMMA CallbacksKeepTypes == TypeInv /\ CallbackStep => TypeInv'
<1> SUFFICES ASSUME TypeInv, CallbackStep PROVE TypeInv'
  OBVIOUS
<1> USE DEF TypeInv, TypeOK, InHand, stateVars, queueVars, history
<1>1. ASSUME NEW t \in Topics, onRegisterTopic(t) PROVE TypeInv'
  BY <1>1 DEF onRegisterTopic
<1>2. ASSUME NEW t \in Topics, onDeregisterTopic(t) PROVE TypeInv'
  BY <1>2 DEF onDeregisterTopic
<1>3. ASSUME NEW f \in Flows, NEW t \in Topics, NEW c \in Callbacks,
             onSubscriptionValidation(f, t, c) PROVE TypeInv'
  BY <1>3 DEF onSubscriptionValidation, Verifying
<1>4. ASSUME NEW f \in Flows, NEW t \in Topics, NEW c \in Callbacks,
             onUnsubscriptionValidation(f, t, c) PROVE TypeInv'
  BY <1>4 DEF onUnsubscriptionValidation, Verifying
<1>5. ASSUME NEW f \in Flows, onSubscriptionVerified(f) PROVE TypeInv'
  <2> DEFINE t == flow[f].topic
             c == flow[f].callback
             v == nextVersion + 1
  <2>1. flow[f] \in Verifying
    BY <1>5 DEF onSubscriptionVerified
  <2>2. t \in Topics /\ c \in Callbacks
    BY <2>1 DEF Verifying
  <2>3. /\ v \in 1..MaxVersion
        /\ nextVersion' = v /\ subs' = [subs EXCEPT ![t][c] = v] /\ flow' = [flow EXCEPT ![f] = None]
        /\ UNCHANGED <<topics, lapsed, publishing, queueVars, dispatcher, deliverer, closed,
                       cancelled, closer, history>>
    BY <1>5 DEF onSubscriptionVerified
  <2> HIDE DEF t, c, v
  <2>4. v \in 0..MaxVersion /\ nextVersion' \in 0..MaxVersion
    BY <2>3
  <2>5. subs' \in [Topics -> [Callbacks -> 0..MaxVersion]]
    BY <2>2, <2>3, <2>4
  <2>6. flow' \in [Flows -> Verifying \cup {None}]
    BY <2>3
  <2> QED  BY <2>3, <2>4, <2>5, <2>6
<1>6. ASSUME NEW f \in Flows, onUnsubscriptionVerified(f) PROVE TypeInv'
  BY <1>6 DEF onUnsubscriptionVerified, Verifying
<1>7. ASSUME NEW f \in Flows, FlowEndsWithoutEffect(f) PROVE TypeInv'
  BY <1>7 DEF FlowEndsWithoutEffect
<1>8. ASSUME NEW v \in 1..MaxVersion, LeaseEnds(v) PROVE TypeInv'
  BY <1>8 DEF LeaseEnds
<1>9. ASSUME NEW p \in Publishers, UpdateQueued(p) PROVE TypeInv'
  <2> DEFINE n == accepted + 1
             u == [id |-> n, topic |-> publishing[p]]
  <2>1. /\ n \in UpdateIds /\ n \in 0..MaxUpdates
        /\ publishing[p] \in Topics /\ Len(updates) < UpdateQueue
    BY <1>9 DEF UpdateQueued, UpdateIds
  <2>2. u \in Update
    BY <2>1 DEF Update
  <2>3. /\ accepted' = n /\ updates' = Append(updates, u)
        /\ fate' = [fate EXCEPT ![n] = "queued"] /\ publishing' = [publishing EXCEPT ![p] = None]
        /\ UNCHANGED <<stateVars, flow, deliveries, dispatcher, deliverer, closed, cancelled,
                       closer, due, attempted, gone>>
    BY <1>9 DEF UpdateQueued
  <2> HIDE DEF n, u
  <2>4. updates' \in Seq(Update) /\ Len(updates') <= UpdateQueue
    BY <2>1, <2>2, <2>3
  <2>5. fate' \in [UpdateIds -> Fates]
    BY <2>1, <2>3 DEF Fates
  <2>6. publishing' \in [Publishers -> Topics \cup {None}] /\ accepted' \in 0..MaxUpdates
    BY <2>1, <2>3
  <2> QED  BY <2>3, <2>4, <2>5, <2>6
<1>10. ASSUME NEW p \in Publishers, UpdateRefused(p) PROVE TypeInv'
  BY <1>10 DEF UpdateRefused
<1>11. ASSUME NEW p \in Publishers, NEW t \in Topics, UpdateTopicFound(p, t) PROVE TypeInv'
  BY <1>11 DEF UpdateTopicFound
<1> QED
  BY <1>1, <1>2, <1>3, <1>4, <1>5, <1>6, <1>7, <1>8, <1>9, <1>10, <1>11 DEF CallbackStep

LEMMA DispatcherKeepsTypes == TypeInv /\ DispatcherStep => TypeInv'
<1> SUFFICES ASSUME TypeInv, DispatcherStep PROVE TypeInv'
  OBVIOUS
<1> USE DEF TypeInv, TypeOK, InHand, stateVars, queueVars, history, Dispatching
<1>1. CASE ReceiveUpdate
  <2>1. /\ updates \in Seq(Update) /\ updates # <<>>
        /\ dispatcher' = [step |-> "content", update |-> Head(updates), left |-> {}]
        /\ updates' = Tail(updates)
        /\ UNCHANGED <<stateVars, flow, publishing, accepted, deliveries, deliverer, closed,
                       cancelled, closer, history>>
    BY <1>1 DEF ReceiveUpdate
  <2>2. Head(updates) \in Update /\ Tail(updates) \in Seq(Update)
        /\ Len(Tail(updates)) <= UpdateQueue
    BY <2>1
  <2> DEFINE u == Head(updates)
  <2> HIDE DEF u
  <2>3. /\ dispatcher' \in [step : {"receive", "content", "snapshot", "send", "exited"},
                            update : Update \cup {None},
                            left : SUBSET (Callbacks \X (1..MaxVersion))]
        /\ dispatcher'.update \in Update
    BY <2>1, <2>2
  <2> QED  BY <2>1, <2>2, <2>3
<1>2. CASE ContentAvailable
  BY <1>2 DEF ContentAvailable
<1>3. CASE ContentUnavailable
  BY <1>3 DEF ContentUnavailable, Update, UpdateIds, Fates
<1>4. CASE SnapshotSubscribers
  <2> DEFINE t == dispatcher.update.topic
             i == dispatcher.update.id
             pairs == {<<c, subs[t][c]>> : c \in Active(t)}
  <2>1. t \in Topics /\ i \in UpdateIds /\ dispatcher.update \in Update
    BY <1>4 DEF SnapshotSubscribers, Update
  <2>2. \A c \in Active(t) : c \in Callbacks /\ subs[t][c] \in 1..MaxVersion
    BY <2>1 DEF Active
  <2>3. pairs \in SUBSET (Callbacks \X (1..MaxVersion))
    BY <2>2
  <2>4. subs' \in [Topics -> [Callbacks -> 0..MaxVersion]]
    BY <1>4, <2>1 DEF SnapshotSubscribers
  <2>5. /\ due' = [due EXCEPT ![i] = pairs]
        /\ dispatcher' = [step |-> "send", update |-> dispatcher.update, left |-> pairs]
    BY <1>4 DEF SnapshotSubscribers
  <2> HIDE DEF pairs, i, t
  <2>6. due' \in [UpdateIds -> SUBSET (Callbacks \X (1..MaxVersion))]
    BY <2>1, <2>3, <2>5
  <2> QED  BY <1>4, <2>1, <2>3, <2>4, <2>5, <2>6 DEF SnapshotSubscribers
<1>5. ASSUME NEW pair \in dispatcher.left, SendDelivery(pair) PROVE TypeInv'
  <2>1. pair[1] \in Callbacks /\ pair[2] \in 1..MaxVersion
    BY <1>5
  <2>2. dispatcher.update.id \in UpdateIds /\ dispatcher.update.topic \in Topics
    BY <1>5 DEF SendDelivery, Update
  <2>3. [id |-> dispatcher.update.id, topic |-> dispatcher.update.topic,
         callback |-> pair[1], version |-> pair[2]] \in Job
    BY <2>1, <2>2 DEF Job
  <2>4. /\ deliveries' \in Seq(Job) /\ Len(deliveries') <= DeliveryQueue
    BY <1>5, <2>3 DEF SendDelivery
  <2>5. /\ dispatcher'.step = dispatcher.step /\ dispatcher'.update = dispatcher.update
        /\ dispatcher' \in [step : {"receive", "content", "snapshot", "send", "exited"},
                            update : Update \cup {None},
                            left : SUBSET (Callbacks \X (1..MaxVersion))]
    BY <1>5 DEF SendDelivery
  <2> QED  BY <1>5, <2>4, <2>5 DEF SendDelivery
<1>6. CASE UpdateDispatched
  BY <1>6 DEF UpdateDispatched, Update, UpdateIds, Fates
<1>7. CASE DispatchCancelled
  BY <1>7 DEF DispatchCancelled, Update, UpdateIds, Fates
<1>8. CASE DispatchEnds
  BY <1>8 DEF DispatchEnds
<1> QED
  BY <1>1, <1>2, <1>3, <1>4, <1>5, <1>6, <1>7, <1>8 DEF DispatcherStep

LEMMA DeliverersKeepTypes ==
    ASSUME TypeInv, NEW d \in Deliverers, DelivererStep(d)
    PROVE  TypeInv'
<1> USE DEF TypeInv, TypeOK, InHand, stateVars, queueVars, history, Delivering
<1>1. CASE ReceiveDelivery(d)
  <2>1. /\ deliveries \in Seq(Job) /\ deliveries # <<>>
        /\ deliverer' = [deliverer EXCEPT ![d] = [step |-> "deliver", job |-> Head(deliveries)]]
        /\ deliveries' = Tail(deliveries)
        /\ UNCHANGED <<stateVars, flow, publishing, updates, accepted, dispatcher, closed,
                       cancelled, closer, history>>
    BY <1>1 DEF ReceiveDelivery
  <2>2. /\ Head(deliveries) \in Job /\ Tail(deliveries) \in Seq(Job)
        /\ Len(Tail(deliveries)) <= DeliveryQueue
    BY <2>1
  <2>3. /\ deliverer' \in [Deliverers -> [step : {"receive", "deliver", "remove", "exited"},
                                         job : Job \cup {None}]]
        /\ \A e \in Deliverers : deliverer'[e].step \in {"deliver", "remove"} => deliverer'[e].job \in Job
    BY <2>1, <2>2
  <2> QED  BY <2>1, <2>2, <2>3
<1>2. CASE DeliveryDone(d)
  BY <1>2 DEF DeliveryDone, Attempt, Job
<1>3. CASE DeliveryGone(d)
  <2>1. deliverer[d].job \in Job
    BY <1>3 DEF DeliveryGone
  <2> DEFINE j == deliverer[d].job
  <2>2. j.id \in UpdateIds /\ j.callback \in Callbacks /\ j.version \in 1..MaxVersion
    BY <2>1 DEF Job
  <2>3. attempted' = attempted \cup {<<j.id, j.callback, j.version>>} /\ gone' = gone \cup {j.version}
    BY <1>3 DEF DeliveryGone, Attempt
  <2>4. gone' \subseteq 1..MaxVersion
    BY <2>2, <2>3
  <2>5. <<j.id, j.callback, j.version>> \in UpdateIds \X Callbacks \X (1..MaxVersion)
    BY <2>2
  <2>6. attempted' \subseteq UpdateIds \X Callbacks \X (1..MaxVersion)
    BY <2>3, <2>5
  <2>7. /\ deliverer' \in [Deliverers -> [step : {"receive", "deliver", "remove", "exited"},
                                         job : Job \cup {None}]]
        /\ \A e \in Deliverers : deliverer'[e].step \in {"deliver", "remove"} => deliverer'[e].job \in Job
    BY <1>3, <2>1 DEF DeliveryGone
  <2> QED  BY <1>3, <2>4, <2>6, <2>7 DEF DeliveryGone
<1>4. CASE removeSubscription(d)
  BY <1>4 DEF removeSubscription, Job
<1>5. CASE DelivererEnds(d)
  BY <1>5 DEF DelivererEnds
<1> QED  BY <1>1, <1>2, <1>3, <1>4, <1>5 DEF DelivererStep

LEMMA ClosersKeepTypes ==
    ASSUME TypeInv, NEW k \in Closers, CloserStep(k)
    PROVE  TypeInv'
BY DEF TypeInv, TypeOK, InHand, stateVars, queueVars, history, CloserStep, CloseCalled, CloseReturns

LEMMA TypesKept == TypeInv /\ [Next]_vars => TypeInv'
<1>1. TypeInv /\ UNCHANGED vars => TypeInv'
  BY DEF vars, stateVars, queueVars, history, TypeInv, TypeOK, InHand
<1> QED
  BY <1>1, CallbacksKeepTypes, DispatcherKeepsTypes, DeliverersKeepTypes, ClosersKeepTypes DEF Next

LEMMA TypesHold == Spec => []TypeInv
BY TypesHoldInitially, TypesKept, PTL DEF Spec

\* The state of the hub, its queues and goroutines keep their types: no queue
\* grows beyond its capacity.
THEOREM HubTypes == Spec => []TypeOK
<1>1. TypeInv => TypeOK
  BY DEF TypeInv
<1> QED  BY <1>1, TypesHold, PTL

-----------------------------------------------------------------------------
(* Subscriptions                                                           *)

\* The steps that change what is stored.
LEMMA WhoChangesSubscriptions ==
    ASSUME Next
    PROVE  \/ UNCHANGED <<topics, subs>>
           \/ \E t \in Topics : onRegisterTopic(t) \/ onDeregisterTopic(t)
           \/ \E f \in Flows : onSubscriptionVerified(f) \/ onUnsubscriptionVerified(f)
           \/ SnapshotSubscribers
           \/ \E d \in Deliverers : removeSubscription(d)
<1> USE DEF stateVars
<1>1. CASE CallbackStep
  BY <1>1 DEF CallbackStep, onSubscriptionValidation, onUnsubscriptionValidation,
              FlowEndsWithoutEffect, LeaseEnds, UpdateQueued, UpdateRefused, UpdateTopicFound
<1>2. CASE DispatcherStep
  BY <1>2 DEF DispatcherStep, ReceiveUpdate, ContentAvailable, ContentUnavailable, SendDelivery,
              UpdateDispatched, DispatchCancelled, DispatchEnds
<1>3. ASSUME NEW d \in Deliverers, DelivererStep(d)
      PROVE  UNCHANGED <<topics, subs>> \/ removeSubscription(d)
  BY <1>3 DEF DelivererStep, ReceiveDelivery, DeliveryDone, DeliveryGone, DelivererEnds
<1>4. ASSUME NEW k \in Closers, CloserStep(k) PROVE UNCHANGED <<topics, subs>>
  BY <1>4 DEF CloserStep, CloseCalled, CloseReturns
<1> QED  BY <1>1, <1>2, <1>3, <1>4 DEF Next

LEMMA TopicsKept ==
    TypeInv /\ SubscriptionsHaveTopics /\ [Next]_vars => SubscriptionsHaveTopics'
<1> SUFFICES ASSUME TypeInv, SubscriptionsHaveTopics, [Next]_vars
             PROVE  SubscriptionsHaveTopics'
  OBVIOUS
<1> USE DEF SubscriptionsHaveTopics, Stored
<1>0. /\ subs \in [Topics -> [Callbacks -> 0..MaxVersion]]
      /\ flow \in [Flows -> Verifying \cup {None}]
  BY DEF TypeInv, TypeOK
<1>1. CASE UNCHANGED <<topics, subs>>
  BY <1>1
<1>2. ASSUME NEW t \in Topics, onRegisterTopic(t) PROVE SubscriptionsHaveTopics'
  BY <1>2 DEF onRegisterTopic
<1>3. ASSUME NEW t \in Topics, onDeregisterTopic(t) PROVE SubscriptionsHaveTopics'
  BY <1>0, <1>3 DEF onDeregisterTopic
<1>4. ASSUME NEW f \in Flows, onSubscriptionVerified(f) PROVE SubscriptionsHaveTopics'
  BY <1>0, <1>4 DEF onSubscriptionVerified, Verifying
<1>5. ASSUME NEW f \in Flows, onUnsubscriptionVerified(f) PROVE SubscriptionsHaveTopics'
  BY <1>0, <1>5 DEF onUnsubscriptionVerified, Verifying
<1>6. CASE SnapshotSubscribers
  <2>1. dispatcher.update.topic \in Topics
    BY <1>6 DEF SnapshotSubscribers, TypeInv, InHand, Update
  <2> QED  BY <1>0, <1>6, <2>1 DEF SnapshotSubscribers, Active
<1>7. ASSUME NEW d \in Deliverers, removeSubscription(d) PROVE SubscriptionsHaveTopics'
  <2>1. deliverer[d].job.topic \in Topics /\ deliverer[d].job.callback \in Callbacks
    BY <1>7 DEF removeSubscription, TypeInv, InHand, Job
  <2> QED  BY <1>0, <1>7, <2>1 DEF removeSubscription
<1>8. UNCHANGED vars => UNCHANGED <<topics, subs>>
  BY DEF vars, stateVars
<1> QED
  BY <1>1, <1>2, <1>3, <1>4, <1>5, <1>6, <1>7, <1>8, WhoChangesSubscriptions

\* Whatever is verified, removed and deregistered in whatever order, what is stored
\* belongs to a registered topic (onSubscriptionVerified looks again under mu).
THEOREM TopicsOfSubscriptions == Spec => []SubscriptionsHaveTopics
<1>1. Init => SubscriptionsHaveTopics
  BY DEF Init, SubscriptionsHaveTopics, Stored
<1> QED  BY <1>1, TypesHold, TopicsKept, PTL DEF Spec

\* A worker that is about to remove a subscription got a 410 for that version.
GoneInv == \A d \in Deliverers : deliverer[d].step = "remove" => deliverer[d].job.version \in gone

LEMMA GoneKept == TypeInv /\ GoneInv /\ [Next]_vars => GoneInv'
<1> SUFFICES ASSUME TypeInv, GoneInv, [Next]_vars PROVE GoneInv'
  OBVIOUS
<1> USE DEF GoneInv, history
<1>0. deliverer \in [Deliverers -> [step : {"receive", "deliver", "remove", "exited"},
                                    job : Job \cup {None}]]
  BY DEF TypeInv, TypeOK
<1>1. UNCHANGED <<deliverer, gone>> => GoneInv'
  OBVIOUS
<1>2. CASE CallbackStep
  BY <1>1, <1>2 DEF CallbackStep, onRegisterTopic, onDeregisterTopic,
       onSubscriptionValidation, onUnsubscriptionValidation, onSubscriptionVerified,
       onUnsubscriptionVerified, FlowEndsWithoutEffect, LeaseEnds, UpdateQueued, UpdateRefused,
       UpdateTopicFound
<1>3. CASE DispatcherStep
  BY <1>1, <1>3 DEF DispatcherStep, ReceiveUpdate, ContentAvailable, ContentUnavailable,
       SnapshotSubscribers, SendDelivery, UpdateDispatched, DispatchCancelled, DispatchEnds
<1>4. ASSUME NEW d \in Deliverers, DelivererStep(d) PROVE GoneInv'
  BY <1>0, <1>4 DEF DelivererStep, ReceiveDelivery, DeliveryDone, DeliveryGone, removeSubscription,
       DelivererEnds, Delivering
<1>5. ASSUME NEW k \in Closers, CloserStep(k) PROVE GoneInv'
  BY <1>1, <1>5 DEF CloserStep, CloseCalled, CloseReturns
<1>6. UNCHANGED vars => UNCHANGED <<deliverer, gone>>
  BY DEF vars
<1> QED  BY <1>1, <1>2, <1>3, <1>4, <1>5, <1>6 DEF Next

\* One step's worth of RemovalIsJustified.
Justified ==
    \A t \in Topics, c \in Callbacks :
        LET v == subs[t][c] IN
        (v # 0 /\ subs'[t][c] = 0) =>
           \/ v \in lapsed
           \/ v \in gone
           \/ t \in topics /\ t \notin topics'
           \/ \E f \in Flows :
                /\ flow[f] = [mode |-> "unsubscribe", topic |-> t, callback |-> c]
                /\ flow'[f] = None

LEMMA StepsAreJustified ==
    TypeInv /\ SubscriptionsHaveTopics /\ GoneInv /\ Next => Justified
<1> SUFFICES ASSUME TypeInv, SubscriptionsHaveTopics, GoneInv, Next,
                    NEW t \in Topics, NEW c \in Callbacks,
                    subs[t][c] # 0, subs'[t][c] = 0
             PROVE  \/ subs[t][c] \in lapsed
                    \/ subs[t][c] \in gone
                    \/ t \in topics /\ t \notin topics'
                    \/ \E f \in Flows :
                         /\ flow[f] = [mode |-> "unsubscribe", topic |-> t, callback |-> c]
                         /\ flow'[f] = None
  BY DEF Justified
<1>0. /\ subs \in [Topics -> [Callbacks -> 0..MaxVersion]]
      /\ flow \in [Flows -> Verifying \cup {None}]
      /\ nextVersion \in Nat /\ t \in topics
  BY DEF TypeInv, TypeOK, SubscriptionsHaveTopics, Stored
<1>1. ~UNCHANGED <<topics, subs>>
  OBVIOUS
<1>2. ASSUME NEW s \in Topics, onRegisterTopic(s) PROVE FALSE
  BY <1>2 DEF onRegisterTopic
<1>3. ASSUME NEW s \in Topics, onDeregisterTopic(s) PROVE t \in topics /\ t \notin topics'
  BY <1>0, <1>3 DEF onDeregisterTopic
<1>4. ASSUME NEW f \in Flows, onSubscriptionVerified(f) PROVE FALSE
  BY <1>0, <1>4 DEF onSubscriptionVerified, Verifying
<1>5. ASSUME NEW f \in Flows, onUnsubscriptionVerified(f)
      PROVE  /\ flow[f] = [mode |-> "unsubscribe", topic |-> t, callback |-> c]
             /\ flow'[f] = None
  BY <1>0, <1>5 DEF onUnsubscriptionVerified, Verifying
<1>6. CASE SnapshotSubscribers
  <2>1. dispatcher.update.topic \in Topics
    BY <1>6 DEF SnapshotSubscribers, TypeInv, InHand, Update
  <2> QED  BY <1>0, <1>6, <2>1 DEF SnapshotSubscribers, Active
<1>7. ASSUME NEW d \in Deliverers, removeSubscription(d) PROVE subs[t][c] \in gone
  <2>1. deliverer[d].job.topic \in Topics /\ deliverer[d].job.callback \in Callbacks
    BY <1>7 DEF removeSubscription, TypeInv, InHand, Job
  <2>2. deliverer[d].job.version \in gone
    BY <1>7 DEF removeSubscription, GoneInv
  <2> QED  BY <1>0, <1>7, <2>1, <2>2 DEF removeSubscription
<1> QED
  BY <1>1, <1>2, <1>3, <1>4, <1>5, <1>6, <1>7, WhoChangesSubscriptions

\* A subscription disappears for a reason of its own: a 410 to a delivery made before
\* a renewal does not undo the renewal (removeSubscription compares versions).
THEOREM RemovalsAreJustified == Spec => RemovalIsJustified
<1>1. Init => GoneInv /\ SubscriptionsHaveTopics
  BY DEF Init, GoneInv, SubscriptionsHaveTopics, Stored
<1>2. Spec => [](TypeInv /\ SubscriptionsHaveTopics /\ GoneInv)
  BY <1>1, TypesHold, TopicsKept, GoneKept, PTL DEF Spec
<1>3. TypeInv /\ SubscriptionsHaveTopics /\ GoneInv /\ [Next]_vars => [Justified]_vars
  BY StepsAreJustified
<1>4. Spec => [][Justified]_vars
  BY <1>2, <1>3, PTL DEF Spec
<1> QED  BY <1>4 DEF RemovalIsJustified, Justified

-----------------------------------------------------------------------------
(* Closed channels                                                         *)

\* Nobody sends on updates once Close closed it, nor on deliveries once the
\* dispatcher did: neither send can panic (onUpdateMessage checks under queueMu).
THEOREM NoSendOnClosedChannel == Spec => NoSendAfterClose
<1> DEFINE Quiet ==
      /\ closed => Len(updates') <= Len(updates) /\ accepted' = accepted
      /\ dispatcher.step = "exited" => Len(deliveries') <= Len(deliveries)
<1>1. ASSUME TypeInv, Next PROVE Quiet
  <2> USE DEF queueVars
  <2>0. /\ updates \in Seq(Update) /\ deliveries \in Seq(Job)
        /\ Len(updates) \in Nat /\ Len(deliveries) \in Nat
    <3>1. updates \in Seq(Update) /\ deliveries \in Seq(Job)
      BY <1>1 DEF TypeInv, TypeOK
    <3> QED  BY <3>1
  <2>1. UNCHANGED <<updates, accepted, deliveries>> => Quiet
    BY <2>0
  <2>2. CASE CallbackStep
    <3>1. CASE \E p \in Publishers : UpdateQueued(p)
      BY <2>0, <3>1 DEF UpdateQueued
    <3>2. CASE ~\E p \in Publishers : UpdateQueued(p)
      BY <2>1, <2>2, <3>2 DEF CallbackStep, onRegisterTopic, onDeregisterTopic,
           onSubscriptionValidation, onUnsubscriptionValidation, onSubscriptionVerified,
           onUnsubscriptionVerified, FlowEndsWithoutEffect, LeaseEnds, UpdateRefused,
           UpdateTopicFound
    <3> QED  BY <3>1, <3>2
  <2>3. CASE DispatcherStep
    <3>1. CASE ReceiveUpdate
      <4>1. Len(Tail(updates)) <= Len(updates)
        BY <2>0, <3>1 DEF ReceiveUpdate
      <4> QED  BY <2>0, <3>1, <4>1 DEF ReceiveUpdate
    <3>2. ASSUME NEW pair \in dispatcher.left, SendDelivery(pair) PROVE Quiet
      BY <2>0, <3>2 DEF SendDelivery
    <3> QED
      BY <2>1, <2>3, <3>1, <3>2 DEF DispatcherStep, ContentAvailable, ContentUnavailable,
         SnapshotSubscribers, UpdateDispatched, DispatchCancelled, DispatchEnds
  <2>4. ASSUME NEW d \in Deliverers, DelivererStep(d) PROVE Quiet
    <3>1. CASE ReceiveDelivery(d)
      BY <2>0, <3>1 DEF ReceiveDelivery
    <3> QED
      BY <2>1, <2>4, <3>1 DEF DelivererStep, DeliveryDone, DeliveryGone, removeSubscription,
         DelivererEnds
  <2>5. ASSUME NEW k \in Closers, CloserStep(k) PROVE Quiet
    BY <2>1, <2>5 DEF CloserStep, CloseCalled, CloseReturns
  <2> QED  BY <1>1, <2>2, <2>3, <2>4, <2>5 DEF Next
<1>2. TypeInv /\ [Next]_vars => [Quiet]_vars
  BY <1>1
<1>3. Spec => [][Quiet]_vars
  BY <1>2, TypesHold, PTL DEF Spec
<1> QED  BY <1>3 DEF NoSendAfterClose

-----------------------------------------------------------------------------
(* Updates                                                                 *)

Busy == dispatcher.step \in {"content", "snapshot", "send"}
Current == dispatcher.update.id
SendingTo(i) == dispatcher.step = "send" /\ Current = i

\* An update is in one place: the queue, or the dispatcher's hands.
AcceptInv ==
    /\ \A m, n \in DOMAIN updates : updates[m].id = updates[n].id => m = n
    /\ \A n \in DOMAIN updates : updates[n].id \in 1..accepted /\ fate[updates[n].id] = "queued"
    /\ Busy => /\ Current \in 1..accepted
               /\ fate[Current] = "queued"
               /\ \A n \in DOMAIN updates : updates[n].id # Current
    /\ \A i \in UpdateIds : i > accepted => fate[i] = "none"

\* Subscriptions are due an update only once it was dispatched.
DueInv ==
    /\ \A i \in UpdateIds : due[i] # {} => fate[i] \in {"dispatched", "cancelled"} \/ SendingTo(i)
    /\ dispatcher.step = "send" => dispatcher.left \subseteq due[Current]

UpdateInv == AcceptInv /\ DueInv

\* The steps that move updates and deliveries.
LEMMA WhoMovesWork ==
    ASSUME Next
    PROVE  \/ UNCHANGED <<queueVars, dispatcher, deliverer, fate, due, attempted>>
           \/ \E p \in Publishers : UpdateQueued(p)
           \/ DispatcherStep
           \/ \E d \in Deliverers : DelivererStep(d)
<1> USE DEF history
<1>1. CASE CallbackStep
  BY <1>1 DEF CallbackStep, onRegisterTopic, onDeregisterTopic, onSubscriptionValidation,
       onUnsubscriptionValidation, onSubscriptionVerified, onUnsubscriptionVerified,
       FlowEndsWithoutEffect, LeaseEnds, UpdateRefused, UpdateTopicFound
<1>2. ASSUME NEW k \in Closers, CloserStep(k)
      PROVE  UNCHANGED <<queueVars, dispatcher, deliverer, fate, due, attempted>>
  BY <1>2 DEF CloserStep, CloseCalled, CloseReturns
<1> QED  BY <1>1, <1>2 DEF Next

LEMMA UpdatesTyped ==
    ASSUME TypeInv
    PROVE  /\ updates \in Seq(Update) /\ accepted \in 0..MaxUpdates
           /\ fate \in [UpdateIds -> Fates]
           /\ due \in [UpdateIds -> SUBSET (Callbacks \X (1..MaxVersion))]
           /\ dispatcher \in [step : {"receive", "content", "snapshot", "send", "exited"},
                              update : Update \cup {None},
                              left : SUBSET (Callbacks \X (1..MaxVersion))]
           /\ Busy => dispatcher.update \in Update /\ Current \in UpdateIds
BY DEF TypeInv, TypeOK, InHand, Busy, Current, Update

LEMMA UpdateQueuedKeepsUpdates ==
    ASSUME TypeInv, UpdateInv, NEW p \in Publishers, UpdateQueued(p)
    PROVE  UpdateInv'
<1> DEFINE u == [id |-> accepted + 1, topic |-> publishing[p]]
<1>0. /\ updates \in Seq(Update) /\ accepted \in 0..MaxUpdates /\ fate \in [UpdateIds -> Fates]
      /\ accepted + 1 \in UpdateIds
  BY UpdatesTyped DEF UpdateQueued, UpdateIds
<1>1. /\ updates' = Append(updates, u) /\ accepted' = accepted + 1
      /\ fate' = [fate EXCEPT ![accepted + 1] = "queued"]
      /\ UNCHANGED <<dispatcher, due>>
  BY DEF UpdateQueued
<1>2. /\ DOMAIN updates = 1..Len(updates) /\ DOMAIN updates' = 1..(Len(updates) + 1)
      /\ \A n \in DOMAIN updates : updates'[n] = updates[n]
      /\ updates'[Len(updates) + 1].id = accepted + 1 /\ Len(updates) \in Nat
  BY <1>0, <1>1
<1> HIDE DEF u
<1>3. \A n \in DOMAIN updates : updates[n].id \in 1..accepted /\ fate[updates[n].id] = "queued"
  BY DEF UpdateInv, AcceptInv
<1>4. \A m, n \in DOMAIN updates' : updates'[m].id = updates'[n].id => m = n
  BY <1>0, <1>2, <1>3 DEF UpdateInv, AcceptInv
<1>5. \A n \in DOMAIN updates' : updates'[n].id \in 1..accepted' /\ fate'[updates'[n].id] = "queued"
  BY <1>0, <1>1, <1>2, <1>3 DEF UpdateIds
<1>6. Busy' => /\ Current' \in 1..accepted'
               /\ fate'[Current'] = "queued"
               /\ \A n \in DOMAIN updates' : updates'[n].id # Current'
  BY <1>0, <1>1, <1>2 DEF UpdateInv, AcceptInv, Busy, Current, UpdateIds
<1>7. \A i \in UpdateIds : i > accepted' => fate'[i] = "none"
  BY <1>0, <1>1 DEF UpdateInv, AcceptInv, UpdateIds
<1>8. DueInv'
  <2>1. fate[accepted + 1] = "none"
    BY <1>0 DEF UpdateInv, AcceptInv, UpdateIds
  <2>2. ~SendingTo(accepted + 1)
    BY <1>0 DEF UpdateInv, AcceptInv, Busy, SendingTo
  <2> QED  BY <1>0, <1>1, <2>1, <2>2 DEF UpdateInv, DueInv, SendingTo, Current
<1> QED  BY <1>4, <1>5, <1>6, <1>7, <1>8 DEF UpdateInv, AcceptInv

LEMMA DispatcherKeepsUpdates ==
    ASSUME TypeInv, UpdateInv, DispatcherStep
    PROVE  UpdateInv'
<1>0. /\ updates \in Seq(Update) /\ accepted \in 0..MaxUpdates /\ fate \in [UpdateIds -> Fates]
      /\ due \in [UpdateIds -> SUBSET (Callbacks \X (1..MaxVersion))]
      /\ dispatcher \in [step : {"receive", "content", "snapshot", "send", "exited"},
                         update : Update \cup {None},
                         left : SUBSET (Callbacks \X (1..MaxVersion))]
      /\ Busy => dispatcher.update \in Update /\ Current \in UpdateIds
  BY UpdatesTyped
<1> USE DEF UpdateInv, AcceptInv, DueInv, Busy, Current, SendingTo, Dispatching
<1>1. CASE ReceiveUpdate
  <2>1. /\ updates # <<>> /\ updates' = Tail(updates)
        /\ dispatcher' = [step |-> "content", update |-> updates[1], left |-> {}]
        /\ dispatcher.step = "receive"
        /\ UNCHANGED <<accepted, fate, due>>
    BY <1>0, <1>1 DEF ReceiveUpdate, queueVars, history
  <2>2. /\ Len(updates) \in Nat \ {0} /\ DOMAIN updates = 1..Len(updates)
        /\ DOMAIN updates' = 1..(Len(updates) - 1)
        /\ \A n \in DOMAIN updates' : updates'[n] = updates[n + 1] /\ n + 1 \in DOMAIN updates
    BY <1>0, <2>1
  <2>3. 1 \in DOMAIN updates /\ \A n \in DOMAIN updates' : n + 1 # 1
    BY <2>2
  <2>4. AcceptInv'
    <3>1. \A m, n \in DOMAIN updates' : updates'[m].id = updates'[n].id => m = n
      BY <2>2
    <3>2. \A n \in DOMAIN updates' : updates'[n].id # Current'
      BY <2>1, <2>2, <2>3
    <3> QED  BY <2>1, <2>2, <2>3, <3>1, <3>2
  <2>5. DueInv'
    BY <2>1
  <2> QED  BY <2>4, <2>5
<1>2. CASE ContentAvailable
  BY <1>0, <1>2 DEF ContentAvailable, queueVars, history
<1>3. CASE ContentUnavailable
  BY <1>0, <1>3 DEF ContentUnavailable, queueVars, history, UpdateIds
<1>4. CASE SnapshotSubscribers
  <2>1. \E pairs : /\ due' = [due EXCEPT ![Current] = pairs]
                   /\ dispatcher' = [step |-> "send", update |-> dispatcher.update, left |-> pairs]
    BY <1>4 DEF SnapshotSubscribers
  <2>2. dispatcher.step = "snapshot" /\ UNCHANGED <<updates, accepted, fate>>
    BY <1>4 DEF SnapshotSubscribers, queueVars
  <2> QED  BY <1>0, <2>1, <2>2
<1>5. ASSUME NEW pair \in dispatcher.left, SendDelivery(pair) PROVE UpdateInv'
  <2>1. /\ dispatcher'.step = dispatcher.step /\ dispatcher'.update = dispatcher.update
        /\ dispatcher'.left \subseteq dispatcher.left
        /\ UNCHANGED <<updates, accepted, fate, due>>
    BY <1>0, <1>5 DEF SendDelivery, history
  <2> QED  BY <1>0, <2>1
<1>6. CASE UpdateDispatched
  <2>1. /\ dispatcher.step = "send" /\ dispatcher'.step = "receive"
        /\ fate' = [fate EXCEPT ![Current] = "dispatched"]
        /\ UNCHANGED <<updates, accepted, due>>
    BY <1>6 DEF UpdateDispatched, queueVars
  <2>2. Current \in UpdateIds /\ Current \in 1..accepted /\ \A n \in DOMAIN updates : updates[n].id # Current
    BY <1>0, <2>1
  <2>3. AcceptInv'
    BY <1>0, <2>1, <2>2
  <2>4. DueInv'
    BY <1>0, <2>1, <2>2
  <2> QED  BY <2>3, <2>4
<1>7. CASE DispatchCancelled
  BY <1>0, <1>7 DEF DispatchCancelled, queueVars, UpdateIds
<1>8. CASE DispatchEnds
  BY <1>0, <1>8 DEF DispatchEnds, queueVars, history
<1> QED  BY <1>1, <1>2, <1>3, <1>4, <1>5, <1>6, <1>7, <1>8 DEF DispatcherStep

LEMMA UpdatesKept == TypeInv /\ UpdateInv /\ [Next]_vars => UpdateInv'
<1> SUFFICES ASSUME TypeInv, UpdateInv, [Next]_vars PROVE UpdateInv'
  OBVIOUS
<1>1. ASSUME UNCHANGED <<updates, accepted, dispatcher, fate, due>> PROVE UpdateInv'
  BY <1>1 DEF UpdateInv, AcceptInv, DueInv, Busy, Current, SendingTo
<1>2. ASSUME NEW d \in Deliverers, DelivererStep(d) PROVE UpdateInv'
  BY <1>1, <1>2 DEF DelivererStep, ReceiveDelivery, DeliveryDone, DeliveryGone,
       removeSubscription, DelivererEnds, queueVars, history
<1> QED
  BY <1>1, <1>2, UpdateQueuedKeepsUpdates, DispatcherKeepsUpdates, WhoMovesWork
     DEF vars, queueVars, history
-----------------------------------------------------------------------------
(* Delivery jobs                                                           *)

Trying == {d \in Deliverers : deliverer[d].step = "deliver"}
Triples == UpdateIds \X Callbacks \X (1..MaxVersion)

\* The deliveries the dispatcher is through with: the update was due at that
\* version of the subscription, and the copy is not still to be sent.
SentTo == {x \in Triples : /\ <<x[2], x[3]>> \in due[x[1]]
                           /\ SendingTo(x[1]) => <<x[2], x[3]>> \notin dispatcher.left}

\* What was sent is in one place: the queue, a worker, or among the attempts.
JobInv ==
    /\ \A m \in DOMAIN deliveries : Triple(deliveries[m]) \in SentTo \ attempted
    /\ \A d \in Trying : Triple(deliverer[d].job) \in SentTo \ attempted
    /\ attempted \subseteq SentTo
    /\ \A m, n \in DOMAIN deliveries : Triple(deliveries[m]) = Triple(deliveries[n]) => m = n
    /\ \A d, e \in Trying : Triple(deliverer[d].job) = Triple(deliverer[e].job) => d = e
    /\ \A m \in DOMAIN deliveries, d \in Trying : Triple(deliveries[m]) # Triple(deliverer[d].job)

\* What was sent stays sent.
LEMMA SentStays ==
    ASSUME TypeInv, UpdateInv, DispatcherStep
    PROVE  SentTo \subseteq SentTo'
<1>0. /\ due \in [UpdateIds -> SUBSET (Callbacks \X (1..MaxVersion))]
      /\ dispatcher \in [step : {"receive", "content", "snapshot", "send", "exited"},
                         update : Update \cup {None},
                         left : SUBSET (Callbacks \X (1..MaxVersion))]
      /\ Busy => dispatcher.update \in Update /\ Current \in UpdateIds
  BY UpdatesTyped
<1> SUFFICES ASSUME NEW x \in SentTo PROVE x \in SentTo'
  OBVIOUS
<1>x. /\ x \in Triples /\ <<x[2], x[3]>> \in due[x[1]] /\ x[1] \in UpdateIds
      /\ SendingTo(x[1]) => <<x[2], x[3]>> \notin dispatcher.left
  BY DEF SentTo, Triples
<1>y. ASSUME <<x[2], x[3]>> \in due'[x[1]],
             dispatcher'.step = "send" /\ dispatcher'.update.id = x[1]
                => <<x[2], x[3]>> \notin dispatcher'.left
      PROVE  x \in SentTo'
  BY <1>x, <1>y DEF SentTo, SendingTo, Current, Triples, UpdateIds
<1> USE DEF SendingTo, Current, Dispatching, history
<1>1. ASSUME dispatcher'.step # "send", UNCHANGED due PROVE x \in SentTo'
  BY <1>1, <1>x, <1>y
<1>2. CASE SnapshotSubscribers
  <2>1. due[Current] = {}
    BY <1>0, <1>2 DEF SnapshotSubscribers, UpdateInv, AcceptInv, DueInv, Busy
  <2>2. x[1] # Current
    BY <2>1, <1>x
  <2>3. dispatcher'.update = dispatcher.update
    BY <1>2 DEF SnapshotSubscribers
  <2>4. due'[x[1]] = due[x[1]]
    BY <1>0, <1>2, <2>2 DEF SnapshotSubscribers
  <2> QED  BY <1>x, <1>y, <2>2, <2>3, <2>4
<1>3. ASSUME NEW pair \in dispatcher.left, SendDelivery(pair) PROVE x \in SentTo'
  <2>1. /\ dispatcher'.step = dispatcher.step /\ dispatcher'.update = dispatcher.update
        /\ dispatcher'.left = dispatcher.left \ {pair} /\ due' = due
    BY <1>0, <1>3 DEF SendDelivery
  <2> QED  BY <1>x, <1>y, <2>1
<1>4. CASE ReceiveUpdate \/ ContentAvailable \/ ContentUnavailable \/ UpdateDispatched
             \/ DispatchCancelled \/ DispatchEnds
  BY <1>1, <1>4 DEF ReceiveUpdate, ContentAvailable, ContentUnavailable, UpdateDispatched,
     DispatchCancelled, DispatchEnds
<1> QED  BY <1>2, <1>3, <1>4 DEF DispatcherStep

\* A copy that is sent was not sent before.
LEMMA SentOnce ==
    ASSUME TypeInv, UpdateInv, NEW pair \in dispatcher.left, SendDelivery(pair)
    PROVE  <<Current, pair[1], pair[2]>> \in SentTo' \ SentTo
<1>1. /\ dispatcher.step = "send" /\ Current \in UpdateIds
      /\ pair[1] \in Callbacks /\ pair[2] \in 1..MaxVersion /\ pair = <<pair[1], pair[2]>>
  BY UpdatesTyped DEF SendDelivery, Busy
<1>2. /\ due' = due /\ dispatcher'.step = "send" /\ dispatcher'.update = dispatcher.update
      /\ dispatcher'.left = dispatcher.left \ {pair}
  BY UpdatesTyped DEF SendDelivery, history
<1>3. pair \in due[Current]
  BY <1>1 DEF UpdateInv, DueInv
<1> DEFINE x == <<Current, pair[1], pair[2]>>
<1>4. x \in Triples /\ x[1] = Current /\ <<x[2], x[3]>> = pair
  BY <1>1 DEF Triples
<1> HIDE DEF x
<1>5. x \notin SentTo
  BY <1>1, <1>4 DEF SentTo, SendingTo
<1>6. x \in SentTo'
  BY <1>1, <1>2, <1>3, <1>4 DEF SentTo, SendingTo, Current, Triples, UpdateIds
<1> QED  BY <1>5, <1>6 DEF x

LEMMA DispatcherKeepsJobs ==
    ASSUME TypeInv, UpdateInv, JobInv, DispatcherStep
    PROVE  JobInv'
<1>0. deliveries \in Seq(Job)
  BY DEF TypeInv, TypeOK
<1>1. SentTo \subseteq SentTo'
  BY SentStays
<1>2. deliverer' = deliverer /\ attempted' = attempted
  BY DEF DispatcherStep, ReceiveUpdate, ContentAvailable, ContentUnavailable, SnapshotSubscribers,
     SendDelivery, UpdateDispatched, DispatchCancelled, DispatchEnds, history
<1>3. Trying' = Trying
  BY <1>2 DEF Trying
<1>4. CASE UNCHANGED deliveries
  BY <1>1, <1>2, <1>3, <1>4 DEF JobInv, Triple
<1>5. ASSUME NEW pair \in dispatcher.left, SendDelivery(pair) PROVE JobInv'
  <2> DEFINE r == [id |-> Current, topic |-> dispatcher.update.topic,
                   callback |-> pair[1], version |-> pair[2]]
  <2>1. Triple(r) \in SentTo' \ SentTo
    BY <1>5, SentOnce DEF Triple
  <2>2. deliveries' = Append(deliveries, r)
    BY <1>5 DEF SendDelivery, Current
  <2> HIDE DEF r
  <2>3. /\ Len(deliveries) \in Nat /\ DOMAIN deliveries = 1..Len(deliveries)
        /\ DOMAIN deliveries' = DOMAIN deliveries \cup {Len(deliveries) + 1}
        /\ \A n \in DOMAIN deliveries : deliveries'[n] = deliveries[n]
        /\ deliveries'[Len(deliveries) + 1] = r
    BY <1>0, <2>2
  <2>4. \A m \in DOMAIN deliveries' : Triple(deliveries'[m]) \in SentTo' \ attempted'
    BY <1>1, <1>2, <2>1, <2>3 DEF JobInv
  <2>5. \A d \in Trying' : Triple(deliverer'[d].job) \in SentTo' \ attempted'
    BY <1>1, <1>2, <1>3 DEF JobInv
  <2>6. attempted' \subseteq SentTo'
    BY <1>1, <1>2 DEF JobInv
  <2>7. \A m, n \in DOMAIN deliveries' : Triple(deliveries'[m]) = Triple(deliveries'[n]) => m = n
    BY <2>1, <2>3 DEF JobInv
  <2>8. \A d, e \in Trying' : Triple(deliverer'[d].job) = Triple(deliverer'[e].job) => d = e
    BY <1>2, <1>3 DEF JobInv
  <2>9. \A m \in DOMAIN deliveries', d \in Trying' : Triple(deliveries'[m]) # Triple(deliverer'[d].job)
    BY <1>2, <1>3, <2>1, <2>3 DEF JobInv
  <2> QED  BY <2>4, <2>5, <2>6, <2>7, <2>8, <2>9 DEF JobInv, Triple
<1> QED
  BY <1>4, <1>5 DEF DispatcherStep, ReceiveUpdate, ContentAvailable, ContentUnavailable,
     SnapshotSubscribers, UpdateDispatched, DispatchCancelled, DispatchEnds, queueVars

LEMMA DelivererKeepsJobs ==
    ASSUME TypeInv, JobInv, NEW d \in Deliverers, DelivererStep(d)
    PROVE  JobInv'
<1>0. /\ deliveries \in Seq(Job)
      /\ deliverer \in [Deliverers -> [step : {"receive", "deliver", "remove", "exited"},
                                       job : Job \cup {None}]]
  BY DEF TypeInv, TypeOK
<1>1. due' = due /\ dispatcher' = dispatcher
  BY DEF DelivererStep, ReceiveDelivery, DeliveryDone, DeliveryGone, removeSubscription,
     DelivererEnds, history
<1>2. SentTo' = SentTo
  BY <1>1 DEF SentTo, SendingTo, Current
<1>3. CASE ReceiveDelivery(d)
  <2>1. /\ deliverer[d].step = "receive" /\ deliveries # <<>> /\ deliveries' = Tail(deliveries)
        /\ deliverer' = [deliverer EXCEPT ![d] = [step |-> "deliver", job |-> deliveries[1]]]
        /\ attempted' = attempted
    BY <1>0, <1>3 DEF ReceiveDelivery, Delivering, history
  <2>2. /\ DOMAIN deliveries' = 1..(Len(deliveries) - 1)
        /\ \A n \in DOMAIN deliveries' : deliveries'[n] = deliveries[n + 1] /\ n + 1 \in DOMAIN deliveries
    BY <1>0, <2>1
  <2>3. 1 \in DOMAIN deliveries /\ \A n \in DOMAIN deliveries' : n \in Nat /\ n + 1 # 1
    BY <1>0, <2>1, <2>2
  <2>4. /\ Trying' = Trying \cup {d} /\ d \notin Trying
        /\ deliverer'[d].job = deliveries[1]
        /\ \A e \in Trying : deliverer'[e] = deliverer[e]
    BY <1>0, <2>1 DEF Trying
  <2>5. \A m \in DOMAIN deliveries' : Triple(deliveries'[m]) \in SentTo' \ attempted'
    BY <1>2, <2>1, <2>2 DEF JobInv
  <2>6. \A e \in Trying' : Triple(deliverer'[e].job) \in SentTo' \ attempted'
    BY <1>2, <2>1, <2>3, <2>4 DEF JobInv
  <2>7. attempted' \subseteq SentTo'
    BY <1>2, <2>1 DEF JobInv
  <2>8. \A m, n \in DOMAIN deliveries' : Triple(deliveries'[m]) = Triple(deliveries'[n]) => m = n
    <3>1. ASSUME NEW m \in DOMAIN deliveries', NEW n \in DOMAIN deliveries',
                 Triple(deliveries'[m]) = Triple(deliveries'[n])
          PROVE  m = n
      <4>1. m + 1 = n + 1
        BY <2>2, <3>1 DEF JobInv
      <4> QED  BY <2>3, <4>1
    <3> QED  BY <3>1
  <2>9. \A e, f \in Trying' : Triple(deliverer'[e].job) = Triple(deliverer'[f].job) => e = f
    BY <2>3, <2>4 DEF JobInv
  <2>10. \A m \in DOMAIN deliveries', e \in Trying' : Triple(deliveries'[m]) # Triple(deliverer'[e].job)
    <3>1. ASSUME NEW m \in DOMAIN deliveries' PROVE Triple(deliveries'[m]) # Triple(deliveries[1])
      BY <2>2, <2>3, <3>1 DEF JobInv
    <3>2. ASSUME NEW m \in DOMAIN deliveries', NEW e \in Trying
          PROVE  Triple(deliveries'[m]) # Triple(deliverer[e].job)
      BY <2>2, <3>2 DEF JobInv
    <3> QED  BY <2>4, <3>1, <3>2
  <2> QED  BY <2>5, <2>6, <2>7, <2>8, <2>9, <2>10 DEF JobInv, Triple
<1>4. CASE DeliveryDone(d) \/ DeliveryGone(d)
  <2>1. /\ d \in Trying /\ deliveries' = deliveries
        /\ attempted' = attempted \cup {Triple(deliverer[d].job)}
        /\ deliverer'[d].step # "deliver"
        /\ \A e \in Deliverers \ {d} : deliverer'[e] = deliverer[e]
    BY <1>0, <1>4 DEF DeliveryDone, DeliveryGone, Attempt, Delivering, Trying, queueVars, Triple
  <2>2. Trying' = Trying \ {d} /\ \A e \in Trying' : deliverer'[e] = deliverer[e]
    BY <2>1 DEF Trying
  <2>3. \A m \in DOMAIN deliveries' : Triple(deliveries'[m]) \in SentTo' \ attempted'
    BY <1>2, <2>1 DEF JobInv
  <2>4. \A e \in Trying' : Triple(deliverer'[e].job) \in SentTo' \ attempted'
    BY <1>2, <2>1, <2>2 DEF JobInv
  <2>5. attempted' \subseteq SentTo'
    BY <1>2, <2>1 DEF JobInv
  <2>6. /\ \A m, n \in DOMAIN deliveries' : Triple(deliveries'[m]) = Triple(deliveries'[n]) => m = n
        /\ \A e, f \in Trying' : Triple(deliverer'[e].job) = Triple(deliverer'[f].job) => e = f
        /\ \A m \in DOMAIN deliveries', e \in Trying' : Triple(deliveries'[m]) # Triple(deliverer'[e].job)
    BY <2>1, <2>2 DEF JobInv
  <2> QED  BY <2>3, <2>4, <2>5, <2>6 DEF JobInv, Triple
<1>5. CASE removeSubscription(d) \/ DelivererEnds(d)
  <2>1. /\ deliveries' = deliveries /\ attempted' = attempted /\ d \notin Trying
        /\ deliverer'[d].step # "deliver"
        /\ \A e \in Deliverers \ {d} : deliverer'[e] = deliverer[e]
    BY <1>0, <1>5 DEF removeSubscription, DelivererEnds, Delivering, Trying, queueVars, history
  <2>2. Trying' = Trying /\ \A e \in Trying : deliverer'[e] = deliverer[e]
    BY <2>1 DEF Trying
  <2> QED  BY <1>2, <2>1, <2>2 DEF JobInv, Triple
<1> QED  BY <1>3, <1>4, <1>5 DEF DelivererStep

LEMMA JobsKept == TypeInv /\ UpdateInv /\ JobInv /\ [Next]_vars => JobInv'
<1> SUFFICES ASSUME TypeInv, UpdateInv, JobInv, [Next]_vars PROVE JobInv'
  OBVIOUS
<1>1. ASSUME UNCHANGED <<deliveries, deliverer, attempted, dispatcher, due>> PROVE JobInv'
  BY <1>1 DEF JobInv, SentTo, SendingTo, Current, Trying, Triple
<1>2. ASSUME NEW p \in Publishers, UpdateQueued(p) PROVE JobInv'
  BY <1>1, <1>2 DEF UpdateQueued
<1> QED
  BY <1>1, <1>2, DispatcherKeepsJobs, DelivererKeepsJobs, WhoMovesWork
     DEF vars, queueVars, history

LEMMA WorkHolds == Spec => [](TypeInv /\ UpdateInv /\ JobInv)
<1>1. Init => UpdateInv
  BY DEF Init, UpdateInv, AcceptInv, DueInv, Busy, SendingTo, Dispatching
<1>2. ASSUME Init PROVE JobInv
  <2>1. Trying = {} /\ deliveries = <<>> /\ attempted = {}
    BY <1>2 DEF Init, Trying
  <2> QED  BY <2>1 DEF JobInv
<1> QED  BY <1>1, <1>2, TypesHold, UpdatesKept, JobsKept, PTL DEF Spec

\* An accepted update reaches a subscription at most once, and only one that it was
\* due to when it was dispatched: for any queues, workers and subscribers.
THEOREM AtMostOnce == Spec => []DeliveredAtMostOnce
<1>1. ASSUME TypeInv, JobInv PROVE DeliveredAtMostOnce
  <2>1. \A x \in SentTo : <<x[2], x[3]>> \in due[x[1]]
    BY DEF SentTo
  <2>2. ASSUME NEW a \in JobsAt
        PROVE  \/ \E m \in DOMAIN deliveries : a = [place |-> <<"queue", m>>, job |-> deliveries[m]]
               \/ \E d \in Trying : a = [place |-> <<"worker", d>>, job |-> deliverer[d].job]
    BY <2>2 DEF JobsAt, Trying
  <2>3. ASSUME NEW a \in JobsAt, NEW b \in JobsAt, Triple(a.job) = Triple(b.job)
        PROVE  a.place = b.place
    BY <1>1, <2>2, <2>3 DEF JobInv
  <2>4. ASSUME NEW a \in JobsAt
        PROVE  Triple(a.job) \notin attempted /\ <<a.job.callback, a.job.version>> \in due[a.job.id]
    <3>1. Triple(a.job) \in SentTo \ attempted
      BY <1>1, <2>2 DEF JobInv
    <3> QED  BY <2>1, <3>1 DEF Triple
  <2>5. ASSUME NEW x \in attempted PROVE <<x[2], x[3]>> \in due[x[1]]
    BY <1>1, <2>1, <2>5 DEF JobInv
  <2> QED  BY <2>3, <2>4, <2>5 DEF DeliveredAtMostOnce
<1> QED  BY <1>1, WorkHolds, PTL

-----------------------------------------------------------------------------
(* Close                                                                   *)

\* Some Close ran out of time.
Late == \E k \in Closers : closer[k] = "expired"

\* What became of the updates that were accepted.
FateInv ==
    /\ \A i \in 1..accepted : fate[i] # "none"
    /\ \A i \in UpdateIds : fate[i] = "queued" =>
         (\E n \in DOMAIN updates : updates[n].id = i) \/ (Busy /\ Current = i)
    /\ \A i \in UpdateIds : fate[i] = "cancelled" => Late

\* The goroutines end one after the other, unless a Close gave up on them.
EndInv ==
    /\ dispatcher.step = "exited" => Late \/ (closed /\ updates = <<>>)
    /\ \A d \in Deliverers :
         deliverer[d].step = "exited" => dispatcher.step = "exited" /\ deliveries = <<>>
    /\ cancelled => Done \/ Late

\* The steps that Close depends on.
LEMMA WhoEndsWork ==
    ASSUME Next
    PROVE  \/ UNCHANGED <<queueVars, dispatcher, deliverer, fate, due, attempted, closed, cancelled, closer>>
           \/ \E p \in Publishers : UpdateQueued(p)
           \/ DispatcherStep
           \/ \E d \in Deliverers : DelivererStep(d)
           \/ \E k \in Closers : CloserStep(k)
<1> DEFINE Same == UNCHANGED <<queueVars, dispatcher, deliverer, fate, due, attempted, closed,
                               cancelled, closer>>
<1>1. ASSUME NEW t \in Topics, onRegisterTopic(t) \/ onDeregisterTopic(t) PROVE Same
  BY <1>1 DEF onRegisterTopic, onDeregisterTopic, history
<1>2. ASSUME NEW f \in Flows, NEW t \in Topics, NEW c \in Callbacks,
             onSubscriptionValidation(f, t, c) \/ onUnsubscriptionValidation(f, t, c)
      PROVE  Same
  BY <1>2 DEF onSubscriptionValidation, onUnsubscriptionValidation, history
<1>3. ASSUME NEW f \in Flows,
             \/ onSubscriptionVerified(f) \/ onUnsubscriptionVerified(f)
             \/ FlowEndsWithoutEffect(f)
      PROVE  Same
  BY <1>3 DEF onSubscriptionVerified, onUnsubscriptionVerified, FlowEndsWithoutEffect, history
<1>4. ASSUME NEW v \in 1..MaxVersion, LeaseEnds(v) PROVE Same
  BY <1>4 DEF LeaseEnds, history
<1>5. ASSUME NEW p \in Publishers, UpdateRefused(p) PROVE Same
  BY <1>5 DEF UpdateRefused, history
<1>6. ASSUME NEW p \in Publishers, NEW t \in Topics, UpdateTopicFound(p, t) PROVE Same
  BY <1>6 DEF UpdateTopicFound, history
<1> HIDE DEF Same
<1>7. CallbackStep => Same \/ \E p \in Publishers : UpdateQueued(p)
  BY <1>1, <1>2, <1>3, <1>4, <1>5, <1>6 DEF CallbackStep
<1> QED  BY <1>7 DEF Next, Same

LEMMA UpdateQueuedKeepsFates ==
    ASSUME TypeInv, UpdateInv, FateInv, EndInv, NEW p \in Publishers, UpdateQueued(p)
    PROVE  FateInv' /\ EndInv'
<1> DEFINE u == [id |-> accepted + 1, topic |-> publishing[p]]
<1>0. /\ updates \in Seq(Update) /\ accepted \in 0..MaxUpdates /\ fate \in [UpdateIds -> Fates]
      /\ accepted + 1 \in UpdateIds
  BY UpdatesTyped DEF UpdateQueued, UpdateIds
<1>1. /\ updates' = Append(updates, u) /\ accepted' = accepted + 1
      /\ fate' = [fate EXCEPT ![accepted + 1] = "queued"]
      /\ ~closed
      /\ UNCHANGED <<dispatcher, deliverer, deliveries, closed, cancelled, closer>>
  BY DEF UpdateQueued
<1>2. /\ DOMAIN updates = 1..Len(updates) /\ DOMAIN updates' = 1..(Len(updates) + 1)
      /\ \A n \in DOMAIN updates : updates'[n] = updates[n]
      /\ updates'[Len(updates) + 1].id = accepted + 1 /\ Len(updates) \in Nat
  BY <1>0, <1>1
<1>3. Late' <=> Late
  BY <1>1 DEF Late
<1>4. Done' <=> Done
  BY <1>1 DEF Done
<1> HIDE DEF u
<1>5. \A i \in 1..accepted' : fate'[i] # "none"
  BY <1>0, <1>1 DEF FateInv, UpdateIds
<1>6. ASSUME NEW i \in UpdateIds, fate'[i] = "queued"
      PROVE  (\E n \in DOMAIN updates' : updates'[n].id = i) \/ (Busy' /\ Current' = i)
  <2>1. CASE i = accepted + 1
    BY <1>2, <2>1
  <2>2. CASE i # accepted + 1
    <3>1. fate[i] = "queued"
      BY <1>0, <1>1, <1>6, <2>2
    <3>2. DOMAIN updates \subseteq DOMAIN updates'
      BY <1>2
    <3> QED  BY <1>1, <1>2, <3>1, <3>2 DEF FateInv, Busy, Current
  <2> QED  BY <2>1, <2>2
<1>7. \A i \in UpdateIds : fate'[i] = "cancelled" => Late'
  BY <1>0, <1>1, <1>3 DEF FateInv
<1>8. EndInv'
  BY <1>1, <1>3, <1>4 DEF EndInv
<1> QED  BY <1>5, <1>6, <1>7, <1>8 DEF FateInv

LEMMA DispatcherKeepsFates ==
    ASSUME TypeInv, UpdateInv, FateInv, EndInv, DispatcherStep
    PROVE  FateInv' /\ EndInv'
<1>0. /\ updates \in Seq(Update) /\ accepted \in 0..MaxUpdates /\ fate \in [UpdateIds -> Fates]
      /\ dispatcher \in [step : {"receive", "content", "snapshot", "send", "exited"},
                         update : Update \cup {None},
                         left : SUBSET (Callbacks \X (1..MaxVersion))]
      /\ Busy => dispatcher.update \in Update /\ Current \in UpdateIds
      /\ 1..accepted \subseteq UpdateIds
  BY UpdatesTyped DEF UpdateIds
<1>1. /\ UNCHANGED <<deliverer, closed, cancelled, closer, accepted>>
      /\ dispatcher.step # "exited"
  BY DEF DispatcherStep, ReceiveUpdate, ContentAvailable, ContentUnavailable, SnapshotSubscribers,
     SendDelivery, UpdateDispatched, DispatchCancelled, DispatchEnds, queueVars
<1>2. Late' <=> Late
  BY <1>1 DEF Late
<1>3. ~Done /\ \A d \in Deliverers : deliverer'[d].step # "exited"
  BY <1>1 DEF Done, EndInv
<1>4. cancelled' => Late'
  BY <1>1, <1>2, <1>3 DEF EndInv
<1>5. ASSUME dispatcher'.step = "exited" => Late' \/ (closed' /\ updates' = <<>>) PROVE EndInv'
  BY <1>3, <1>4, <1>5 DEF EndInv
<1> USE DEF Busy, Current, Dispatching
<1>6. CASE ReceiveUpdate
  <2>1. /\ updates # <<>> /\ updates' = Tail(updates)
        /\ dispatcher' = [step |-> "content", update |-> updates[1], left |-> {}]
        /\ dispatcher.step = "receive" /\ fate' = fate
    BY <1>0, <1>6 DEF ReceiveUpdate, history
  <2>2. ASSUME NEW n \in DOMAIN updates
        PROVE  n = 1 \/ (n - 1 \in DOMAIN updates' /\ updates'[n - 1] = updates[n])
    BY <1>0, <2>1
  <2>3. ASSUME NEW i \in UpdateIds, fate'[i] = "queued"
        PROVE  (\E n \in DOMAIN updates' : updates'[n].id = i) \/ (Busy' /\ Current' = i)
    <3>1. PICK n \in DOMAIN updates : updates[n].id = i
      BY <2>1, <2>3 DEF FateInv
    <3> QED  BY <2>1, <2>2, <3>1
  <2> QED  BY <1>1, <1>2, <1>5, <2>1, <2>3 DEF FateInv
<1>7. CASE ContentAvailable
  BY <1>0, <1>1, <1>2, <1>5, <1>7 DEF ContentAvailable, queueVars, history, FateInv
<1>8. CASE ContentUnavailable \/ UpdateDispatched
  <2>1. /\ \E x \in {"unavailable", "dispatched"} : fate' = [fate EXCEPT ![Current] = x]
        /\ dispatcher'.step = "receive" /\ updates' = updates /\ Current \in UpdateIds
    BY <1>0, <1>8 DEF ContentUnavailable, UpdateDispatched, queueVars
  <2>2. \A i \in 1..accepted' : fate'[i] # "none"
    BY <1>0, <1>1, <2>1 DEF FateInv
  <2>3. \A i \in UpdateIds : fate'[i] = "queued" => \E n \in DOMAIN updates' : updates'[n].id = i
    BY <1>0, <2>1 DEF FateInv
  <2>4. \A i \in UpdateIds : fate'[i] = "cancelled" => Late'
    BY <1>0, <1>2, <2>1 DEF FateInv
  <2> QED  BY <1>5, <2>1, <2>2, <2>3, <2>4 DEF FateInv
<1>9. CASE SnapshotSubscribers
  <2>1. /\ dispatcher.step = "snapshot" /\ dispatcher'.step = "send"
        /\ dispatcher'.update = dispatcher.update
        /\ UNCHANGED <<updates, fate>>
    BY <1>9 DEF SnapshotSubscribers, queueVars
  <2> QED  BY <1>0, <1>1, <1>2, <1>5, <2>1 DEF FateInv
<1>10. ASSUME NEW pair \in dispatcher.left, SendDelivery(pair) PROVE FateInv' /\ EndInv'
  <2>1. /\ dispatcher'.step = dispatcher.step /\ dispatcher'.update = dispatcher.update
        /\ UNCHANGED <<updates, fate>>
    BY <1>0, <1>10 DEF SendDelivery, history
  <2> QED  BY <1>0, <1>1, <1>2, <1>5, <2>1 DEF FateInv
<1>11. CASE DispatchCancelled
  <2>1. /\ fate' = [fate EXCEPT ![Current] = "cancelled"] /\ updates' = updates /\ cancelled'
        /\ Current \in UpdateIds
    BY <1>0, <1>1, <1>11 DEF DispatchCancelled, queueVars
  <2>2. \A i \in 1..accepted' : fate'[i] # "none"
    BY <1>0, <1>1, <2>1 DEF FateInv
  <2>3. \A i \in UpdateIds : fate'[i] = "queued" => \E n \in DOMAIN updates' : updates'[n].id = i
    BY <1>0, <2>1 DEF FateInv
  <2> QED  BY <1>4, <1>5, <2>1, <2>2, <2>3 DEF FateInv
<1>12. CASE DispatchEnds
  BY <1>0, <1>1, <1>2, <1>5, <1>12 DEF DispatchEnds, queueVars, history, FateInv
<1> QED
  BY <1>6, <1>7, <1>8, <1>9, <1>10, <1>11, <1>12 DEF DispatcherStep

LEMMA OthersKeepFates ==
    ASSUME TypeInv, FateInv, EndInv,
           (\E d \in Deliverers : DelivererStep(d)) \/ (\E k \in Closers : CloserStep(k))
    PROVE  FateInv' /\ EndInv'
<1>0. /\ deliveries \in Seq(Job)
      /\ deliverer \in [Deliverers -> [step : {"receive", "deliver", "remove", "exited"},
                                       job : Job \cup {None}]]
      /\ closer \in [Closers -> {"idle", "waiting", "nil", "expired"}]
  BY DEF TypeInv, TypeOK
<1>1. ASSUME UNCHANGED <<updates, accepted, fate, dispatcher>>, Late => Late' PROVE FateInv'
  BY <1>1 DEF FateInv, Busy, Current
<1>2. ASSUME NEW d \in Deliverers, DelivererStep(d) PROVE FateInv' /\ EndInv'
  <2>1. UNCHANGED <<updates, accepted, fate, dispatcher, closed, cancelled, closer>>
    BY <1>2 DEF DelivererStep, ReceiveDelivery, DeliveryDone, DeliveryGone, removeSubscription,
       DelivererEnds, queueVars, history
  <2>2. Late' <=> Late
    BY <2>1 DEF Late
  <2>3. ASSUME NEW e \in Deliverers, deliverer'[e].step = "exited"
        PROVE  dispatcher'.step = "exited" /\ deliveries' = <<>>
    <3>1. \A x \in Deliverers \ {d} : deliverer'[x] = deliverer[x]
      BY <1>0, <1>2 DEF DelivererStep, ReceiveDelivery, DeliveryDone, DeliveryGone,
         removeSubscription, DelivererEnds, Delivering
    <3>2. deliveries' = deliveries \/ deliveries # <<>>
      BY <1>2 DEF DelivererStep, ReceiveDelivery, DeliveryDone, DeliveryGone,
         removeSubscription, DelivererEnds, queueVars
    <3>3. CASE e = d
      <4>1. DelivererEnds(d)
        <5>1. ASSUME NEW s, NEW j, s # "exited", Delivering(d, s, j) PROVE FALSE
          <6>1. deliverer'[d] = [step |-> s, job |-> j]
            BY <1>0, <5>1 DEF Delivering
          <6> QED  BY <2>3, <3>3, <5>1, <6>1
        <5>2. ~ReceiveDelivery(d)
          BY <5>1 DEF ReceiveDelivery
        <5>3. ~DeliveryDone(d) /\ ~DeliveryGone(d) /\ ~removeSubscription(d)
          BY <5>1 DEF DeliveryDone, DeliveryGone, removeSubscription
        <5> QED  BY <1>2, <5>2, <5>3 DEF DelivererStep
      <4> QED  BY <4>1 DEF DelivererEnds, queueVars
    <3>4. CASE e # d
      <4>1. dispatcher.step = "exited" /\ deliveries = <<>>
        BY <2>3, <3>1, <3>4 DEF EndInv
      <4> QED  BY <2>1, <3>2, <4>1
    <3> QED  BY <3>3, <3>4
  <2>4. Done => FALSE
    BY <1>2 DEF Done, DelivererStep, ReceiveDelivery, DeliveryDone, DeliveryGone,
       removeSubscription, DelivererEnds
  <2> QED  BY <1>1, <2>1, <2>2, <2>3, <2>4 DEF EndInv
<1>3. ASSUME NEW k \in Closers, CloserStep(k) PROVE FateInv' /\ EndInv'
  <2>1. UNCHANGED <<updates, accepted, fate, dispatcher, deliverer, deliveries>>
    BY <1>3 DEF CloserStep, CloseCalled, CloseReturns, queueVars, history
  <2>2. Late => Late'
    BY <1>0, <1>3 DEF CloserStep, CloseCalled, CloseReturns, Late
  <2>3. Done' <=> Done
    BY <2>1 DEF Done
  <2>4. cancelled' => Done' \/ Late'
    BY <1>0, <1>3, <2>2, <2>3 DEF CloserStep, CloseCalled, CloseReturns, Late, EndInv
  <2>5. closed => closed'
    BY <1>3 DEF CloserStep, CloseCalled, CloseReturns
  <2> QED  BY <1>1, <2>1, <2>2, <2>4, <2>5 DEF EndInv
<1> QED  BY <1>2, <1>3

LEMMA FatesKept ==
    TypeInv /\ UpdateInv /\ FateInv /\ EndInv /\ [Next]_vars => FateInv' /\ EndInv'
<1> SUFFICES ASSUME TypeInv, UpdateInv, FateInv, EndInv, [Next]_vars PROVE FateInv' /\ EndInv'
  OBVIOUS
<1>1. ASSUME UNCHANGED <<queueVars, dispatcher, deliverer, fate, due, attempted, closed, cancelled, closer>>
      PROVE  FateInv' /\ EndInv'
  BY <1>1 DEF FateInv, EndInv, Late, Done, Busy, Current, queueVars
<1>2. UNCHANGED vars =>
        UNCHANGED <<queueVars, dispatcher, deliverer, fate, due, attempted, closed, cancelled, closer>>
  BY DEF vars, history
<1> QED
  BY <1>1, <1>2, UpdateQueuedKeepsFates, DispatcherKeepsFates, OthersKeepFates, WhoEndsWork

InQueue == {Triple(deliveries[m]) : m \in DOMAIN deliveries}
InHands == {Triple(deliverer[d].job) : d \in Trying}

\* Nothing that was sent is lost: it is queued, being tried or tried.
CoverInv == Late \/ SentTo \subseteq attempted \cup InQueue \cup InHands

\* The dispatcher adds to what was sent only the copy it enqueues, as long as it
\* is not cancelled.
LEMMA SentGrows ==
    ASSUME TypeInv, UpdateInv, DispatcherStep, ~DispatchCancelled
    PROVE  \/ SentTo' \subseteq SentTo
           \/ \E pair \in dispatcher.left :
                /\ SendDelivery(pair)
                /\ SentTo' \subseteq SentTo \cup {<<Current, pair[1], pair[2]>>}
<1>0. /\ due \in [UpdateIds -> SUBSET (Callbacks \X (1..MaxVersion))]
      /\ dispatcher \in [step : {"receive", "content", "snapshot", "send", "exited"},
                         update : Update \cup {None},
                         left : SUBSET (Callbacks \X (1..MaxVersion))]
      /\ Busy => dispatcher.update \in Update /\ Current \in UpdateIds
  BY UpdatesTyped
<1>x. ASSUME NEW x \in SentTo'
      PROVE  /\ x \in Triples /\ <<x[2], x[3]>> \in due'[x[1]] /\ x[1] \in UpdateIds
             /\ dispatcher'.step = "send" /\ dispatcher'.update.id = x[1]
                  => <<x[2], x[3]>> \notin dispatcher'.left
  BY <1>x DEF SentTo, Triples, SendingTo, Current, UpdateIds
<1>y. ASSUME NEW x \in Triples, <<x[2], x[3]>> \in due[x[1]],
             SendingTo(x[1]) => <<x[2], x[3]>> \notin dispatcher.left
      PROVE  x \in SentTo
  BY <1>y DEF SentTo
<1> USE DEF SendingTo, Current, Dispatching, history
<1>1. ASSUME dispatcher.step # "send", UNCHANGED due PROVE SentTo' \subseteq SentTo
  BY <1>1, <1>x, <1>y
<1>2. CASE SnapshotSubscribers
  <2> SUFFICES ASSUME NEW x \in SentTo' PROVE x \in SentTo
    OBVIOUS
  <2> DEFINE t == dispatcher.update.topic
             pairs == {<<c, subs[t][c]>> : c \in Active(t)}
  <2>1. /\ due' = [due EXCEPT ![Current] = pairs] /\ dispatcher.step = "snapshot"
        /\ dispatcher' = [step |-> "send", update |-> dispatcher.update, left |-> pairs]
    BY <1>2 DEF SnapshotSubscribers
  <2> HIDE DEF pairs
  <2>2. Current \in UpdateIds /\ due'[Current] = pairs
    BY <1>0, <2>1 DEF Busy
  <2>3. x[1] # Current
    BY <1>x, <2>1, <2>2
  <2> QED  BY <1>0, <1>x, <1>y, <2>1, <2>3
<1>3. ASSUME NEW pair \in dispatcher.left, SendDelivery(pair)
      PROVE  SentTo' \subseteq SentTo \cup {<<Current, pair[1], pair[2]>>}
  <2>1. /\ dispatcher.step = "send" /\ dispatcher'.step = "send"
        /\ dispatcher'.update = dispatcher.update
        /\ dispatcher'.left = dispatcher.left \ {pair} /\ due' = due
    BY <1>0, <1>3 DEF SendDelivery
  <2> SUFFICES ASSUME NEW x \in SentTo', x \notin SentTo PROVE x = <<Current, pair[1], pair[2]>>
    OBVIOUS
  <2>2. x \in Triples /\ x[1] = Current /\ <<x[2], x[3]>> = pair
    BY <1>x, <1>y, <2>1
  <2> QED  BY <2>2 DEF Triples
<1>4. CASE UpdateDispatched
  <2>1. dispatcher.left = {} /\ due' = due
    BY <1>4 DEF UpdateDispatched
  <2> QED  BY <1>x, <1>y, <2>1
<1>5. CASE ReceiveUpdate \/ ContentAvailable \/ ContentUnavailable \/ DispatchEnds
  BY <1>1, <1>5 DEF ReceiveUpdate, ContentAvailable, ContentUnavailable, DispatchEnds
<1> QED  BY <1>2, <1>3, <1>4, <1>5 DEF DispatcherStep

LEMMA DispatcherKeepsCover ==
    ASSUME TypeInv, UpdateInv, EndInv, CoverInv, DispatcherStep
    PROVE  CoverInv'
<1>0. deliveries \in Seq(Job)
  BY DEF TypeInv, TypeOK
<1>1. UNCHANGED <<deliverer, attempted, closer, cancelled>> /\ dispatcher.step # "exited"
  BY DEF DispatcherStep, ReceiveUpdate, ContentAvailable, ContentUnavailable, SnapshotSubscribers,
     SendDelivery, UpdateDispatched, DispatchCancelled, DispatchEnds, history
<1>2. (Late' <=> Late) /\ InHands' = InHands
  BY <1>1 DEF Late, InHands, Trying, Triple
<1>3. CASE DispatchCancelled
  <2>1. Late
    BY <1>1, <1>3 DEF DispatchCancelled, EndInv, Done
  <2> QED  BY <1>2, <2>1 DEF CoverInv
<1>4. CASE ~DispatchCancelled /\ SentTo' \subseteq SentTo
  <2>1. InQueue \subseteq InQueue'
    <3>1. CASE UNCHANGED deliveries
      BY <3>1 DEF InQueue, Triple
    <3>2. ASSUME NEW pair \in dispatcher.left, SendDelivery(pair) PROVE FALSE
      BY <1>4, <3>2, SentOnce
    <3> QED
      BY <3>1, <3>2 DEF DispatcherStep, ReceiveUpdate, ContentAvailable, ContentUnavailable,
         SnapshotSubscribers, UpdateDispatched, DispatchCancelled, DispatchEnds, queueVars
  <2> QED  BY <1>1, <1>2, <1>4, <2>1 DEF CoverInv
<1>5. ASSUME NEW pair \in dispatcher.left, SendDelivery(pair),
             SentTo' \subseteq SentTo \cup {<<Current, pair[1], pair[2]>>}
      PROVE  CoverInv'
  <2> DEFINE r == [id |-> Current, topic |-> dispatcher.update.topic,
                   callback |-> pair[1], version |-> pair[2]]
  <2>1. /\ deliveries' = Append(deliveries, r)
        /\ Triple(r) = <<Current, pair[1], pair[2]>>
    BY <1>5 DEF SendDelivery, Current, Triple
  <2> HIDE DEF r
  <2>2. /\ Len(deliveries) + 1 \in DOMAIN deliveries' /\ deliveries'[Len(deliveries) + 1] = r
        /\ \A n \in DOMAIN deliveries : n \in DOMAIN deliveries' /\ deliveries'[n] = deliveries[n]
    BY <1>0, <2>1
  <2>3. InQueue' = {Triple(deliveries'[m]) : m \in DOMAIN deliveries'}
    BY DEF InQueue, Triple
  <2>4. InQueue \cup {Triple(r)} \subseteq InQueue'
    BY <2>2, <2>3 DEF InQueue
  <2> QED  BY <1>1, <1>2, <1>5, <2>1, <2>4 DEF CoverInv
<1> QED  BY <1>3, <1>4, <1>5, SentGrows

LEMMA DelivererKeepsCover ==
    ASSUME TypeInv, CoverInv, NEW d \in Deliverers, DelivererStep(d)
    PROVE  CoverInv'
<1>0. /\ deliveries \in Seq(Job)
      /\ deliverer \in [Deliverers -> [step : {"receive", "deliver", "remove", "exited"},
                                       job : Job \cup {None}]]
  BY DEF TypeInv, TypeOK
<1>1. due' = due /\ dispatcher' = dispatcher /\ closer' = closer /\ attempted \subseteq attempted'
  BY DEF DelivererStep, ReceiveDelivery, DeliveryDone, DeliveryGone, removeSubscription,
     DelivererEnds, Attempt, history
<1>2. SentTo' = SentTo /\ (Late' <=> Late)
  BY <1>1 DEF SentTo, SendingTo, Current, Late
<1>3. /\ InQueue' = {Triple(deliveries'[m]) : m \in DOMAIN deliveries'}
      /\ InHands' = {Triple(deliverer'[e].job) : e \in Trying'}
  BY DEF InQueue, InHands, Triple
<1>4. \A e \in Deliverers \ {d} : deliverer'[e] = deliverer[e]
  BY <1>0 DEF DelivererStep, ReceiveDelivery, DeliveryDone, DeliveryGone, removeSubscription,
     DelivererEnds, Delivering
<1>5. \A e \in Trying \ {d} : e \in Trying' /\ deliverer'[e].job = deliverer[e].job
  BY <1>4 DEF Trying
<1>6. CASE ReceiveDelivery(d)
  <2>1. /\ deliverer[d].step = "receive" /\ deliveries # <<>> /\ deliveries' = Tail(deliveries)
        /\ deliverer' = [deliverer EXCEPT ![d] = [step |-> "deliver", job |-> deliveries[1]]]
    BY <1>0, <1>6 DEF ReceiveDelivery, Delivering
  <2>2. \A n \in DOMAIN deliveries :
          n = 1 \/ (n - 1 \in DOMAIN deliveries' /\ deliveries'[n - 1] = deliveries[n])
    BY <1>0, <2>1
  <2>3. d \notin Trying /\ d \in Trying' /\ deliverer'[d].job = deliveries[1]
    BY <1>0, <2>1 DEF Trying
  <2>4. InHands \subseteq InHands'
    BY <1>3, <1>5, <2>3 DEF InHands
  <2>5. InQueue \subseteq InQueue' \cup InHands'
    <3>1. ASSUME NEW n \in DOMAIN deliveries PROVE Triple(deliveries[n]) \in InQueue' \cup InHands'
      <4>1. CASE n = 1
        BY <1>3, <2>3, <4>1
      <4>2. CASE n # 1
        BY <1>3, <2>2, <4>2
      <4> QED  BY <4>1, <4>2
    <3> QED  BY <3>1 DEF InQueue
  <2> QED  BY <1>1, <1>2, <2>4, <2>5 DEF CoverInv
<1>7. CASE DeliveryDone(d) \/ DeliveryGone(d)
  <2>1. /\ deliveries' = deliveries /\ attempted' = attempted \cup {Triple(deliverer[d].job)}
    BY <1>7 DEF DeliveryDone, DeliveryGone, Attempt, queueVars, Triple
  <2>2. InQueue' = InQueue
    BY <1>3, <2>1 DEF InQueue
  <2>3. InHands \subseteq InHands' \cup attempted'
    BY <1>3, <1>5, <2>1 DEF InHands
  <2> QED  BY <1>1, <1>2, <2>2, <2>3 DEF CoverInv
<1>8. CASE removeSubscription(d) \/ DelivererEnds(d)
  <2>1. deliveries' = deliveries /\ d \notin Trying
    BY <1>8 DEF removeSubscription, DelivererEnds, Trying, queueVars
  <2>2. InQueue' = InQueue
    BY <1>3, <2>1 DEF InQueue
  <2>3. InHands \subseteq InHands'
    BY <1>3, <1>5, <2>1 DEF InHands
  <2> QED  BY <1>1, <1>2, <2>2, <2>3 DEF CoverInv
<1> QED  BY <1>6, <1>7, <1>8 DEF DelivererStep

LEMMA CoverKept == TypeInv /\ UpdateInv /\ EndInv /\ CoverInv /\ [Next]_vars => CoverInv'
<1> SUFFICES ASSUME TypeInv, UpdateInv, EndInv, CoverInv, [Next]_vars PROVE CoverInv'
  OBVIOUS
<1>1. ASSUME UNCHANGED <<deliveries, dispatcher, deliverer, due, attempted>>, Late => Late'
      PROVE  CoverInv'
  BY <1>1 DEF CoverInv, SentTo, SendingTo, Current, InQueue, InHands, Trying, Triple
<1>2. ASSUME UNCHANGED closer PROVE Late' <=> Late
  BY <1>2 DEF Late
<1>3. ASSUME NEW p \in Publishers, UpdateQueued(p) PROVE CoverInv'
  BY <1>1, <1>2, <1>3 DEF UpdateQueued
<1>4. ASSUME NEW k \in Closers, CloserStep(k) PROVE CoverInv'
  <2>1. closer \in [Closers -> {"idle", "waiting", "nil", "expired"}]
    BY DEF TypeInv, TypeOK
  <2>2. Late => Late'
    BY <1>4, <2>1 DEF CloserStep, CloseCalled, CloseReturns, Late
  <2> QED  BY <1>1, <1>4, <2>2 DEF CloserStep, CloseCalled, CloseReturns, queueVars, history
<1> QED
  BY <1>1, <1>2, <1>3, <1>4, DispatcherKeepsCover, DelivererKeepsCover, WhoEndsWork
     DEF vars, queueVars, history

LEMMA EndHolds == Spec => [](TypeInv /\ FateInv /\ EndInv /\ CoverInv)
<1>1. ASSUME Init PROVE FateInv /\ EndInv /\ CoverInv
  <2>1. FateInv /\ EndInv
    BY <1>1 DEF Init, FateInv, EndInv, Dispatching
  <2>2. SentTo = {}
    BY <1>1 DEF Init, SentTo, Triples
  <2> QED  BY <2>1, <2>2 DEF CoverInv
<1> QED  BY <1>1, WorkHolds, FatesKept, CoverKept, PTL DEF Spec

\* When every Close that returned did so in time, nothing accepted was lost: each
\* update was offered to every subscription it was due at (Close drains both queues).
THEOREM GracefulCloses == Spec => []GracefulCloseDelivers
<1>1. ASSUME TypeInv, FateInv, EndInv, CoverInv PROVE GracefulCloseDelivers
  <2> SUFFICES ASSUME Done, ~Late, NEW i \in 1..accepted
               PROVE  /\ fate[i] \in {"dispatched", "unavailable"}
                      /\ \A pair \in due[i] : <<i, pair[1], pair[2]>> \in attempted
    BY DEF GracefulCloseDelivers, Late
  <2>1. /\ dispatcher.step = "exited" /\ updates = <<>>
        /\ \A d \in Deliverers : deliverer[d].step = "exited"
    BY <1>1 DEF Done, EndInv
  <2>2. deliveries = <<>>
    BY <1>1, <2>1, DeliverersAssumption DEF EndInv
  <2>3. i \in UpdateIds /\ fate[i] \in Fates /\ due[i] \subseteq Callbacks \X (1..MaxVersion)
    BY <1>1, UpdatesTyped DEF UpdateIds
  <2>4. fate[i] \notin {"none", "queued", "cancelled"}
    BY <1>1, <2>1, <2>3 DEF FateInv, Busy
  <2>5. ASSUME NEW pair \in due[i] PROVE <<i, pair[1], pair[2]>> \in attempted
    <3> DEFINE x == <<i, pair[1], pair[2]>>
    <3>1. x \in Triples /\ x[1] = i /\ <<x[2], x[3]>> = pair
      BY <2>3, <2>5 DEF Triples
    <3> HIDE DEF x
    <3>2. x \in SentTo
      BY <2>1, <2>5, <3>1 DEF SentTo, SendingTo
    <3>3. InQueue = {} /\ InHands = {}
      BY <2>1, <2>2 DEF InQueue, InHands, Trying
    <3>4. x \in attempted
      BY <1>1, <3>2, <3>3 DEF CoverInv
    <3> QED  BY <3>4 DEF x
  <2> QED  BY <2>3, <2>4, <2>5 DEF Fates
<1> QED  BY <1>1, EndHolds, PTL

-----------------------------------------------------------------------------
(* What CloseCompletes rests on besides fairness                           *)

\* While there is anything to do, and after Close while a goroutine is left, one of
\* the hub's goroutines can go on: neither queue can stop both its ends.
THEOREM HubNeverBlocks == Spec => []GoroutinesNeverBlock
<1>1. ASSUME TypeInv, EndInv PROVE GoroutinesNeverBlock
  <2> SUFFICES ASSUME ~Done,
                      closed \/ updates # <<>> \/ deliveries # <<>> \/ dispatcher.step # "receive",
                      ~DispatcherCanMove
               PROVE  \E d \in Deliverers : DelivererCanMove(d)
    BY DEF GoroutinesNeverBlock
  <2>1. /\ dispatcher.step \in {"receive", "content", "snapshot", "send", "exited"}
        /\ \A d \in Deliverers : deliverer[d].step \in {"receive", "deliver", "remove", "exited"}
        /\ Len(deliveries) \in Nat /\ deliveries \in Seq(Job)
    BY <1>1 DEF TypeInv, TypeOK
  <2>2. CASE dispatcher.step = "exited"
    <3>1. PICK d \in Deliverers : deliverer[d].step # "exited"
      BY <2>2 DEF Done
    <3> QED  BY <2>1, <2>2, <3>1 DEF DelivererCanMove
  <2>3. CASE dispatcher.step # "exited"
    <3>1. deliveries # <<>>
      <4>1. CASE dispatcher.step = "receive"
        BY <4>1 DEF DispatcherCanMove
      <4>2. CASE dispatcher.step = "send"
        <5>1. ~(Len(deliveries) < DeliveryQueue)
          BY <4>2 DEF DispatcherCanMove
        <5>2. Len(deliveries) # 0
          BY <2>1, <5>1
        <5> QED  BY <5>2
      <4> QED  BY <2>1, <2>3, <4>1, <4>2 DEF DispatcherCanMove
    <3>2. PICK d \in Deliverers : TRUE
      BY DeliverersAssumption
    <3>3. deliverer[d].step # "exited"
      BY <1>1, <2>3 DEF EndInv
    <3> QED  BY <2>1, <3>1, <3>3 DEF DelivererCanMove
  <2> QED  BY <2>2, <2>3
<1> QED  BY <1>1, EndHolds, PTL

\* After Close a step of the dispatcher leaves less to do.
LEMMA DispatcherShrinksWork ==
    ASSUME TypeInv, DispatcherStep
    PROVE  LessIsLeft
<1> USE DEF Dispatching, queueVars
<1>1. DispatcherStepsLeft("content") = 4 /\ DispatcherStepsLeft("snapshot") = 3
      /\ DispatcherStepsLeft("send") = 2 /\ DispatcherStepsLeft("receive") = 1
      /\ DispatcherStepsLeft("exited") = 0
  BY DEF DispatcherStepsLeft
<1>2. CASE ReceiveUpdate
  <2>1. updates # <<>> /\ updates' = Tail(updates) /\ updates \in Seq(Update)
    BY <1>2 DEF ReceiveUpdate, TypeInv, TypeOK
  <2>2. Len(updates') < Len(updates)
    BY <2>1
  <2> QED  BY <2>2 DEF LessIsLeft
<1>3. ASSUME updates' = updates,
             DispatcherStepsLeft(dispatcher'.step) < DispatcherStepsLeft(dispatcher.step)
      PROVE  LessIsLeft
  BY <1>3 DEF LessIsLeft
<1>4. CASE ContentAvailable
  BY <1>1, <1>3, <1>4 DEF ContentAvailable
<1>5. CASE ContentUnavailable
  BY <1>1, <1>3, <1>5 DEF ContentUnavailable
<1>6. CASE SnapshotSubscribers
  BY <1>1, <1>3, <1>6 DEF SnapshotSubscribers
<1>7. ASSUME NEW pair \in dispatcher.left, SendDelivery(pair) PROVE LessIsLeft
  <2>1. updates' = updates /\ dispatcher' = [dispatcher EXCEPT !.left = @ \ {pair}]
    BY <1>7 DEF SendDelivery
  <2>2. dispatcher \in [step : {"receive", "content", "snapshot", "send", "exited"},
                       update : Update \cup {None},
                       left : SUBSET (Callbacks \X (1..MaxVersion))]
    BY DEF TypeInv, TypeOK
  <2>3. dispatcher'.step = dispatcher.step /\ dispatcher'.left = dispatcher.left \ {pair}
    BY <2>1, <2>2
  <2> QED  BY <1>7, <2>1, <2>3 DEF LessIsLeft
<1>8. CASE UpdateDispatched
  BY <1>1, <1>3, <1>8 DEF UpdateDispatched
<1>9. CASE DispatchCancelled
  BY <1>1, <1>3, <1>9 DEF DispatchCancelled
<1>10. CASE DispatchEnds
  BY <1>1, <1>3, <1>10 DEF DispatchEnds
<1> QED  BY <1>2, <1>4, <1>5, <1>6, <1>7, <1>8, <1>9, <1>10 DEF DispatcherStep

\* So does a step of a delivery worker.
LEMMA DelivererShrinksWork ==
    ASSUME TypeInv, NEW d \in Deliverers, DelivererStep(d)
    PROVE  LessIsLeft
<1>1. DelivererStepsLeft("deliver") = 3 /\ DelivererStepsLeft("remove") = 2
      /\ DelivererStepsLeft("receive") = 1 /\ DelivererStepsLeft("exited") = 0
  BY DEF DelivererStepsLeft
<1>2. updates' = updates /\ dispatcher' = dispatcher
  BY DEF DelivererStep, ReceiveDelivery, DeliveryDone, DeliveryGone, removeSubscription,
     DelivererEnds, queueVars
<1>3. CASE ReceiveDelivery(d)
  <2>1. deliveries # <<>> /\ deliveries' = Tail(deliveries) /\ deliveries \in Seq(Job)
    BY <1>3 DEF ReceiveDelivery, TypeInv, TypeOK
  <2>2. Len(deliveries') < Len(deliveries)
    BY <2>1
  <2> QED  BY <1>2, <2>2 DEF LessIsLeft
<1>4. ASSUME NEW s, NEW j, Delivering(d, s, j), deliveries' = deliveries,
             DelivererStepsLeft(s) < DelivererStepsLeft(deliverer[d].step)
      PROVE  LessIsLeft
  <2>1. /\ deliverer'[d].step = s
        /\ \A e \in Deliverers \ {d} : deliverer'[e] = deliverer[e]
    BY <1>4 DEF Delivering, TypeInv, TypeOK
  <2> QED  BY <1>2, <1>4, <2>1 DEF LessIsLeft
<1>5. CASE DeliveryDone(d)
  BY <1>1, <1>4, <1>5 DEF DeliveryDone, queueVars
<1>6. CASE DeliveryGone(d)
  BY <1>1, <1>4, <1>6 DEF DeliveryGone, queueVars
<1>7. CASE removeSubscription(d)
  BY <1>1, <1>4, <1>7 DEF removeSubscription, queueVars
<1>8. CASE DelivererEnds(d)
  BY <1>1, <1>4, <1>8 DEF DelivererEnds, queueVars
<1> QED  BY <1>3, <1>5, <1>6, <1>7, <1>8 DEF DelivererStep

\* After Close every step of a goroutine leaves less to do, and nobody adds any.
THEOREM ClosingShrinks == Spec => ClosingShrinksWork
<1> DEFINE Same   == UNCHANGED <<updates, dispatcher, deliveries, deliverer>>
           Moves  == DispatcherStep \/ \E d \in Deliverers : DelivererStep(d)
           Shrink == closed => closed' /\ (IF Moves THEN LessIsLeft ELSE Same)
<1>1. ASSUME TypeInv, Next PROVE Shrink
  <2> SUFFICES ASSUME closed PROVE closed' /\ (IF Moves THEN LessIsLeft ELSE Same)
    OBVIOUS
  <2>1. Moves => LessIsLeft
    BY <1>1, DispatcherShrinksWork, DelivererShrinksWork
  <2>2. ~Moves => Same
    BY <1>1, WhoEndsWork DEF UpdateQueued, CloserStep, CloseCalled, CloseReturns, queueVars
  <2>3. closed'
    <3>1. CASE DispatcherStep
      BY <3>1 DEF DispatcherStep, ReceiveUpdate, ContentAvailable, ContentUnavailable,
         SnapshotSubscribers, SendDelivery, UpdateDispatched, DispatchCancelled, DispatchEnds
    <3>2. ASSUME NEW d \in Deliverers, DelivererStep(d) PROVE closed'
      BY <3>2 DEF DelivererStep, ReceiveDelivery, DeliveryDone, DeliveryGone,
         removeSubscription, DelivererEnds
    <3> QED  BY <1>1, <3>1, <3>2, WhoEndsWork DEF UpdateQueued, CloserStep, CloseCalled, CloseReturns
  <2> QED  BY <2>1, <2>2, <2>3
<1>2. ASSUME TypeInv, [Next]_vars PROVE [Shrink]_vars
  BY <1>1, <1>2
<1> QED  BY <1>2, TypesHold, PTL DEF Spec, ClosingShrinksWork
=============================================================================
