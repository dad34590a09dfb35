-------------------------- MODULE KafkaHubProperties --------------------------
(***************************************************************************)
(* What the hubs owe each other and their subscribers.                     *)
(***************************************************************************)
EXTENDS KafkaHub

\* Each hub as a replica that shows its projection once it runs.
Showing == {h \in Servers : Running(h)}
ShownAt == [h \in Servers |-> IF Running(h) THEN cursor[h] ELSE 0]
Shown   == [h \in Servers |-> IF Running(h) THEN view[h] ELSE EmptyView]

Projections == INSTANCE ReplicatedView WITH
    Replicas <- Servers, Empty <- EmptyView, Apply <- ApplyEvent,
    bound <- replayEnd, showing <- Showing, at <- ShownAt, shown <- Shown

\* Callbacks never see a projection that is behind the end of the log its hub
\* captured when it started, that skips, repeats or reorders an event, or that
\* tells a restart, a crash or the snapshot it was given apart.
ImplementsReplicatedView == Projections!Spec

\* Once a hub tails the log, its projection is the state of a process that has
\* applied every event up to its cursor: the snapshot it started from and the
\* replay over it leave no trace.
ProjectionIsExact ==
    \A h \in Servers : Running(h) => view[h] = Materialized(log, cursor[h])

Consumers == {w \in workers : w.step = "consuming" /\ ~w.cancelled}

\* A consumer group has one consumer, over all hubs and through restarts,
\* recoveries and the race of the startup launch with the event consumer.
OneConsumerPerGroup ==
    \A v, w \in Consumers : (v.key = w.key /\ v.lease = w.lease) => v = w

\* Whoever is delivering does so for an entry the projection of its hub still
\* holds: the removal, the stale mark and the replacement of an entry all reach
\* its worker.
ConsumersFollowTheProjection ==
    \A w \in Consumers :
        LET entry == Stored(w.server, w.key) IN
        /\ entry # NoSub
        /\ entry.lease = w.lease /\ entry.server = w.server /\ ~entry.stale

\* Some event the hub has not applied yet ends or marks its subscription k.
EndIsPublished(h, k) ==
    \E i \in (cursor[h] + 1)..Len(log) :
        \/ log[i].kind = "stale" /\ Names(log[i], Stored(h, k)) /\ log[i].key = k
        \/ log[i].kind = "unsubscribe" /\ log[i].key = k
        \/ log[i].kind = "deregister" /\ log[i].topic = k[1]

\* No subscription that looks healthy is silently without delivery: the owner
\* has a worker for it, or is about to start one, or the log already says that
\* it is over or stale.
NoSilentSubscription ==
    \A h \in Servers, k \in Keys :
        ( /\ phase[h] = "serving" /\ ~reported[h] /\ Stored(h, k) # NoSub
          /\ Stored(h, k).server = h /\ ~Stored(h, k).stale )
        =>  \/ \E w \in workers : /\ w.server = h /\ w.key = k /\ w.gen = gen[h][k]
                                  /\ ~w.cancelled
            \/ starting[h] = <<k, gen[h][k]>>
            \/ EndIsPublished(h, k)

\* The unsubscriptions in the log that ended lease l of k.
Retirements(k, l) ==
    {i \in DOMAIN log :
        /\ log[i].kind = "unsubscribe" /\ log[i].key = k
        /\ LET before == Materialized(log, i - 1).subs[k] IN before # NoSub /\ before.lease = l}

Retired(k) == {l \in Leases : Retirements(k, l) # {}}

\* "An unsubscribe followed by a new subscription receives a new consumer group
\* and does not inherit the earlier group's backlog": a subscription verified
\* when the unsubscription is in the log is not published under the old lease.
NewSubscriptionNewGroup ==
    [][\A h \in Servers :
        (op[h] = None /\ op'[h] # None /\ op'[h].kind = "subscribe")
            => op'[h].lease \notin Retired(op'[h].key)]_vars

-----------------------------------------------------------------------------
(* What lag can do, and what there is without it                           *)

\* What all the events published so far make of key k.
Current(k) == Materialized(log, Len(log)).subs[k]

\* Event i ends the subscription stored under k, whichever it is.
EndsEntry(i, k) ==
    \/ log[i].kind = "unsubscribe" /\ log[i].key = k
    \/ log[i].kind = "deregister" /\ log[i].topic = k[1]

\* How far NewSubscriptionNewGroup is kept: a lease comes back only where the hub
\* has not read its unsubscription yet, or where the log it has read already
\* brought it back after that.
BeginsFromLag(h) ==
    (op[h] = None /\ op'[h] # None /\ op'[h].kind = "subscribe") =>
        \A i \in Retirements(op'[h].key, op'[h].lease) :
            \/ i > cursor[h]
            \/ \E j \in (i + 1)..cursor[h] :
                 /\ log[j].kind = "subscribe" /\ log[j].key = op'[h].key
                 /\ log[j].lease = op'[h].lease

\* A subscription to a topic that is not registered is published only where the
\* hub has not read the deregistration.
BeginsOnTopic(h) ==
    ( /\ op[h] = None /\ op'[h] # None /\ op'[h].kind = "subscribe"
      /\ op'[h].key[1] \notin Materialized(log, Len(log)).topics )
    =>  \E i \in (cursor[h] + 1)..Len(log) :
          log[i].kind = "deregister" /\ log[i].topic = op'[h].key[1]

\* The unsubscription that a 410 causes names no lease, so it removes whatever is
\* stored when it is read.  It removes another subscription than the one that
\* was refused only where the log had ended that one already, and the hub either
\* has not read so far or read it after the answer came.
RemovesItsOwn(w) ==
    ( /\ PublishGone(w) \/ PublishGoneFails(w)
      /\ log' # log /\ Current(w.key) # NoSub /\ Current(w.key).lease # w.lease )
    =>  \/ w.cancelled
        \/ \E i \in (cursor[w.server] + 1)..Len(log) : EndsEntry(i, w.key)

\* Every decision that goes into the log is right for the log its hub had read:
\* a hub that is up to date neither brings an ended group back, nor subscribes to
\* a topic that is gone, nor removes a subscription for another one's 410.
OnlyLagMisleads ==
    [][/\ \A h \in Servers : BeginsFromLag(h) /\ BeginsOnTopic(h)
       /\ \A w \in workers : RemovesItsOwn(w)]_vars

\* Hub h has applied the whole log and none of its goroutines is about to publish
\* or to start anything.
Quiet(h) ==
    /\ phase[h] = "serving" /\ ~reported[h]
    /\ cursor[h] = Len(log) /\ starting[h] = None
    /\ \A w \in workers : (w.server = h /\ ~w.cancelled) => w.step = "consuming"

\* When nothing is under way the hubs together serve what the log says: a key that
\* has an active subscription is consumed by its owner alone, under its lease,
\* and any other key by nobody.
QuietHubsServeTheLog ==
    (\A h \in Servers : phase[h] = "down" \/ Quiet(h)) =>
        \A k \in Keys :
            LET entry     == Current(k)
                consumers == {w \in Consumers : w.key = k}
            IN  IF entry # NoSub /\ ~entry.stale /\ phase[entry.server] # "down"
                THEN \E w \in consumers : /\ consumers = {w}
                                          /\ w.server = entry.server /\ w.lease = entry.lease
                ELSE consumers = {}
=============================================================================
