------------------------------- MODULE StateLog -------------------------------
(***************************************************************************)
(* The state events of examples/kafka-websubhub and what applying one does *)
(* to a materialised view.  websubhub/hub.go and consolidator.go implement *)
(* the same five rules; the view is what both keep and what a snapshot     *)
(* carries: registered topics and, per topic and callback, the lease       *)
(* (LeaseStartedAt identifies it), the owning server and the stale mark.   *)
(***************************************************************************)
EXTENDS Integers, Sequences

CONSTANTS
    Topics, Callbacks,
    Servers,    \* server_id values
    Leases,     \* LeaseStartedAt values
    NoSub       \* no subscription stored

Keys    == Topics \X Callbacks
Entries == [lease : Leases, server : Servers, stale : BOOLEAN]

ASSUME NoSubAssumption == NoSub \notin Entries

Views   == [topics : SUBSET Topics, subs : [Keys -> Entries \cup {NoSub}]]

TopicEvents == [kind : {"register", "deregister"}, topic : Topics]
UnsubEvents == [kind : {"unsubscribe"}, key : Keys]
SubEvents   == [kind : {"subscribe", "stale"}, key : Keys, lease : Leases, server : Servers]
Events      == TopicEvents \cup UnsubEvents \cup SubEvents

EmptyView == [topics |-> {}, subs |-> [k \in Keys |-> NoSub]]

ApplyTopicRegistration(view, e) ==
    [topics |-> view.topics \cup {e.topic}, subs |-> view.subs]

ApplyTopicDeregistration(view, e) ==
    [topics |-> view.topics \ {e.topic},
     subs   |-> [k \in Keys |-> IF k[1] = e.topic THEN NoSub ELSE view.subs[k]]]

\* Mutant of Subscribed: a stale subscription stays stale.
SubscribedOnce(existing, e) ==
    IF existing = NoSub THEN [lease |-> e.lease, server |-> e.server, stale |-> FALSE]
                        ELSE existing

\* A subscription that is not stale wins over the event; a stale one is revived
\* with its own lease and server.  Whether the topic is registered is not asked.
Subscribed(existing, e) ==
    IF existing = NoSub THEN [lease |-> e.lease, server |-> e.server, stale |-> FALSE]
                        ELSE [existing EXCEPT !.stale = FALSE]

Store(view, key, sub) ==
    [topics |-> view.topics,
     subs   |-> [k \in Keys |-> IF k = key THEN sub ELSE view.subs[k]]]

ApplySubscription(view, e) == Store(view, e.key, Subscribed(view.subs[e.key], e))

\* Only the very lease and owner the event names goes stale.
Names(e, existing) ==
    existing # NoSub /\ existing.server = e.server /\ existing.lease = e.lease

ApplyStaleSubscription(view, e) ==
    LET existing == view.subs[e.key]
    IN  IF Names(e, existing) THEN Store(view, e.key, [existing EXCEPT !.stale = TRUE]) ELSE view

ApplyUnsubscription(view, e) == Store(view, e.key, NoSub)

\* state.ApplyEvent: dispatch on status and mode.
ApplyEvent(view, e) ==
    CASE e.kind = "register"    -> ApplyTopicRegistration(view, e)
      [] e.kind = "deregister"  -> ApplyTopicDeregistration(view, e)
      [] e.kind = "subscribe"   -> ApplySubscription(view, e)
      [] e.kind = "stale"       -> ApplyStaleSubscription(view, e)
      [] e.kind = "unsubscribe" -> ApplyUnsubscription(view, e)

\* The view after events m+1 to n of log have been applied, in order, to view.
Replay(view, log, m, n) ==
    LET after[i \in m..n] == IF i = m THEN view ELSE ApplyEvent(after[i - 1], log[i])
    IN  after[n]

\* The reference: the view a process has that applied the log from nothing.
Materialized(log, n) == Replay(EmptyView, log, 0, n)
=============================================================================
