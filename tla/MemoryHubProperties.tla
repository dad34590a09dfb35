------------------------- MODULE MemoryHubProperties -------------------------
(***************************************************************************)
(* The correctness properties of the in-memory hub.                        *)
(***************************************************************************)
EXTENDS MemoryHub

Stored(t, c) == subs[t][c]

\* The delivery jobs that exist, one per place: the queue, the workers.
JobsAt ==
    {[place |-> <<"queue", i>>, job |-> deliveries[i]] : i \in DOMAIN deliveries}
    \cup {[place |-> <<"worker", d>>, job |-> deliverer[d].job] :
             d \in {e \in Deliverers : deliverer[e].step = "deliver"}}

Triple(j) == <<j.id, j.callback, j.version>>

\* Deregistering a topic removes its subscriptions, and a verification that was
\* under way then does not bring one back: what is stored belongs to a
\* registered topic.
SubscriptionsHaveTopics ==
    \A t \in Topics, c \in Callbacks : Stored(t, c) # 0 => t \in topics

\* An accepted update reaches a subscription at most once, and only one that
\* was stored and had not lapsed when the update was dispatched.
DeliveredAtMostOnce ==
    /\ \A a, b \in JobsAt : Triple(a.job) = Triple(b.job) => a.place = b.place
    /\ \A a \in JobsAt :
         /\ Triple(a.job) \notin attempted
         /\ <<a.job.callback, a.job.version>> \in due[a.job.id]
    /\ \A x \in attempted : <<x[2], x[3]>> \in due[x[1]]

\* When every Close that returned did so in time, nothing accepted was lost:
\* each update was offered to every subscription it was due at.
GracefulCloseDelivers ==
    (Done /\ \A k \in Closers : closer[k] # "expired") =>
        \A i \in 1..accepted :
            /\ fate[i] \in {"dispatched", "unavailable"}
            /\ \A pair \in due[i] : <<i, pair[1], pair[2]>> \in attempted

\* A stored subscription disappears only by a verified unsubscription of the pair
\* (of whatever is stored by then: lapsed, or renewed since the unsubscription was
\* validated), deregistration, the end of its lease, or a 410 its subscriber gave to
\* this very version: a 410 to a delivery made before a renewal does not undo it.
RemovalIsJustified ==
    [][\A t \in Topics, c \in Callbacks :
         LET v == subs[t][c] IN
         (v # 0 /\ subs'[t][c] = 0) =>
            \/ v \in lapsed
            \/ v \in gone
            \/ t \in topics /\ t \notin topics'
            \/ \E f \in Flows :
                 /\ flow[f] = [mode |-> "unsubscribe", topic |-> t, callback |-> c]
                 /\ flow'[f] = None]_vars

\* Nothing is sent on a closed channel, which would panic: not by a publisher
\* that found its topic before Close, not by the dispatcher.
NoSendAfterClose ==
    [][/\ closed => Len(updates') <= Len(updates) /\ accepted' = accepted
       /\ dispatcher.step = "exited" => Len(deliveries') <= Len(deliveries)]_vars

\* Where the hub's goroutines can go on: a channel has what they receive or the
\* room they send into, or is closed.  These are the guards of their actions.
DispatcherCanMove ==
    \/ dispatcher.step = "receive" /\ (updates # <<>> \/ closed)
    \/ dispatcher.step \in {"content", "snapshot"}
    \/ /\ dispatcher.step = "send"
       /\ dispatcher.left = {} \/ cancelled \/ Len(deliveries) < DeliveryQueue

DelivererCanMove(d) ==
    \/ deliverer[d].step \in {"deliver", "remove"}
    \/ deliverer[d].step = "receive" /\ (deliveries # <<>> \/ dispatcher.step = "exited")

\* The two halves of CloseCompletes that need no fairness.  While there is
\* anything to do, and after Close while a goroutine is left, one of them can go
\* on: no full queue holds its sender and its receivers both.
GoroutinesNeverBlock ==
    (~Done /\ (closed \/ updates # <<>> \/ deliveries # <<>> \/ dispatcher.step # "receive"))
        => DispatcherCanMove \/ \E d \in Deliverers : DelivererCanMove(d)

DispatcherStepsLeft(s) ==
    CASE s = "content"  -> 4 [] s = "snapshot" -> 3 [] s = "send" -> 2
      [] s = "receive" -> 1 [] s = "exited" -> 0
DelivererStepsLeft(s) ==
    CASE s = "deliver" -> 3 [] s = "remove" -> 2 [] s = "receive" -> 1 [] s = "exited" -> 0

\* What is left to do, most significant first: updates, the dispatcher's steps,
\* its sends, deliveries, the workers' steps.
LessIsLeft ==
    \/ Len(updates') < Len(updates)
    \/ /\ updates' = updates
       /\ \/ DispatcherStepsLeft(dispatcher'.step) < DispatcherStepsLeft(dispatcher.step)
          \/ /\ dispatcher'.step = dispatcher.step
             /\ dispatcher'.left \subseteq dispatcher.left /\ dispatcher'.left # dispatcher.left
          \/ /\ dispatcher' = dispatcher
             /\ \/ Len(deliveries') < Len(deliveries)
                \/ /\ deliveries' = deliveries
                   /\ \E d \in Deliverers :
                        /\ DelivererStepsLeft(deliverer'[d].step) < DelivererStepsLeft(deliverer[d].step)
                        /\ \A e \in Deliverers \ {d} : deliverer'[e] = deliverer[e]

\* After Close every step of a goroutine leaves less to do, and nobody adds any:
\* they cannot go on for ever.
ClosingShrinksWork ==
    [][closed =>
         /\ closed'
         /\ IF DispatcherStep \/ \E d \in Deliverers : DelivererStep(d)
            THEN LessIsLeft
            ELSE UNCHANGED <<updates, dispatcher, deliveries, deliverer>>]_vars

\* After Close the goroutines end, whatever is queued and whoever timed out.
CloseCompletes == closed ~> Done

\* An accepted update is not left in the queue behind a full delivery queue,
\* unless a Close that ran out of time cancelled the dispatcher.
UpdatesAreDispatched ==
    \A i \in UpdateIds : fate[i] = "queued" ~> fate[i] # "queued" \/ cancelled
=============================================================================
