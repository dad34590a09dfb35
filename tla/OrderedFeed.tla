------------------------------ MODULE OrderedFeed ------------------------------
(***************************************************************************)
(* What the Kafka hub promises one subscription: the records of its topic, *)
(* in order, each at least once, from the place where the feed begins.     *)
(* The place moves to the end of the log when the feed is started anew     *)
(* before anything was acknowledged, and never again.  ContentDelivery is  *)
(* shown to implement this module.                                         *)
(***************************************************************************)
EXTENDS Naturals

CONSTANT Unset

VARIABLES
    written,    \* number of records in the topic
    start,      \* the feed owes the records after this one; Unset before it begins
    received,   \* records the subscriber has received
    acked,      \* records up to this one are acknowledged; Unset if none is
    active      \* the subscription is neither stale nor removed

vars == <<written, start, received, acked, active>>

Init ==
    /\ written \in Nat
    /\ start = Unset
    /\ received = {}
    /\ acked = Unset
    /\ active = TRUE

Write ==
    /\ written' = written + 1
    /\ UNCHANGED <<start, received, acked, active>>

Begin ==
    /\ active
    /\ acked = Unset
    /\ start' = written
    /\ UNCHANGED <<written, received, acked, active>>

\* Record i, new or again, and none before the records that precede it.
Receive(i) ==
    /\ start # Unset /\ start < i /\ i <= written
    /\ \A j \in (start + 1)..(i - 1) : j \in received
    /\ i \notin received => \A j \in received : j < i
    /\ received' = received \cup {i}
    /\ UNCHANGED <<written, start, acked, active>>

\* What is acknowledged was received, all of it.
Acknowledge(k) ==
    /\ start # Unset /\ start < k
    /\ acked # Unset => acked <= k
    /\ \A j \in (start + 1)..k : j \in received
    /\ acked' = k
    /\ UNCHANGED <<written, start, received, active>>

\* The subscription goes stale, is revived or removed.
Change ==
    /\ active' = ~active
    /\ UNCHANGED <<written, start, received, acked>>

Next ==
    \/ Write \/ Begin \/ Change
    \/ \E i \in 1..written : Receive(i) \/ Acknowledge(i)

Spec == Init /\ [][Next]_vars

\* An active feed begins, and brings and acknowledges what it owes.
Progress ==
    \E i \in 1..written :
        \/ active /\ i \notin received /\ Receive(i)
        \/ active /\ (acked # Unset => acked < i) /\ Acknowledge(i)

Fairness == WF_vars(Begin /\ start = Unset) /\ WF_vars(Progress)
=============================================================================
