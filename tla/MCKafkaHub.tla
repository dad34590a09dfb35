------------------------------ MODULE MCKafkaHub ------------------------------
(***************************************************************************)
(* TLC instance of KafkaHubProperties.                                     *)
(***************************************************************************)
EXTENDS KafkaHubProperties, TLC

\* Hubs, and leases, are interchangeable: no definition tells one from another.
KafkaSymmetry == Permutations(Servers) \cup Permutations(Leases)

\* Only hub h is up and owns anything.
Alone(h) ==
    /\ \A g \in Servers \ {h} : phase[g] = "down"
    /\ \A i \in DOMAIN log : log[i].kind \in {"subscribe", "stale"} => log[i].server = h

\* The topic is registered once and then left alone.
OneTopicEvent == \A i \in 2..Len(log) : log[i].kind \notin {"register", "deregister"}

\* The last event of four stores the entry again, for its old owner or another
\* hub, and the others have not read it and begin nothing.
StoredAgain ==
    /\ Len(log) = 4
    /\ log[4].kind = "subscribe" /\ log[3].kind # "subscribe"
    /\ \A h \in Servers \ {log[4].server} :
         op[h] = None /\ unsubscribing[h] = {} /\ cursor[h] < 4

\* Several hubs share logs of up to three events, and go on from four where the
\* fourth stores an entry again that was stale or removed.  The long histories
\* (stale, recovered, removed, subscribed again) are those of one hub.
Explored ==
    \/ Len(log) <= 3
    \/ OneTopicEvent /\ (StoredAgain \/ \E h \in Servers : Alone(h))
===============================================================================
