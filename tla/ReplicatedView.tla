---------------------------- MODULE ReplicatedView ----------------------------
(***************************************************************************)
(* What the log of state events promises whoever reads a view of it.  A    *)
(* process shows nothing while it starts; then it shows the state after    *)
(* some number of events, no fewer than the log held when it began to      *)
(* replay, and moves on one event at a time, in the order of the log.      *)
(* There are no snapshots, offsets, replays or retention here.  KafkaHub   *)
(* and Consolidator are shown to implement this module.                    *)
(***************************************************************************)
EXTENDS Naturals, Sequences

CONSTANTS
    Replicas,       \* the processes that keep a view
    Events,
    Empty,          \* the state before any event
    Apply(_, _)     \* the state after an event

VARIABLES
    log,            \* the events published
    bound,          \* bound[r]: the length of the log r has to reach before it shows
    showing,        \* the replicas that show a state
    at,             \* at[r]: number of events in what r shows
    shown           \* shown[r]: the state r shows

vars == <<log, bound, showing, at, shown>>

\* The state after the first n events of the log.
After(n) ==
    LET state[i \in 0..n] == IF i = 0 THEN Empty ELSE Apply(state[i - 1], log[i])
    IN  state[n]

Init ==
    /\ log = <<>>
    /\ bound = [r \in Replicas |-> 0]
    /\ showing = {}
    /\ at = [r \in Replicas |-> 0]
    /\ shown = [r \in Replicas |-> Empty]

Publish(e) ==
    /\ log' = Append(log, e)
    /\ UNCHANGED <<bound, showing, at, shown>>

\* r captures the end of the log.
Begin(r) ==
    /\ r \notin showing
    /\ bound' = [bound EXCEPT ![r] = Len(log)]
    /\ UNCHANGED <<log, showing, at, shown>>

\* r is ready.
Show(r) ==
    /\ r \notin showing
    /\ showing' = showing \cup {r}
    /\ \E n \in bound[r]..Len(log) :
         /\ at' = [at EXCEPT ![r] = n]
         /\ shown' = [shown EXCEPT ![r] = After(n)]
    /\ UNCHANGED <<log, bound>>

Advance(r) ==
    /\ r \in showing
    /\ at[r] < Len(log)
    /\ at' = [at EXCEPT ![r] = @ + 1]
    /\ shown' = [shown EXCEPT ![r] = Apply(@, log[at[r] + 1])]
    /\ UNCHANGED <<log, bound, showing>>

\* r shuts down, crashes or gives up its start.
Stop(r) ==
    /\ bound' = [bound EXCEPT ![r] = 0]
    /\ showing' = showing \ {r}
    /\ at' = [at EXCEPT ![r] = 0]
    /\ shown' = [shown EXCEPT ![r] = Empty]
    /\ UNCHANGED log

Next ==
    \/ \E e \in Events : Publish(e)
    \/ \E r \in Replicas : Begin(r) \/ Show(r) \/ Advance(r) \/ Stop(r)

Spec == Init /\ [][Next]_vars
=============================================================================
