----------------------------- MODULE Consolidator -----------------------------
(***************************************************************************)
(* examples/kafka-websubhub/consolidator: the process that tails the state *)
(* events, persists the view after every one of them and serves it to the  *)
(* hubs.  Snapshots carry a revision and no offset, so a restart replays   *)
(* the retained log over the snapshot it loaded.                           *)
(*                                                                         *)
(* Kafka is external: websub-events is the sequence log, of which the      *)
(* first `retained' records may be gone, and websub-events-snapshots is    *)
(* the set of records ever acknowledged.                                   *)
(***************************************************************************)
EXTENDS StateLog, FiniteSets

CONSTANTS
    Deployments,    \* which of the two deployments below are considered
    MaxLog,         \* bound on the events published
    MaxFailures     \* bound on crashes and failed snapshot writes

\* What the operator of Kafka grants: in a "complete" deployment websub-events
\* is kept for good, and LoadSnapshot's empty poll may come before the end of the
\* snapshots; in a "pruned" one retention drops events, and the snapshots are
\* polled to their end.
ASSUME DeploymentsAssumption == Deployments \subseteq {"complete", "pruned"}
ASSUME FailuresAssumption == MaxFailures \in Nat

VARIABLES
    deployment,                     \* fixed when the system is set up
    log, retained, snapshots,       \* Kafka
    phase,                          \* down, loaded, replaying, tailing, stopping
    view, revision,                 \* topics + subscriptions, revision
    cursor, replayEnd,              \* KafkaBroker.eventsOffset and ReplayEvents' boundary
    unsaved,                        \* consumeEvent is between apply and PublishSnapshot
    failures                        \* how much of MaxFailures is used

kafka   == <<deployment, log, retained, snapshots>>
process == <<phase, view, revision, cursor, replayEnd, unsaved>>
vars    == <<kafka, process, failures>>

Snapshots   == [revision : Nat, view : Views]
NoSnapshot  == [revision |-> 0, view |-> EmptyView]

TypeOK ==
    /\ deployment \in Deployments
    /\ log \in Seq(Events) /\ retained \in 0..Len(log)
    /\ snapshots \subseteq Snapshots
    /\ phase \in {"down", "loaded", "replaying", "tailing", "stopping"}
    /\ view \in Views /\ revision \in Nat
    /\ cursor \in 0..Len(log) /\ replayEnd \in 0..Len(log)
    /\ unsaved \in BOOLEAN
    /\ failures \in 0..MaxFailures

Init ==
    /\ deployment \in Deployments
    /\ log = <<>> /\ retained = 0 /\ snapshots = {}
    /\ phase = "down" /\ view = EmptyView /\ revision = 0
    /\ cursor = 0 /\ replayEnd = 0 /\ unsaved = FALSE
    /\ failures = 0

-----------------------------------------------------------------------------
(* The rest of the system.                                                 *)

PublishEvent(e) ==
    /\ Len(log) < MaxLog
    /\ log' = Append(log, e)
    /\ UNCHANGED <<deployment, retained, snapshots, process, failures>>

\* Records are assumed to outlive their consolidation: only events whose
\* snapshot the running consolidator has written are dropped.
DropRecord ==
    /\ deployment = "pruned" /\ phase = "tailing" /\ retained < cursor
    /\ retained' = retained + 1
    /\ UNCHANGED <<deployment, log, snapshots, process, failures>>

-----------------------------------------------------------------------------
(* Startup (New).                                                          *)

\* What LoadSnapshot can return: the record with the greatest revision among
\* those it polled.
Loadable ==
    IF deployment = "complete" THEN snapshots \cup {NoSnapshot}
    ELSE IF snapshots = {} THEN {NoSnapshot}
    ELSE {s \in snapshots : \A t \in snapshots : t.revision <= s.revision}

\* Mutants of LoadSnapshot: the cursor survives the restart; the snapshot is
\* not restored; its revision is not.
LoadSnapshotResuming ==
    /\ phase = "down"
    /\ \E s \in Loadable : view' = s.view /\ revision' = s.revision
    /\ phase' = "loaded"
    /\ UNCHANGED <<kafka, cursor, replayEnd, unsaved, failures>>

LoadNothing ==
    /\ phase = "down"
    /\ \E s \in Loadable : view' = EmptyView /\ revision' = s.revision
    /\ phase' = "loaded" /\ cursor' = 0
    /\ UNCHANGED <<kafka, replayEnd, unsaved, failures>>

LoadUnrevised ==
    /\ phase = "down"
    /\ \E s \in Loadable : view' = s.view /\ revision' = 0
    /\ phase' = "loaded" /\ cursor' = 0
    /\ UNCHANGED <<kafka, replayEnd, unsaved, failures>>

LoadSnapshot ==
    /\ phase = "down"
    /\ \E s \in Loadable : view' = s.view /\ revision' = s.revision
    /\ phase' = "loaded" /\ cursor' = 0
    /\ UNCHANGED <<kafka, replayEnd, unsaved, failures>>

\* ReplayEvents: a cursor that is not behind the log end needs no consumer.
ReplayEvents ==
    /\ phase = "loaded"
    /\ replayEnd' = Len(log)
    /\ phase' = IF cursor >= Len(log) THEN "tailing" ELSE "replaying"
    /\ UNCHANGED <<kafka, view, revision, cursor, unsaved, failures>>

\* Mutant of ReplayDone: the boundary itself is waited for.
ReplayDoneBeyond ==
    /\ phase = "replaying" /\ ~unsaved /\ cursor > replayEnd
    /\ phase' = "tailing"
    /\ UNCHANGED <<kafka, view, revision, cursor, replayEnd, unsaved, failures>>

\* consumeEvents leaves when the cursor has reached the boundary.
ReplayDone ==
    /\ phase = "replaying" /\ ~unsaved /\ cursor >= replayEnd
    /\ phase' = "tailing"
    /\ UNCHANGED <<kafka, view, revision, cursor, replayEnd, unsaved, failures>>

-----------------------------------------------------------------------------
(* consumeEvent: apply, count, persist, all under operationMu.             *)

\* Offset after the next record the consumer polls: the records already dropped
\* are skipped, and those at or beyond the boundary are ignored during replay.
NextOffset == IF cursor < retained THEN retained + 1 ELSE cursor + 1

CanConsume ==
    /\ ~unsaved
    /\ \/ phase = "tailing" /\ NextOffset <= Len(log)
       \/ phase = "replaying" /\ cursor < replayEnd /\ NextOffset <= replayEnd

\* Mutant of ConsumeEvent: the revision does not move.
ConsumeEventUncounted ==
    /\ CanConsume
    /\ view' = ApplyEvent(view, log[NextOffset])
    /\ unsaved' = TRUE
    /\ UNCHANGED <<kafka, phase, revision, cursor, replayEnd, failures>>

ConsumeEvent ==
    /\ CanConsume
    /\ view' = ApplyEvent(view, log[NextOffset])
    /\ revision' = revision + 1
    /\ unsaved' = TRUE
    /\ UNCHANGED <<kafka, phase, cursor, replayEnd, failures>>

Persisted == [revision |-> revision, view |-> view]

\* Mutant of PublishSnapshot: the cursor moves two records on.
PublishSnapshotSkipping ==
    /\ unsaved
    /\ snapshots' = snapshots \cup {Persisted}
    /\ unsaved' = FALSE /\ cursor' = NextOffset + 1
    /\ UNCHANGED <<deployment, log, retained, phase, view, revision, replayEnd, failures>>

PublishSnapshot ==
    /\ unsaved
    /\ snapshots' = snapshots \cup {Persisted}
    /\ unsaved' = FALSE /\ cursor' = NextOffset
    /\ UNCHANGED <<deployment, log, retained, phase, view, revision, replayEnd, failures>>

\* The write fails, with or without an effect.  A starting process gives up; a
\* running one reports the error and is shut down by main.
PublishSnapshotFails ==
    /\ unsaved /\ failures < MaxFailures
    /\ failures' = failures + 1
    /\ \/ UNCHANGED snapshots
       \/ snapshots' = snapshots \cup {Persisted}
    /\ unsaved' = FALSE
    /\ phase' = IF phase = "replaying" THEN "down" ELSE "stopping"
    /\ UNCHANGED <<deployment, log, retained, view, revision, cursor, replayEnd>>

Stop ==
    /\ phase = "stopping"
    /\ phase' = "down"
    /\ UNCHANGED <<kafka, view, revision, cursor, replayEnd, unsaved, failures>>

Crash ==
    /\ phase \notin {"down", "stopping"} /\ failures < MaxFailures
    /\ failures' = failures + 1
    /\ phase' = "down" /\ unsaved' = FALSE
    /\ UNCHANGED <<kafka, view, revision, cursor, replayEnd>>

-----------------------------------------------------------------------------

Process ==
    \/ LoadSnapshot \/ ReplayEvents \/ ReplayDone
    \/ ConsumeEvent \/ PublishSnapshot \/ Stop

Next ==
    \/ \E e \in Events : PublishEvent(e)
    \/ DropRecord
    \/ Process
    \/ PublishSnapshotFails
    \/ Crash

Spec == Init /\ [][Next]_vars

\* The process is restarted when it is down and its goroutines are scheduled;
\* nothing obliges it to crash or a hub to publish.
LiveSpec == Spec /\ WF_vars(Process)

-----------------------------------------------------------------------------
(* Properties.                                                             *)

\* The view the snapshot endpoint answers with is the state of a process that
\* has applied the log from its beginning up to the cursor (or, after a failed
\* write, up to the event whose snapshot was not written): restarts, crashes in
\* the middle of a replay and the choice of snapshot leave no trace.
ServedViewIsExact ==
    /\ (phase = "tailing" /\ ~unsaved) => view = Materialized(log, cursor)
    /\ (phase = "stopping") => view = Materialized(log, NextOffset)

\* The snapshot endpoint as a replica.  consumeEvent holds operationMu until the
\* snapshot is written, and Snapshot waits for it: what has been applied and not
\* been written is not seen.
Serving == phase \in {"tailing", "stopping"}

Bound   == IF phase = "replaying" \/ Serving THEN replayEnd ELSE 0
ShownAt == IF phase = "tailing" THEN cursor ELSE IF phase = "stopping" THEN NextOffset ELSE 0
Shown   == IF ~Serving THEN EmptyView
           ELSE IF unsaved THEN Materialized(log, cursor) ELSE view

Alone(value) == [r \in {"consolidator"} |-> value]

Endpoint == INSTANCE ReplicatedView WITH
    Replicas <- {"consolidator"}, Empty <- EmptyView, Apply <- ApplyEvent,
    bound <- Alone(Bound), showing <- IF Serving THEN {"consolidator"} ELSE {},
    at <- Alone(ShownAt), shown <- Alone(Shown)

\* What the endpoint answers with is never behind the end of the log captured when
\* the process started, and moves on one event at a time, in the order of the log:
\* no restart, failed write or dropped record makes it skip or repeat one.
ImplementsReplicatedView == Endpoint!Spec

\* Whatever a restart may load now, replaying what the broker still has brings
\* it to the end of the log.  Snapshots written in the middle of a replay, which
\* show states the system never was in, are no exception.
EverySnapshotRecovers ==
    \A s \in Loadable :
        Replay(s.view, log, retained, Len(log)) = Materialized(log, Len(log))

\* retainLatestSnapshot takes the greatest revision for the newest snapshot:
\* where that snapshot stands in for dropped events, every new record must
\* outrank those before it.
RevisionsGrow ==
    [][deployment = "pruned" =>
        \A new \in snapshots' \ snapshots, old \in snapshots :
            old.revision < new.revision]_vars

\* Where startup can go on: the guards of its actions.
StartupCanMove ==
    \/ phase = "down" /\ Loadable # {}
    \/ phase \in {"loaded", "stopping"}
    \/ phase = "replaying" /\ (unsaved \/ cursor >= replayEnd \/ NextOffset <= replayEnd)

\* Startup comes to a stop only where retention has dropped every record below the
\* boundary, and it stops there needlessly: nothing was read, and the snapshot it
\* loaded is already the state at the boundary that ReplayEvents waits for.
StallsAreNeedless ==
    (phase # "tailing" /\ ~StartupCanMove) =>
        /\ phase = "replaying" /\ deployment = "pruned"
        /\ cursor = 0 /\ retained = replayEnd
        /\ view = Materialized(log, replayEnd)

StartStepsLeft(p) ==
    CASE p = "stopping" -> 4 [] p = "down" -> 3 [] p = "loaded" -> 2
      [] p = "replaying" -> 1 [] p = "tailing" -> 0

StartupComesNearer ==
    /\ failures' = failures
    /\ \/ StartStepsLeft(phase') < StartStepsLeft(phase)
       \/ /\ UNCHANGED <<phase, replayEnd>>
          /\ \/ cursor < cursor' /\ cursor' <= replayEnd
             \/ cursor' = cursor /\ ~unsaved /\ unsaved'

\* Every step of startup leaves less to do, and only failures, which are counted,
\* take it back: events that are published meanwhile do not prolong a replay, whose
\* boundary was captured once.
StartupAdvances ==
    [][phase # "tailing" =>
          IF Process THEN StartupComesNearer
          ELSE UNCHANGED process \/ failures < failures']_vars

\* With finitely many failures startup reaches the point where the endpoint is
\* served, unless retention has dropped everything before the captured boundary.
StartupCompletes ==
    []<>(phase = "tailing" \/ (phase = "replaying" /\ retained >= replayEnd))

\* "The consolidator and hub replay retained state events through a captured log
\* end before their HTTP endpoints start" (README): with finitely many failures,
\* startup gets there.
StartupReachesServing == []<>(phase = "tailing")
=============================================================================
