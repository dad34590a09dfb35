-------------------------- MODULE ConsolidatorProofs --------------------------
(***************************************************************************)
(* The consolidator's view is exact and its snapshots recover, for any     *)
(* log, any retention, any crashes and any choice of snapshot.             *)
(***************************************************************************)
EXTENDS Consolidator, StateLogProofs

USE DeploymentsAssumption, FailuresAssumption

\* How far the log has been applied to the view: the cursor moves when the
\* snapshot is written, and over what retention dropped.
Base    == IF cursor < retained THEN retained ELSE cursor
Applied == IF unsaved THEN Base + 1 ELSE Base

-----------------------------------------------------------------------------
(* Types                                                                   *)

\* What is applied and not yet written is in the log.
UnsavedInv ==
    unsaved => /\ phase \in {"replaying", "tailing"}
               /\ NextOffset <= Len(log)

TypeInv == TypeOK /\ UnsavedInv

LEMMA LogIsTyped ==
    ASSUME TypeOK
    PROVE  /\ Len(log) \in Nat /\ DOMAIN log = 1..Len(log)
           /\ \A i \in 1..Len(log) : log[i] \in Events
           /\ \A m \in Nat, n \in 0..Len(log) : EventsIn(log, m, n)
<1>1. log \in Seq(Events)
  BY DEF TypeOK
<1>2. Len(log) \in Nat /\ DOMAIN log = 1..Len(log) /\ \A i \in 1..Len(log) : log[i] \in Events
  BY <1>1
<1> QED  BY <1>2 DEF EventsIn

LEMMA LoadableTyped ==
    ASSUME TypeOK
    PROVE  Loadable \subseteq Snapshots
BY EmptyViewTyped DEF TypeOK, Loadable, Snapshots, NoSnapshot

LEMMA TypesHoldInitially == Init => TypeInv
<1> SUFFICES ASSUME Init PROVE TypeInv
  OBVIOUS
<1>1. log \in Seq(Events) /\ Len(log) = 0
  BY DEF Init
<1>2. 0 \in 0..Len(log) /\ 0 \in 0..MaxFailures
  BY <1>1
<1>3. snapshots \subseteq Snapshots /\ revision \in Nat /\ view \in Views
  BY EmptyViewTyped DEF Init
<1> QED  BY <1>1, <1>2, <1>3 DEF Init, TypeInv, TypeOK, UnsavedInv

LEMMA TypesKept == TypeInv /\ [Next]_vars => TypeInv'
<1> SUFFICES ASSUME TypeInv, [Next]_vars PROVE TypeInv'
  OBVIOUS
<1>0. /\ Len(log) \in Nat /\ cursor \in Nat /\ retained \in Nat /\ replayEnd \in Nat
      /\ retained <= Len(log) /\ cursor <= Len(log) /\ replayEnd <= Len(log)
      /\ \A i \in 1..Len(log) : log[i] \in Events
  BY LogIsTyped DEF TypeInv, TypeOK
<1> USE DEF TypeInv, TypeOK, UnsavedInv, kafka, process
<1>1. ASSUME NEW e \in Events, PublishEvent(e) PROVE TypeInv'
  <2>1. log' \in Seq(Events) /\ Len(log') = Len(log) + 1
    BY <1>1 DEF PublishEvent
  <2>2. UNCHANGED <<deployment, retained, snapshots, phase, view, revision, cursor, replayEnd, unsaved, failures>>
    BY <1>1 DEF PublishEvent
  <2> QED  BY <1>0, <2>1, <2>2 DEF NextOffset
<1>2. CASE DropRecord
  BY <1>0, <1>2 DEF DropRecord, NextOffset
<1>3. CASE LoadSnapshot
  BY <1>0, <1>3, LoadableTyped DEF LoadSnapshot, Snapshots
<1>4. CASE ReplayEvents
  BY <1>0, <1>4 DEF ReplayEvents, NextOffset
<1>5. CASE ReplayDone
  BY <1>0, <1>5 DEF ReplayDone, NextOffset
<1>6. CASE ConsumeEvent
  <2>1. NextOffset \in 1..Len(log) /\ phase \in {"replaying", "tailing"}
    BY <1>0, <1>6 DEF ConsumeEvent, CanConsume, NextOffset
  <2>2. view' \in Views
    BY <1>0, <1>6, <2>1, ApplyIsTotal DEF ConsumeEvent
  <2> QED  BY <1>0, <1>6, <2>1, <2>2 DEF ConsumeEvent, NextOffset
<1>7. CASE PublishSnapshot
  <2>1. NextOffset \in 0..Len(log)
    BY <1>0, <1>7 DEF PublishSnapshot, NextOffset
  <2>2. Persisted \in Snapshots
    BY DEF Persisted, Snapshots
  <2> QED  BY <1>0, <1>7, <2>1, <2>2 DEF PublishSnapshot
<1>f. failures \in Nat /\ (failures < MaxFailures => failures + 1 \in 0..MaxFailures)
  OBVIOUS
<1>8. CASE PublishSnapshotFails
  <2>1. Persisted \in Snapshots
    BY DEF Persisted, Snapshots
  <2>2. /\ snapshots' \subseteq Snapshots /\ unsaved' = FALSE /\ failures' \in 0..MaxFailures
        /\ phase' \in {"down", "stopping"}
        /\ UNCHANGED <<deployment, log, retained, view, revision, cursor, replayEnd>>
    BY <1>8, <1>f, <2>1 DEF PublishSnapshotFails
  <2> QED  BY <2>2
<1>9. CASE Stop
  BY <1>9 DEF Stop, NextOffset
<1>10. CASE Crash
  <2>1. /\ failures' \in 0..MaxFailures /\ phase' = "down" /\ unsaved' = FALSE
        /\ UNCHANGED <<kafka, view, revision, cursor, replayEnd>>
    BY <1>10, <1>f DEF Crash
  <2> QED  BY <2>1
<1>11. CASE UNCHANGED vars
  BY <1>11 DEF vars, NextOffset
<1> QED
  BY <1>1, <1>2, <1>3, <1>4, <1>5, <1>6, <1>7, <1>8, <1>9, <1>10, <1>11 DEF Next, Process

LEMMA TypesHold == Spec => []TypeInv
BY TypesHoldInitially, TypesKept, PTL DEF Spec

\* The consolidator's state, the views it serves and the snapshots it writes keep
\* their types; the cursor never passes the end of the log.
THEOREM ConsolidatorTypes == Spec => []TypeOK
<1>1. TypeInv => TypeOK
  BY DEF TypeInv
<1> QED  BY <1>1, TypesHold, PTL

-----------------------------------------------------------------------------
(* Revisions                                                               *)

\* Where the newest snapshot counts, the process is at or beyond it.
RevisionInv ==
    (deployment = "pruned" /\ phase \in {"loaded", "replaying", "tailing"}) =>
        \A s \in snapshots : s.revision <= revision /\ (unsaved => s.revision < revision)

LEMMA RevisionsKept == TypeInv /\ RevisionInv /\ [Next]_vars => RevisionInv'
<1> SUFFICES ASSUME TypeInv, RevisionInv, [Next]_vars PROVE RevisionInv'
  OBVIOUS
<1>0. revision \in Nat /\ \A s \in snapshots : s.revision \in Nat
  BY DEF TypeInv, TypeOK, Snapshots
<1> USE DEF RevisionInv, kafka, process
<1>1. ASSUME NEW e \in Events, PublishEvent(e) PROVE RevisionInv'
  BY <1>1 DEF PublishEvent
<1>2. CASE DropRecord
  BY <1>2 DEF DropRecord
<1>3. CASE LoadSnapshot
  <2>1. ~unsaved'
    BY <1>3 DEF LoadSnapshot, TypeInv, UnsavedInv
  <2> QED  BY <1>0, <1>3, <2>1 DEF LoadSnapshot, Loadable
<1>4. CASE ReplayEvents
  BY <1>4 DEF ReplayEvents
<1>5. CASE ReplayDone
  BY <1>5 DEF ReplayDone
<1>6. CASE ConsumeEvent
  BY <1>0, <1>6 DEF ConsumeEvent, CanConsume
<1>7. CASE PublishSnapshot
  BY <1>0, <1>7 DEF PublishSnapshot, Persisted
<1>8. CASE PublishSnapshotFails
  BY <1>8 DEF PublishSnapshotFails
<1>9. CASE Stop
  BY <1>9 DEF Stop
<1>10. CASE Crash
  BY <1>10 DEF Crash
<1>11. CASE UNCHANGED vars
  BY <1>11 DEF vars
<1> QED
  BY <1>1, <1>2, <1>3, <1>4, <1>5, <1>6, <1>7, <1>8, <1>9, <1>10, <1>11 DEF Next, Process

\* Where a snapshot stands in for dropped events, every new one outranks those
\* before it, through crashes and failed writes (retainLatestSnapshot).
THEOREM RevisionsAlwaysGrow == Spec => RevisionsGrow
<1> DEFINE Grow == deployment = "pruned" =>
                     \A new \in snapshots' \ snapshots, old \in snapshots : old.revision < new.revision
<1>1. Init => RevisionInv
  BY DEF Init, RevisionInv
<1>2. ASSUME TypeInv, RevisionInv, Next PROVE Grow
  <2>1. CASE UNCHANGED snapshots
    BY <2>1
  <2>2. CASE unsaved /\ snapshots' = snapshots \cup {Persisted}
    BY <1>2, <2>2 DEF TypeInv, UnsavedInv, RevisionInv, Persisted
  <2> QED
    BY <1>2, <2>1, <2>2 DEF Next, Process, PublishEvent, DropRecord, LoadSnapshot, ReplayEvents,
       ReplayDone, ConsumeEvent, PublishSnapshot, PublishSnapshotFails, Stop, Crash, kafka
<1>3. TypeInv /\ RevisionInv /\ [Next]_vars => [Grow]_vars
  BY <1>2
<1>4. Spec => [][Grow]_vars
  BY <1>1, <1>3, TypesHold, RevisionsKept, PTL DEF Spec
<1> QED  BY <1>4 DEF RevisionsGrow

-----------------------------------------------------------------------------
(* The view                                                                *)

LoadedInv ==
    phase = "loaded" =>
        /\ cursor = 0
        /\ Replay(view, log, retained, Len(log)) = Materialized(log, Len(log))

\* A replay shows states the system never was in, and is sure to end in one that
\* it was in: the view is part of the way from some v to that state.
OnTheWay(v) ==
    /\ Replay(v, log, retained, replayEnd) = Materialized(log, replayEnd)
    /\ view = Replay(v, log, retained, Applied)

ReplayingInv ==
    phase = "replaying" =>
        /\ retained <= replayEnd /\ Applied <= replayEnd
        /\ \E v \in Views : OnTheWay(v)

TailingInv ==
    phase = "tailing" =>
        /\ retained <= cursor
        /\ view = Materialized(log, Applied)

StoppingInv ==
    phase = "stopping" =>
        /\ NextOffset <= Len(log)
        /\ view = Materialized(log, NextOffset)

\* The newest snapshot is the view up to the cursor, so that what it covers may be
\* dropped.
NewestInv ==
    (deployment = "pruned" /\ cursor > 0) =>
        /\ (phase = "replaying" /\ ~unsaved) => \A s \in Loadable : s.view = view
        /\ phase = "tailing" => \A s \in Loadable : s.view = Materialized(log, cursor)

ViewInv  == LoadedInv /\ ReplayingInv /\ TailingInv /\ StoppingInv
ExactInv == ViewInv /\ EverySnapshotRecovers /\ NewestInv

LEMMA AppliedInRange ==
    ASSUME TypeInv
    PROVE  /\ Base \in Nat /\ Applied \in Nat /\ NextOffset = Base + 1 /\ NextOffset \in Nat
           /\ retained <= Base /\ cursor <= Base /\ Base <= Applied /\ Base <= Len(log)
           /\ Applied <= Len(log) /\ (unsaved => Applied = NextOffset)
           /\ (~unsaved => Applied = Base) /\ (retained <= cursor => Base = cursor)
<1>1. cursor \in Nat /\ retained \in Nat /\ Len(log) \in Nat /\ cursor <= Len(log) /\ retained <= Len(log)
  BY LogIsTyped DEF TypeInv, TypeOK
<1> QED  BY <1>1 DEF TypeInv, TypeOK, UnsavedInv, Base, Applied, NextOffset

LEMMA ExactInitially == Init => ExactInv
<1> SUFFICES ASSUME Init PROVE ExactInv
  OBVIOUS
<1>1. Len(log) = 0
  BY DEF Init
<1>2. \A s \in Loadable : s = NoSnapshot
  BY DEF Init, Loadable
<1>3. EverySnapshotRecovers
  BY <1>1, <1>2 DEF Init, EverySnapshotRecovers, NoSnapshot, Materialized
<1> QED
  BY <1>3 DEF Init, ExactInv, ViewInv, LoadedInv, ReplayingInv, TailingInv, StoppingInv, NewestInv

\* An event that is published changes nothing of what was replayed.
LEMMA ExactAfterPublish ==
    ASSUME TypeInv, ExactInv, NEW e \in Events, PublishEvent(e)
    PROVE  ExactInv'
<1>0. /\ log \in Seq(Events) /\ Len(log) \in Nat
      /\ cursor \in Nat /\ retained \in Nat /\ replayEnd \in Nat
      /\ retained <= Len(log) /\ cursor <= Len(log) /\ replayEnd <= Len(log)
  BY LogIsTyped DEF TypeInv, TypeOK
<1>1. /\ log' = Append(log, e) /\ Len(log') = Len(log) + 1
      /\ UNCHANGED <<deployment, retained, snapshots, phase, view, revision, cursor,
                     replayEnd, unsaved, failures>>
  BY <1>0 DEF PublishEvent, process
<1>2. /\ Base' = Base /\ Applied' = Applied /\ NextOffset' = NextOffset /\ Loadable' = Loadable
  BY <1>1 DEF Base, Applied, NextOffset, Loadable
<1>3. ASSUME NEW v, NEW n \in retained..Len(log)
      PROVE  Replay(v, log', retained, n) = Replay(v, log, retained, n)
  BY <1>0, <1>1, ReplayOfPublished
<1>4. ASSUME NEW n \in 0..Len(log)
      PROVE  Materialized(log', n) = Materialized(log, n)
  BY <1>0, <1>1, ReplayOfPublished DEF Materialized
<1>5. ASSUME NEW v, Replay(v, log, retained, Len(log)) = Materialized(log, Len(log))
      PROVE  Replay(v, log', retained, Len(log')) = Materialized(log', Len(log'))
  <2>1. Replay(v, log', retained, Len(log')) = ApplyEvent(Replay(v, log, retained, Len(log)), e)
    BY <1>0, <1>1, ReplayOfPublished
  <2>2. Materialized(log', Len(log')) = ApplyEvent(Materialized(log, Len(log)), e)
    BY <1>0, <1>1, ReplayOfPublished DEF Materialized
  <2> QED  BY <1>5, <2>1, <2>2
<1>6. LoadedInv'
  BY <1>1, <1>5 DEF ExactInv, ViewInv, LoadedInv
<1>7. ReplayingInv'
  <2>1. SUFFICES ASSUME phase = "replaying"
                 PROVE  /\ retained <= replayEnd /\ Applied <= replayEnd
                        /\ \E v \in Views : OnTheWay(v)'
    BY <1>1, <1>2 DEF ReplayingInv
  <2>2. /\ retained <= replayEnd /\ Applied <= replayEnd
        /\ \E v \in Views : OnTheWay(v)
    BY <2>1 DEF ExactInv, ViewInv, ReplayingInv
  <2>3. PICK v \in Views : OnTheWay(v)
    BY <2>2
  <2>4. /\ replayEnd \in retained..Len(log) /\ replayEnd \in 0..Len(log)
        /\ Applied \in retained..Len(log)
    BY <1>0, <2>2, AppliedInRange
  <2>5. /\ Replay(v, log', retained, replayEnd) = Materialized(log', replayEnd)
        /\ view = Replay(v, log', retained, Applied)
    BY <1>3, <1>4, <2>3, <2>4 DEF OnTheWay
  <2>6. OnTheWay(v)'
    BY <1>1, <1>2, <2>5 DEF OnTheWay
  <2> QED  BY <2>2, <2>6
<1>8. TailingInv'
  <2>1. Applied \in 0..Len(log)
    BY AppliedInRange, <1>0
  <2> QED  BY <1>1, <1>2, <1>4, <2>1 DEF ExactInv, ViewInv, TailingInv
<1>9. StoppingInv'
  <2>1. NextOffset <= Len(log) => NextOffset \in 0..Len(log)
    BY AppliedInRange, <1>0
  <2> QED  BY <1>0, <1>1, <1>2, <1>4, <2>1, AppliedInRange DEF ExactInv, ViewInv, StoppingInv
<1>10. EverySnapshotRecovers'
  BY <1>1, <1>2, <1>5 DEF ExactInv, EverySnapshotRecovers
<1>11. NewestInv'
  <2>1. cursor \in 0..Len(log)
    BY <1>0
  <2> QED  BY <1>1, <1>2, <1>4, <2>1 DEF ExactInv, NewestInv
<1> QED  BY <1>6, <1>7, <1>8, <1>9, <1>10, <1>11 DEF ExactInv, ViewInv

\* What the broker drops is in the only snapshot that counts.
LEMMA ExactAfterDrop ==
    ASSUME TypeInv, ExactInv, DropRecord
    PROVE  ExactInv'
<1>0. /\ Len(log) \in Nat /\ cursor \in Nat /\ retained \in Nat
      /\ cursor <= Len(log) /\ EventsIn(log, 0, Len(log))
  BY LogIsTyped DEF TypeInv, TypeOK
<1>1. /\ deployment = "pruned" /\ phase = "tailing" /\ retained < cursor
      /\ retained' = retained + 1 /\ retained + 1 <= cursor /\ cursor > 0
      /\ UNCHANGED <<deployment, log, snapshots, phase, view, revision, cursor,
                     replayEnd, unsaved, failures>>
  BY <1>0 DEF DropRecord, process
<1>2. /\ Base = cursor /\ Base' = cursor /\ Applied' = Applied /\ Loadable' = Loadable
  BY <1>0, <1>1 DEF Base, Applied, Loadable
<1>3. ASSUME NEW s \in Loadable
      PROVE  Replay(s.view, log, retained + 1, Len(log)) = Materialized(log, Len(log))
  <2>1. s.view = Materialized(log, cursor)
    BY <1>1, <1>3 DEF ExactInv, NewestInv
  <2>2. /\ cursor \in 0..Len(log) /\ retained + 1 \in 0..cursor
        /\ retained + 1 \in (retained + 1)..Len(log) /\ retained + 1 \in Nat
    BY <1>0, <1>1
  <2> DEFINE r == retained + 1
  <2>3. /\ cursor \in 0..Len(log) /\ r \in 0..cursor /\ r \in r..Len(log) /\ r \in Nat
    BY <2>2
  <2> HIDE DEF r
  <2>4. Replay(Replay(Materialized(log, cursor), log, r, r), log, r, Len(log))
          = Materialized(log, Len(log))
    BY <1>0, <2>3, ReplayRecovers
  <2>5. Replay(Materialized(log, cursor), log, r, r) = Materialized(log, cursor)
    BY <2>3, ReplayNothing
  <2> QED  BY <2>1, <2>4, <2>5 DEF r
<1>4. EverySnapshotRecovers'
  BY <1>1, <1>2, <1>3 DEF EverySnapshotRecovers
<1>5. TailingInv'
  BY <1>1, <1>2 DEF ExactInv, ViewInv, TailingInv
<1>6. NewestInv'
  BY <1>1, <1>2 DEF ExactInv, NewestInv
<1> QED
  BY <1>1, <1>4, <1>5, <1>6 DEF ExactInv, ViewInv, LoadedInv, ReplayingInv, StoppingInv

LEMMA ExactAfterStart ==
    ASSUME TypeInv, ExactInv, LoadSnapshot \/ ReplayEvents \/ ReplayDone
    PROVE  ExactInv'
<1>0. /\ Len(log) \in Nat /\ cursor \in Nat /\ retained \in Nat /\ replayEnd \in Nat
      /\ cursor <= Len(log) /\ retained <= Len(log) /\ EventsIn(log, 0, Len(log))
  BY LogIsTyped DEF TypeInv, TypeOK
<1> USE DEF kafka
<1>1. CASE LoadSnapshot
  <2>1. /\ phase' = "loaded" /\ cursor' = 0 /\ UNCHANGED <<deployment, log, retained, snapshots>>
        /\ \E s \in Loadable : view' = s.view
    BY <1>1 DEF LoadSnapshot
  <2>2. LoadedInv' /\ EverySnapshotRecovers'
    BY <2>1 DEF ExactInv, LoadedInv, EverySnapshotRecovers, Loadable
  <2> QED
    BY <2>1, <2>2 DEF ExactInv, ViewInv, ReplayingInv, TailingInv, StoppingInv, NewestInv
<1>2. CASE ReplayEvents
  <2>1. /\ phase = "loaded" /\ replayEnd' = Len(log)
        /\ phase' = IF cursor >= Len(log) THEN "tailing" ELSE "replaying"
        /\ UNCHANGED <<deployment, log, retained, snapshots, view, cursor, unsaved>>
    BY <1>2 DEF ReplayEvents
  <2>2. cursor = 0 /\ Replay(view, log, retained, Len(log)) = Materialized(log, Len(log))
    BY <2>1 DEF ExactInv, ViewInv, LoadedInv
  <2>3. /\ ~unsaved /\ Base = retained /\ Applied = retained /\ Applied' = retained
    BY <1>0, <2>1, <2>2 DEF TypeInv, UnsavedInv, Base, Applied
  <2>4. Replay(view, log, retained, retained) = view
    BY <1>0, ReplayNothing
  <2>5. Loadable' = Loadable
    BY <2>1 DEF Loadable
  <2>6. TailingInv'
    <3>1. SUFFICES ASSUME cursor >= Len(log)
                   PROVE  retained <= cursor /\ view = Materialized(log, retained)
      BY <2>1, <2>3 DEF TailingInv
    <3>2. Len(log) = 0 /\ retained = 0
      BY <1>0, <2>2, <3>1
    <3> QED  BY <2>2, <2>4, <3>2
  <2>7. ReplayingInv'
    <3>1. view \in Views
      BY DEF TypeInv, TypeOK
    <3>2. OnTheWay(view)'
      BY <2>1, <2>2, <2>3, <2>4 DEF OnTheWay
    <3> QED  BY <1>0, <2>1, <2>3, <3>1, <3>2 DEF ReplayingInv
  <2>8. NewestInv' /\ EverySnapshotRecovers'
    BY <2>1, <2>2, <2>5 DEF ExactInv, NewestInv, EverySnapshotRecovers
  <2> QED
    BY <2>1, <2>6, <2>7, <2>8 DEF ExactInv, ViewInv, LoadedInv, StoppingInv
<1>3. CASE ReplayDone
  <2>1. /\ phase = "replaying" /\ ~unsaved /\ cursor >= replayEnd /\ phase' = "tailing"
        /\ UNCHANGED <<deployment, log, retained, snapshots, view, cursor, unsaved>>
    BY <1>3 DEF ReplayDone
  <2>2. retained <= replayEnd /\ Applied <= replayEnd /\ \E v \in Views : OnTheWay(v)
    BY <2>1 DEF ExactInv, ViewInv, ReplayingInv
  <2>3. Applied = cursor /\ Applied = replayEnd /\ retained <= cursor /\ Applied' = Applied
    BY <1>0, <2>1, <2>2, AppliedInRange DEF Applied, Base
  <2>4. view = Materialized(log, cursor)
    BY <2>2, <2>3 DEF OnTheWay
  <2>5. TailingInv'
    BY <2>1, <2>3, <2>4 DEF TailingInv
  <2>6. Loadable' = Loadable
    BY <2>1 DEF Loadable
  <2>7. NewestInv' /\ EverySnapshotRecovers'
    BY <2>1, <2>4, <2>6 DEF ExactInv, NewestInv, EverySnapshotRecovers
  <2> QED
    BY <2>1, <2>5, <2>7 DEF ExactInv, ViewInv, LoadedInv, ReplayingInv, StoppingInv
<1> QED  BY <1>1, <1>2, <1>3

LEMMA ExactAfterConsume ==
    ASSUME TypeInv, ExactInv, ConsumeEvent
    PROVE  ExactInv'
<1>0. /\ Len(log) \in Nat /\ cursor \in Nat /\ retained \in Nat /\ replayEnd \in Nat
      /\ cursor <= Len(log) /\ retained <= Len(log)
  BY LogIsTyped DEF TypeInv, TypeOK
<1>1. /\ ~unsaved /\ unsaved' /\ view' = ApplyEvent(view, log[NextOffset])
      /\ UNCHANGED <<deployment, log, retained, snapshots, phase, cursor, replayEnd>>
      /\ \/ phase = "tailing" /\ NextOffset <= Len(log)
         \/ phase = "replaying" /\ cursor < replayEnd /\ NextOffset <= replayEnd
  BY DEF ConsumeEvent, CanConsume, kafka
<1>2. /\ Applied \in Nat /\ NextOffset = Applied + 1 /\ Base' = Base /\ Applied' = Applied + 1
      /\ retained <= Applied
  BY <1>0, <1>1, AppliedInRange DEF Applied, Base
<1>3. Loadable' = Loadable
  BY <1>1 DEF Loadable
<1>4. ASSUME NEW v, view = Replay(v, log, retained, Applied)
      PROVE  view' = Replay(v, log, retained, Applied + 1)
  BY <1>0, <1>1, <1>2, <1>4, ReplayOneMore
<1>5. ReplayingInv'
  <2>1. SUFFICES ASSUME phase = "replaying"
                 PROVE  /\ retained <= replayEnd /\ Applied + 1 <= replayEnd
                        /\ \E v \in Views : OnTheWay(v)'
    BY <1>1, <1>2 DEF ReplayingInv
  <2>2. PICK v \in Views : OnTheWay(v)
    BY <2>1 DEF ExactInv, ViewInv, ReplayingInv
  <2>3. OnTheWay(v)'
    BY <1>1, <1>2, <1>4, <2>2 DEF OnTheWay
  <2> QED  BY <1>0, <1>1, <1>2, <2>1, <2>3 DEF ExactInv, ViewInv, ReplayingInv
<1>6. TailingInv'
  <2>1. phase = "tailing" => view' = Materialized(log, Applied + 1)
    BY <1>0, <1>1, <1>2, ReplayOneMore DEF ExactInv, ViewInv, TailingInv, Materialized
  <2> QED  BY <1>1, <1>2, <2>1 DEF ExactInv, ViewInv, TailingInv
<1>7. NewestInv' /\ EverySnapshotRecovers'
  BY <1>1, <1>3 DEF ExactInv, NewestInv, EverySnapshotRecovers
<1> QED
  BY <1>1, <1>5, <1>6, <1>7 DEF ExactInv, ViewInv, LoadedInv, StoppingInv

\* The snapshot about to be written recovers, written in the middle of a replay or
\* behind it.
LEMMA PersistedRecovers ==
    ASSUME TypeInv, ExactInv, unsaved
    PROVE  Replay(view, log, retained, Len(log)) = Materialized(log, Len(log))
<1>0. /\ Len(log) \in Nat /\ cursor \in Nat /\ retained \in Nat /\ replayEnd \in Nat
      /\ cursor <= Len(log) /\ retained <= Len(log) /\ replayEnd <= Len(log)
      /\ EventsIn(log, 0, Len(log)) /\ EventsIn(log, retained, Len(log))
  BY LogIsTyped DEF TypeInv, TypeOK
<1>1. Applied \in Nat /\ retained <= Applied /\ Applied <= Len(log)
  <2>1. Base \in Nat /\ Applied \in Nat /\ retained <= Base /\ Base <= Applied /\ Applied <= Len(log)
    BY AppliedInRange
  <2> QED  BY <1>0, <2>1
<1>2. CASE phase = "replaying"
  <2>1. retained <= replayEnd /\ \E v \in Views : OnTheWay(v)
    BY <1>2 DEF ExactInv, ViewInv, ReplayingInv
  <2>2. PICK v \in Views : OnTheWay(v)
    BY <2>1
  <2>3. /\ Replay(v, log, retained, replayEnd) = Materialized(log, replayEnd)
        /\ view = Replay(v, log, retained, Applied)
    BY <2>2 DEF OnTheWay
  <2>4. Replay(view, log, retained, Len(log)) = Replay(v, log, retained, Len(log))
    BY <1>0, <1>1, <2>3, ReplayAbsorbs
  <2>5. Replay(v, log, retained, Len(log)) = Replay(Materialized(log, replayEnd), log, replayEnd, Len(log))
    BY <1>0, <2>1, <2>3, ReplayInParts
  <2>6. Replay(Materialized(log, replayEnd), log, replayEnd, Len(log)) = Materialized(log, Len(log))
    BY <1>0, ReplayInParts DEF Materialized
  <2> QED  BY <2>4, <2>5, <2>6
<1>3. CASE phase = "tailing"
  <2>1. view = Materialized(log, Applied)
    BY <1>3 DEF ExactInv, ViewInv, TailingInv
  <2>2. /\ Applied \in 0..Len(log) /\ retained \in 0..Applied /\ retained \in retained..Len(log)
    BY <1>0, <1>1
  <2>3. Replay(Replay(Materialized(log, Applied), log, retained, retained), log, retained, Len(log))
          = Materialized(log, Len(log))
    BY <1>0, <2>2, ReplayRecovers
  <2> QED  BY <1>0, <2>1, <2>3, ReplayNothing
<1> QED  BY <1>2, <1>3 DEF TypeInv, UnsavedInv

\* Where one snapshot counts it is the one just written.
LEMMA LoadableGrows ==
    ASSUME TypeInv, RevisionInv, unsaved, UNCHANGED deployment,
           snapshots' = snapshots \cup {Persisted}
    PROVE  /\ \A s \in Loadable' : s = Persisted \/ s \in Loadable
           /\ deployment = "pruned" => \A s \in Loadable' : s = Persisted
<1>1. CASE deployment = "complete"
  BY <1>1 DEF Loadable
<1>2. CASE deployment = "pruned"
  <2>1. \A s \in snapshots : s.revision < revision /\ s.revision \in Nat
    BY <1>2 DEF TypeInv, TypeOK, UnsavedInv, RevisionInv, Snapshots
  <2>2. Persisted.revision = revision /\ revision \in Nat
    BY DEF Persisted, TypeInv, TypeOK
  <2>3. ASSUME NEW s \in Loadable' PROVE s = Persisted
    <3>1. s \in snapshots' /\ \A t \in snapshots' : t.revision <= s.revision
      BY <1>2 DEF Loadable
    <3>2. revision <= s.revision
      BY <2>2, <3>1
    <3>3. s \notin snapshots
      BY <2>1, <2>2, <3>2
    <3> QED  BY <3>1, <3>3
  <2> QED  BY <2>3
<1> QED  BY <1>1, <1>2, DeploymentsAssumption DEF TypeInv, TypeOK

LEMMA ExactAfterWrite ==
    ASSUME TypeInv, RevisionInv, ExactInv, PublishSnapshot \/ PublishSnapshotFails
    PROVE  ExactInv'
<1>0. /\ Len(log) \in Nat /\ cursor \in Nat /\ retained \in Nat /\ replayEnd \in Nat
      /\ Base \in Nat /\ Applied = Base + 1 /\ NextOffset = Applied /\ Applied <= Len(log)
      /\ retained <= Base
  <2>1. unsaved
    BY DEF PublishSnapshot, PublishSnapshotFails
  <2>2. /\ Len(log) \in Nat /\ cursor \in Nat /\ retained \in Nat /\ replayEnd \in Nat
    BY LogIsTyped DEF TypeInv, TypeOK
  <2> QED  BY <2>1, <2>2, AppliedInRange
<1>1. /\ unsaved /\ unsaved' = FALSE
      /\ UNCHANGED <<deployment, log, retained, view, replayEnd>>
      /\ snapshots' = snapshots \/ snapshots' = snapshots \cup {Persisted}
  BY DEF PublishSnapshot, PublishSnapshotFails
<1>2. /\ phase \in {"replaying", "tailing"}
      /\ phase = "replaying" => ReplayingInv /\ Applied <= replayEnd /\ \E v \in Views : OnTheWay(v)
      /\ phase = "tailing" => retained <= cursor /\ view = Materialized(log, Applied)
  BY <1>1 DEF ExactInv, ViewInv, ReplayingInv, TailingInv, TypeInv, UnsavedInv
<1>3. EverySnapshotRecovers'
  <2>1. CASE UNCHANGED snapshots
    BY <1>1, <2>1 DEF ExactInv, EverySnapshotRecovers, Loadable
  <2>2. CASE snapshots' = snapshots \cup {Persisted}
    <3>1. \A s \in Loadable' : s = Persisted \/ s \in Loadable
      BY <1>1, <2>2, LoadableGrows
    <3>2. Persisted.view = view /\ Replay(view, log, retained, Len(log)) = Materialized(log, Len(log))
      BY <1>1, PersistedRecovers DEF Persisted
    <3> QED  BY <1>1, <3>1, <3>2 DEF ExactInv, EverySnapshotRecovers
  <2> QED  BY <1>1, <2>1, <2>2
<1>4. CASE PublishSnapshot
  <2>1. /\ cursor' = Applied /\ phase' = phase /\ snapshots' = snapshots \cup {Persisted}
    BY <1>0, <1>4 DEF PublishSnapshot
  <2>2. /\ Base' = Applied /\ Applied' = Applied
    BY <1>0, <1>1, <2>1 DEF Base, Applied
  <2>3. ReplayingInv'
    <3>1. SUFFICES ASSUME phase = "replaying"
                   PROVE  /\ retained <= replayEnd /\ Applied <= replayEnd
                          /\ \E v \in Views : OnTheWay(v)'
      BY <1>1, <2>1, <2>2 DEF ReplayingInv
    <3>2. PICK v \in Views : OnTheWay(v)
      BY <1>2, <3>1
    <3>3. OnTheWay(v)'
      BY <1>1, <2>2, <3>2 DEF OnTheWay
    <3> QED  BY <1>2, <3>1, <3>3 DEF ReplayingInv
  <2>4. TailingInv'
    BY <1>0, <1>1, <1>2, <2>1, <2>2 DEF TailingInv
  <2>5. deployment = "pruned" => \A s \in Loadable' : s.view = view
    BY <1>1, <2>1, LoadableGrows DEF Persisted
  <2>6. NewestInv'
    BY <1>1, <1>2, <2>1, <2>5 DEF NewestInv
  <2> QED
    BY <1>2, <1>3, <2>1, <2>3, <2>4, <2>6 DEF ExactInv, ViewInv, LoadedInv, StoppingInv
<1>5. CASE PublishSnapshotFails
  <2>1. /\ cursor' = cursor /\ phase' = IF phase = "replaying" THEN "down" ELSE "stopping"
    BY <1>5 DEF PublishSnapshotFails
  <2>2. NextOffset' = NextOffset
    BY <1>1, <2>1 DEF NextOffset
  <2>3. StoppingInv'
    BY <1>0, <1>1, <1>2, <2>1, <2>2 DEF StoppingInv
  <2>4. phase' \in {"down", "stopping"}
    BY <2>1
  <2> QED
    BY <1>3, <2>3, <2>4 DEF ExactInv, ViewInv, LoadedInv, ReplayingInv, TailingInv, NewestInv
<1> QED  BY <1>4, <1>5

LEMMA ExactKept == TypeInv /\ RevisionInv /\ ExactInv /\ [Next]_vars => ExactInv'
<1> SUFFICES ASSUME TypeInv, RevisionInv, ExactInv, [Next]_vars PROVE ExactInv'
  OBVIOUS
<1>1. ASSUME NEW e \in Events, PublishEvent(e) PROVE ExactInv'
  BY <1>1, ExactAfterPublish
<1>2. CASE DropRecord
  BY <1>2, ExactAfterDrop
<1>3. CASE LoadSnapshot \/ ReplayEvents \/ ReplayDone
  BY <1>3, ExactAfterStart
<1>4. CASE ConsumeEvent
  BY <1>4, ExactAfterConsume
<1>5. CASE PublishSnapshot \/ PublishSnapshotFails
  BY <1>5, ExactAfterWrite
<1>6. CASE Stop \/ Crash
  <2>1. phase' = "down" /\ UNCHANGED <<deployment, log, retained, snapshots>>
    BY <1>6 DEF Stop, Crash, kafka
  <2>2. EverySnapshotRecovers'
    BY <2>1 DEF ExactInv, EverySnapshotRecovers, Loadable
  <2> QED
    BY <2>1, <2>2 DEF ExactInv, ViewInv, LoadedInv, ReplayingInv, TailingInv, StoppingInv, NewestInv
<1>7. CASE UNCHANGED vars
  <2>1. /\ UNCHANGED <<deployment, log, retained, snapshots, phase, view, cursor, replayEnd, unsaved>>
    BY <1>7 DEF vars, kafka, process
  <2>2. Base' = Base /\ Applied' = Applied /\ NextOffset' = NextOffset /\ Loadable' = Loadable
    BY <2>1 DEF Base, Applied, NextOffset, Loadable
  <2>3. \A v \in Views : OnTheWay(v)' <=> OnTheWay(v)
    BY <2>1, <2>2 DEF OnTheWay
  <2>4. ReplayingInv'
    BY <2>1, <2>2, <2>3 DEF ExactInv, ViewInv, ReplayingInv
  <2> QED
    BY <2>1, <2>2, <2>4 DEF ExactInv, ViewInv, LoadedInv, TailingInv, StoppingInv, NewestInv,
       EverySnapshotRecovers
<1> QED
  BY <1>1, <1>2, <1>3, <1>4, <1>5, <1>6, <1>7 DEF Next, Process

LEMMA Exact == Spec => [](TypeInv /\ RevisionInv /\ ExactInv)
<1>1. Init => RevisionInv
  BY DEF Init, RevisionInv
<1> QED  BY <1>1, TypesHoldInitially, TypesKept, RevisionsKept, ExactInitially, ExactKept, PTL DEF Spec

\* The snapshot endpoint answers with the state of a process that applied the whole
\* log up to the cursor, whatever crashed or failed before (snapshotHandler).
THEOREM ServedViewsAreExact == Spec => []ServedViewIsExact
<1>1. TypeInv /\ ExactInv => ServedViewIsExact
  <2> SUFFICES ASSUME TypeInv, ExactInv PROVE ServedViewIsExact
    OBVIOUS
  <2>1. ASSUME phase = "tailing", ~unsaved PROVE view = Materialized(log, cursor)
    BY <2>1, AppliedInRange DEF ExactInv, ViewInv, TailingInv
  <2> QED  BY <2>1 DEF ServedViewIsExact, ExactInv, ViewInv, StoppingInv
<1> QED  BY <1>1, Exact, PTL

\* Whatever snapshot a restart loads, what the broker retains brings it to the end of
\* the log (LoadSnapshot, ReplayEvents).
THEOREM SnapshotsRecover == Spec => []EverySnapshotRecovers
<1>1. ExactInv => EverySnapshotRecovers
  BY DEF ExactInv
<1> QED  BY <1>1, Exact, PTL

\* A hub that is given a view by the endpoint is given the state after some prefix of
\* the log that covers everything the broker has dropped: what KafkaHub assumes of
\* the snapshot a hub starts from (serveSnapshot, Snapshot).
THEOREM EndpointServesAPrefix ==
    Spec => [](Serving /\ ~unsaved => \E n \in retained..Len(log) : view = Materialized(log, n))
<1>1. TypeInv /\ ExactInv /\ Serving /\ ~unsaved
        => \E n \in retained..Len(log) : view = Materialized(log, n)
  <2> SUFFICES ASSUME TypeInv, ExactInv, Serving, ~unsaved
               PROVE  \E n \in retained..Len(log) : view = Materialized(log, n)
    OBVIOUS
  <2>0. /\ retained \in Nat /\ cursor \in Nat /\ Len(log) \in Nat /\ NextOffset \in Nat
        /\ cursor <= Len(log) /\ retained < NextOffset
    BY LogIsTyped, AppliedInRange DEF TypeInv, TypeOK
  <2>1. CASE phase = "tailing"
    <3>1. cursor \in retained..Len(log) /\ view = Materialized(log, cursor)
      BY <2>0, <2>1, AppliedInRange DEF ExactInv, ViewInv, TailingInv
    <3> QED  BY <3>1
  <2>2. CASE phase = "stopping"
    <3>1. NextOffset \in retained..Len(log) /\ view = Materialized(log, NextOffset)
      BY <2>0, <2>2 DEF ExactInv, ViewInv, StoppingInv
    <3> QED  BY <3>1
  <2> QED  BY <2>1, <2>2 DEF Serving
<1> QED  BY <1>1, Exact, PTL

-----------------------------------------------------------------------------
(* The endpoint is a replica of the log                                    *)

LEMMA AfterIsMaterialized == \A n : Endpoint!After(n) = Materialized(log, n)
BY DEF Endpoint!After, Materialized, Replay

LEMMA OneReplica ==
    \A x, y : Alone(x)["consolidator"] = x /\ [Alone(x) EXCEPT !["consolidator"] = y] = Alone(y)
BY DEF Alone

\* What is shown is a state of the log, also while the next event is being written.
LEMMA ShownIsExact ==
    ASSUME TypeInv, ExactInv, Serving
    PROVE  /\ Shown = Materialized(log, ShownAt) /\ ShownAt \in 0..Len(log) /\ ShownAt \in Nat
           /\ phase = "tailing" => NextOffset = cursor + 1
<1>0. cursor \in Nat /\ Len(log) \in Nat /\ cursor <= Len(log) /\ NextOffset \in Nat
  BY LogIsTyped, AppliedInRange DEF TypeInv, TypeOK
<1>1. CASE phase = "tailing"
  <2>1. ShownAt = cursor /\ Base = cursor /\ NextOffset = cursor + 1
    BY <1>0, <1>1, AppliedInRange DEF ShownAt, ExactInv, ViewInv, TailingInv
  <2>2. ~unsaved => view = Materialized(log, cursor)
    BY <1>1, <2>1, AppliedInRange DEF ExactInv, ViewInv, TailingInv
  <2> QED  BY <1>0, <1>1, <2>1, <2>2 DEF Shown
<1>2. CASE phase = "stopping"
  <2>1. ~unsaved /\ ShownAt = NextOffset
    BY <1>2 DEF TypeInv, UnsavedInv, ShownAt
  <2>2. view = Materialized(log, NextOffset) /\ NextOffset <= Len(log)
    BY <1>2 DEF ExactInv, ViewInv, StoppingInv
  <2> QED  BY <1>0, <1>2, <2>1, <2>2 DEF Shown
<1> QED  BY <1>1, <1>2 DEF Serving

\* A step after which the same is shown, up to the same bound.
LEMMA NothingMoves ==
    ASSUME Serving' <=> Serving, UNCHANGED <<log, Bound, ShownAt, Shown>>
    PROVE  UNCHANGED Endpoint!vars
BY DEF Endpoint!vars, Alone

LEMMA StartingIsReplicated ==
    ASSUME TypeInv, ExactInv, ExactInv', TypeInv', LoadSnapshot \/ ReplayEvents \/ ReplayDone
    PROVE  [Endpoint!Next]_(Endpoint!vars)
<1>0. /\ cursor \in Nat /\ replayEnd \in Nat /\ Len(log) \in Nat /\ cursor <= Len(log)
  BY LogIsTyped DEF TypeInv, TypeOK
<1>1. CASE LoadSnapshot
  <2>1. ~Serving /\ ~Serving' /\ UNCHANGED <<log, Bound, ShownAt, Shown>>
    BY <1>1 DEF LoadSnapshot, Serving, Bound, ShownAt, Shown, kafka
  <2> QED  BY <2>1, NothingMoves
<1>2. ASSUME ~Serving, phase' = "tailing", UNCHANGED <<log, unsaved>>, ~unsaved, Bound' = Bound,
             cursor' = cursor, Bound <= cursor, Bound \in Nat
      PROVE  Endpoint!Show("consolidator")
  <2>1. Serving' /\ ShownAt' = cursor /\ Shown' = Endpoint!After(cursor)
    <3>1. Serving' /\ ShownAt' = cursor /\ Len(log') = Len(log)
      BY <1>2 DEF Serving, ShownAt
    <3>2. Shown' = Materialized(log', ShownAt')
      <4>1. retained' <= cursor' /\ view' = Materialized(log', Applied')
        BY <1>2 DEF ExactInv, ViewInv, TailingInv
      <4>2. retained' \in Nat /\ cursor' \in Nat
        BY <1>0, <1>2, LogIsTyped DEF TypeInv, TypeOK
      <4>3. Applied' = cursor' /\ ShownAt' = cursor'
        BY <1>2, <3>1, <4>1, <4>2 DEF Applied, Base
      <4> QED  BY <1>2, <3>1, <4>1, <4>3 DEF Shown
    <3> QED  BY <1>2, <3>1, <3>2, AfterIsMaterialized
  <2>2. cursor \in Bound..Len(log)
    BY <1>0, <1>2
  <2> QED  BY <1>2, <2>1, <2>2, OneReplica DEF Endpoint!Show
<1>3. CASE ReplayEvents
  <2>1. /\ phase = "loaded" /\ replayEnd' = Len(log) /\ UNCHANGED <<log, cursor, unsaved>>
        /\ cursor = 0 /\ ~unsaved /\ ~Serving /\ Bound = 0 /\ ShownAt = 0 /\ Shown = EmptyView
    BY <1>3 DEF ReplayEvents, kafka, TypeInv, UnsavedInv, ExactInv, ViewInv, LoadedInv, Serving,
       Bound, ShownAt, Shown
  <2>2. CASE phase' = "replaying"
    <3>1. ~Serving' /\ Bound' = Len(log) /\ ShownAt' = 0 /\ Shown' = EmptyView
      BY <2>1, <2>2 DEF Serving, Bound, ShownAt, Shown
    <3>2. Endpoint!Begin("consolidator")
      BY <2>1, <3>1, OneReplica DEF Endpoint!Begin
    <3> QED  BY <3>2 DEF Endpoint!Next
  <2>3. CASE phase' = "tailing"
    <3>1. Len(log) = 0 /\ Bound' = 0
      BY <1>0, <1>3, <2>1, <2>3 DEF ReplayEvents, Bound, Serving
    <3>2. Endpoint!Show("consolidator")
      BY <1>2, <2>1, <2>3, <3>1
    <3> QED  BY <3>2 DEF Endpoint!Next
  <2> QED  BY <1>3, <2>2, <2>3 DEF ReplayEvents
<1>4. CASE ReplayDone
  <2>1. /\ ~Serving /\ phase' = "tailing" /\ UNCHANGED <<log, unsaved, cursor>> /\ ~unsaved
        /\ Bound' = Bound /\ Bound = replayEnd /\ Bound <= cursor
    BY <1>0, <1>4 DEF ReplayDone, Serving, Bound, kafka
  <2>2. Endpoint!Show("consolidator")
    BY <1>0, <1>2, <2>1
  <2> QED  BY <2>2 DEF Endpoint!Next
<1> QED  BY <1>1, <1>3, <1>4

LEMMA WritingIsReplicated ==
    ASSUME TypeInv, ExactInv, TypeInv', ExactInv', PublishSnapshot \/ PublishSnapshotFails
    PROVE  [Endpoint!Next]_(Endpoint!vars)
<1>0. /\ unsaved /\ ~unsaved' /\ UNCHANGED <<log, retained, view, replayEnd>>
      /\ phase \in {"replaying", "tailing"}
      /\ cursor \in Nat /\ Len(log) \in Nat
  BY LogIsTyped DEF PublishSnapshot, PublishSnapshotFails, TypeInv, TypeOK, UnsavedInv
<1>1. CASE phase = "replaying"
  <2>1. ~Serving /\ ~Serving' /\ ShownAt' = ShownAt /\ Shown' = Shown /\ ShownAt = 0 /\ Shown = EmptyView
        /\ phase' \in {"replaying", "down"}
    BY <1>1 DEF PublishSnapshot, PublishSnapshotFails, Serving, ShownAt, Shown
  <2>2. CASE phase' = "replaying"
    <3>1. Bound' = Bound
      BY <1>0, <1>1, <2>2 DEF Bound
    <3> QED  BY <1>0, <2>1, <3>1, NothingMoves
  <2>3. CASE phase' = "down"
    <3>1. Bound' = 0
      BY <2>3 DEF Bound, Serving
    <3>2. Endpoint!Stop("consolidator")
      BY <1>0, <2>1, <3>1, OneReplica DEF Endpoint!Stop
    <3> QED  BY <3>2 DEF Endpoint!Next
  <2> QED  BY <2>1, <2>2, <2>3
<1>2. CASE phase = "tailing"
  <2>1. /\ Serving /\ ShownAt = cursor /\ Shown = Materialized(log, cursor) /\ NextOffset = cursor + 1
        /\ NextOffset <= Len(log)
    BY <1>0, <1>2, ShownIsExact DEF Serving, ShownAt, TypeInv, UnsavedInv
  <2>2. /\ phase' \in {"tailing", "stopping"} /\ Serving' /\ Bound' = Bound
        /\ ShownAt' = cursor + 1 /\ Shown' = view
    BY <1>0, <1>2, <2>1
       DEF PublishSnapshot, PublishSnapshotFails, Serving, Bound, ShownAt, Shown, NextOffset
  <2>3. view = Materialized(log, cursor + 1)
    BY <1>0, <1>2, <2>1, AppliedInRange DEF ExactInv, ViewInv, TailingInv
  <2>4. Materialized(log, cursor + 1) = ApplyEvent(Shown, log[ShownAt + 1])
    BY <1>0, <2>1, ReplayOneMore DEF Materialized
  <2>5. Endpoint!Advance("consolidator")
    BY <1>0, <2>1, <2>2, <2>3, <2>4, OneReplica DEF Endpoint!Advance
  <2> QED  BY <2>5 DEF Endpoint!Next
<1> QED  BY <1>0, <1>1, <1>2

LEMMA EndpointStep ==
    ASSUME TypeInv, ExactInv, TypeInv', ExactInv', [Next]_vars
    PROVE  [Endpoint!Next]_(Endpoint!vars)
<1>0. cursor \in Nat /\ log \in Seq(Events) /\ Len(log) \in Nat /\ cursor \in 0..Len(log)
  BY LogIsTyped DEF TypeInv, TypeOK
<1>1. ASSUME NEW e \in Events, PublishEvent(e) PROVE Endpoint!Publish(e)
  <2>1. log' = Append(log, e) /\ UNCHANGED <<retained, phase, view, cursor, replayEnd, unsaved>>
    BY <1>1 DEF PublishEvent, process
  <2>2. Materialized(log', cursor) = Materialized(log, cursor)
    BY <1>0, <2>1, ReplayOfPublished DEF Materialized
  <2>3. (Serving' <=> Serving) /\ Bound' = Bound /\ ShownAt' = ShownAt /\ Shown' = Shown
    BY <2>1, <2>2 DEF Serving, Bound, ShownAt, Shown, NextOffset
  <2> QED  BY <2>1, <2>3 DEF Endpoint!Publish, Alone
<1>2. CASE DropRecord \/ ConsumeEvent
  <2>1. /\ UNCHANGED <<log, phase, cursor, replayEnd>> /\ phase \in {"replaying", "tailing"}
    BY <1>2 DEF DropRecord, ConsumeEvent, CanConsume, process, kafka
  <2>2. (Serving' <=> Serving) /\ Bound' = Bound /\ ShownAt' = ShownAt
    BY <2>1 DEF Serving, Bound, ShownAt
  <2>3. Shown' = Shown
    <3>1. CASE ~Serving
      BY <2>2, <3>1 DEF Shown
    <3>2. CASE Serving /\ DropRecord
      BY <2>1, <2>2, <3>2 DEF Shown, DropRecord, process
    <3>3. CASE Serving /\ ConsumeEvent
      <4>1. unsaved' /\ phase = "tailing"
        BY <2>1, <3>3 DEF ConsumeEvent, Serving
      <4>2. Shown = Materialized(log, cursor)
        BY <3>3, <4>1, ShownIsExact DEF ShownAt
      <4> QED  BY <2>1, <2>2, <3>3, <4>1, <4>2 DEF Shown
    <3> QED  BY <1>2, <3>1, <3>2, <3>3
  <2> QED  BY <2>1, <2>2, <2>3, NothingMoves
<1>3. CASE LoadSnapshot \/ ReplayEvents \/ ReplayDone
  BY <1>3, StartingIsReplicated
<1>4. CASE PublishSnapshot \/ PublishSnapshotFails
  BY <1>4, WritingIsReplicated
<1>5. CASE Stop \/ Crash
  <2>1. phase' = "down" /\ log' = log
    BY <1>5 DEF Stop, Crash, kafka
  <2>2. ~Serving' /\ Bound' = 0 /\ ShownAt' = 0 /\ Shown' = EmptyView
    BY <2>1 DEF Serving, Bound, ShownAt, Shown
  <2>3. Endpoint!Stop("consolidator")
    BY <2>1, <2>2, OneReplica DEF Endpoint!Stop
  <2> QED  BY <2>3 DEF Endpoint!Next
<1>6. CASE UNCHANGED vars
  <2>1. UNCHANGED <<log, retained, phase, view, cursor, replayEnd, unsaved>>
    BY <1>6 DEF vars, kafka, process
  <2>2. (Serving' <=> Serving) /\ UNCHANGED <<log, Bound, ShownAt, Shown>>
    BY <2>1 DEF Serving, Bound, ShownAt, Shown, NextOffset
  <2> QED  BY <2>2, NothingMoves
<1>7. ASSUME NEW e \in Events, PublishEvent(e) PROVE Endpoint!Next
  BY <1>1, <1>7 DEF Endpoint!Next
<1> QED
  BY <1>2, <1>3, <1>4, <1>5, <1>6, <1>7 DEF Next, Process

\* The snapshot endpoint is the same kind of replica as a hub, although its process
\* keeps no offset, loads whatever snapshot it finds, and may lose the log's
\* beginning to retention.
THEOREM EndpointIsAReplica == Spec => ImplementsReplicatedView
<1>1. Init => Endpoint!Init
  <2> SUFFICES ASSUME Init PROVE Endpoint!Init
    OBVIOUS
  <2>1. ~Serving /\ Bound = 0 /\ ShownAt = 0 /\ Shown = EmptyView /\ log = <<>>
    BY DEF Init, Serving, Bound, ShownAt, Shown
  <2> QED  BY <2>1 DEF Endpoint!Init, Alone
<1>2. TypeInv /\ ExactInv /\ TypeInv' /\ ExactInv' /\ [Next]_vars => [Endpoint!Next]_(Endpoint!vars)
  BY EndpointStep
<1> QED  BY <1>1, <1>2, Exact, PTL DEF Spec, ImplementsReplicatedView, Endpoint!Spec

-----------------------------------------------------------------------------
(* Startup                                                                 *)

\* There is a snapshot that outranks all others; only a pruned deployment drops
\* records; what is replayed is what the broker still has.
StartInv ==
    /\ deployment = "complete" => retained = 0
    /\ deployment = "pruned" => \/ snapshots = {}
                                \/ \E s \in snapshots : \A t \in snapshots : t.revision <= s.revision
    /\ phase = "loaded" => cursor = 0
    /\ (phase = "replaying" /\ cursor # 0) => retained <= cursor

LEMMA StartKept == TypeInv /\ RevisionInv /\ StartInv /\ [Next]_vars => StartInv'
<1> SUFFICES ASSUME TypeInv, RevisionInv, StartInv, [Next]_vars PROVE StartInv'
  OBVIOUS
<1>0. /\ cursor \in Nat /\ retained \in Nat /\ revision \in Nat
      /\ \A s \in snapshots : s.revision \in Nat
      /\ unsaved => phase \in {"replaying", "tailing"}
  BY DEF TypeInv, TypeOK, UnsavedInv, Snapshots
<1> USE DEF StartInv, kafka, process
<1>1. CASE \E e \in Events : PublishEvent(e)
  BY <1>1 DEF PublishEvent
<1>2. CASE DropRecord
  BY <1>0, <1>2 DEF DropRecord
<1>3. CASE LoadSnapshot \/ ReplayDone \/ Stop \/ Crash
  BY <1>3 DEF LoadSnapshot, ReplayDone, Stop, Crash
<1>4. CASE ReplayEvents
  BY <1>0, <1>4 DEF ReplayEvents
<1>5. CASE ConsumeEvent
  BY <1>5 DEF ConsumeEvent
<1>6. CASE PublishSnapshot \/ PublishSnapshotFails
  <2>1. \/ snapshots' = snapshots
        \/ snapshots' = snapshots \cup {Persisted} /\ unsaved
    BY <1>6 DEF PublishSnapshot, PublishSnapshotFails
  <2>2. deployment = "pruned" /\ unsaved => \A s \in snapshots : s.revision <= Persisted.revision
    BY <1>0 DEF RevisionInv, Persisted
  <2>3. deployment = "pruned" =>
          \/ snapshots' = {}
          \/ \E s \in snapshots' : \A t \in snapshots' : t.revision <= s.revision
    <3>1. CASE snapshots' = snapshots
      BY <3>1
    <3>2. CASE snapshots' = snapshots \cup {Persisted} /\ unsaved
      <4>1. Persisted.revision <= Persisted.revision
        BY <1>0 DEF Persisted
      <4> QED  BY <2>2, <3>2, <4>1
    <3> QED  BY <2>1, <3>1, <3>2
  <2>4. phase' = "replaying" => retained <= cursor'
    BY <1>0, <1>6 DEF PublishSnapshot, PublishSnapshotFails, NextOffset
  <2>5. UNCHANGED <<deployment, retained>>
    BY <1>6 DEF PublishSnapshot, PublishSnapshotFails
  <2>6. phase' # "loaded"
    BY <1>0, <1>6 DEF PublishSnapshot, PublishSnapshotFails
  <2> QED  BY <2>3, <2>4, <2>5, <2>6
<1>7. CASE UNCHANGED vars
  BY <1>7 DEF vars
<1> QED  BY <1>1, <1>2, <1>3, <1>4, <1>5, <1>6, <1>7 DEF Next, Process

LEMMA StartHolds == Spec => []StartInv
<1>1. Init => StartInv
  BY DEF Init, StartInv
<1> QED  BY <1>1, StartKept, Exact, PTL DEF Spec

\* Startup waits for ever in one case only, a log of which retention has left nothing
\* below its end, and then it has no need to: the snapshot it restored is the state at
\* the boundary that ReplayEvents waits for, and no record has been read.
THEOREM StartupStallsNeedlessly == Spec => []StallsAreNeedless
<1>1. TypeInv /\ ExactInv /\ StartInv => StallsAreNeedless
  <2> SUFFICES ASSUME TypeInv, ExactInv, StartInv, phase # "tailing", ~StartupCanMove
               PROVE  /\ phase = "replaying" /\ deployment = "pruned"
                      /\ cursor = 0 /\ retained = replayEnd
                      /\ view = Materialized(log, replayEnd)
    BY DEF StallsAreNeedless
  <2>0. /\ cursor \in Nat /\ retained \in Nat /\ replayEnd \in Nat
        /\ deployment \in Deployments
        /\ phase \in {"down", "loaded", "replaying", "tailing", "stopping"}
    BY LogIsTyped DEF TypeInv, TypeOK
  <2>1. phase # "down"
    BY <2>0, DeploymentsAssumption DEF StartupCanMove, Loadable, StartInv
  <2>2. phase = "replaying" /\ ~unsaved /\ cursor < replayEnd /\ ~(NextOffset <= replayEnd)
    BY <2>0, <2>1 DEF StartupCanMove
  <2>3. retained <= replayEnd /\ \E v \in Views : OnTheWay(v)
    BY <2>2 DEF ExactInv, ViewInv, ReplayingInv
  <2>4. cursor < retained /\ retained = replayEnd
    BY <2>0, <2>2, <2>3 DEF NextOffset
  <2>5. cursor = 0 /\ deployment # "complete"
    BY <2>0, <2>2, <2>4 DEF StartInv
  <2>6. Applied = replayEnd
    BY <2>2, <2>4 DEF Applied, Base
  <2>7. view = Materialized(log, replayEnd)
    BY <2>3, <2>6 DEF OnTheWay
  <2> QED  BY <2>0, <2>2, <2>4, <2>5, <2>7, DeploymentsAssumption
<1> QED  BY <1>1, Exact, StartHolds, PTL

\* A start that does not fail gets nearer its end with every step it takes, and the
\* events that the hubs publish meanwhile leave the boundary of its replay alone.
THEOREM StartupOnlyAdvances == Spec => StartupAdvances
<1> DEFINE Advance == phase # "tailing" => IF Process THEN StartupComesNearer
                                            ELSE UNCHANGED process \/ failures < failures'
<1>1. ASSUME TypeInv, ExactInv, Next PROVE Advance
  <2> SUFFICES ASSUME phase # "tailing"
               PROVE  IF Process THEN StartupComesNearer
                      ELSE UNCHANGED process \/ failures < failures'
    OBVIOUS
  <2>0. /\ cursor \in Nat /\ retained \in Nat /\ replayEnd \in Nat /\ failures \in Nat
        /\ NextOffset \in Nat /\ cursor < NextOffset
        /\ unsaved => phase = "replaying" /\ NextOffset <= replayEnd
    <3>1. cursor \in Nat /\ retained \in Nat /\ replayEnd \in Nat /\ failures \in Nat
      BY <1>1, LogIsTyped DEF TypeInv, TypeOK
    <3>2. NextOffset \in Nat /\ cursor < NextOffset
      BY <3>1 DEF NextOffset
    <3>3. unsaved => phase = "replaying"
      BY <1>1 DEF TypeInv, UnsavedInv
    <3>4. unsaved => NextOffset <= replayEnd
      BY <1>1, <3>3, AppliedInRange DEF ExactInv, ViewInv, ReplayingInv
    <3> QED  BY <3>1, <3>2, <3>3, <3>4
  <2>1. CASE LoadSnapshot \/ ReplayEvents \/ ReplayDone \/ Stop
    BY <2>1 DEF LoadSnapshot, ReplayEvents, ReplayDone, Stop, Process, StartupComesNearer, StartStepsLeft
  <2>2. CASE ConsumeEvent
    BY <2>2 DEF ConsumeEvent, CanConsume, Process, StartupComesNearer
  <2>3. CASE PublishSnapshot
    BY <2>0, <2>3 DEF PublishSnapshot, Process, StartupComesNearer
  <2>4. ASSUME ~Process PROVE UNCHANGED process \/ failures < failures'
    BY <1>1, <2>0, <2>4 DEF Next, PublishEvent, DropRecord, PublishSnapshotFails, Crash
  <2>5. Process => StartupComesNearer
    BY <2>1, <2>2, <2>3 DEF Process
  <2> QED  BY <2>4, <2>5
<1>2. TypeInv /\ ExactInv /\ [Next]_vars => [Advance]_vars
  BY <1>1
<1> QED  BY <1>2, Exact, PTL DEF Spec, StartupAdvances
=============================================================================
