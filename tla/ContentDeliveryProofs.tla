------------------------- MODULE ContentDeliveryProofs -------------------------
(***************************************************************************)
(* ContentDelivery implements OrderedFeed, for every number of attempts,   *)
(* batch size, log length and number of failures.  The invariant says what *)
(* the worker's position knows about the records behind it.                *)
(***************************************************************************)
EXTENDS ContentDelivery, TLAPS

Running == step \in {"polling", "delivering", "committing"}

\* The records after i up to k have all been received.
Got(i, k) == \A j \in Int : (i < j /\ j <= k) => j \in received

\* The numbers of the state are what TypeOK says, as far as the proof needs it.
Typed ==
    /\ content \in Nat
    /\ committed \in Nat \cup {NoOffset} /\ origin \in Nat \cup {NoOffset}
    /\ step \in {"none", "polling", "delivering", "committing", "failed"}
    /\ status \in {"active", "stale", "removed"}
    /\ position \in Nat /\ batchEnd \in Nat /\ next \in Nat
    /\ \A i \in received : i \in Int /\ i <= content

\* A worker runs only for an active subscription, whose feed begins with its consumer.
Begun ==
    /\ step # "none" => status = "active"
    /\ Running => origin # NoOffset
    /\ committed # NoOffset => origin # NoOffset
    /\ origin # NoOffset => origin <= content

\* Everything acknowledged has been received, and nothing beyond the log.
Acked == committed # NoOffset => (origin <= committed /\ committed <= content /\ Got(origin, committed))

\* Records arrive without a gap.
NoGap ==
    origin # NoOffset =>
        \A i \in received : \A j \in Int : (origin < j /\ j < i) => j \in received

\* The consumer polls where the group is, and what it has of the batch in hand
\* has been received.
Position ==
    /\ Running => position = IF committed = NoOffset THEN origin ELSE committed
    /\ step = "delivering" =>
           (position < next /\ next <= batchEnd /\ batchEnd <= content /\ Got(position, next - 1))
    /\ step = "committing" =>
           (position < batchEnd /\ batchEnd <= content /\ Got(position, batchEnd))

Inv == Typed /\ Begun /\ Acked /\ NoGap /\ Position

LEMMA InitInv == Init => Inv
BY DeliveryAssumption DEF Init, Inv, Typed, Begun, Acked, NoGap, Position, Running, Got

LEMMA StepInv == Inv /\ [Next]_vars => Inv'
<1> SUFFICES ASSUME Inv, [Next]_vars PROVE Inv'
  OBVIOUS
<1> USE DeliveryAssumption
<1>1. CASE UNCHANGED vars
  BY <1>1 DEF Inv, vars, worker, Typed, Begun, Acked, NoGap, Position, Running, Got
<1>2. CASE PublishContent
  BY <1>2 DEF Inv, PublishContent, worker, Typed, Begun, Acked, NoGap, Position, Running, Got
<1>3. CASE StartWorker
  <2>1. Typed'
    BY <1>3 DEF Inv, StartWorker, Typed
  <2>2. Begun' /\ Position'
    BY <1>3 DEF Inv, StartWorker, Typed, Begun, Acked, Position, Running, Got
  <2>3. Acked' /\ NoGap'
    BY <1>3 DEF Inv, StartWorker, Typed, Begun, Acked, NoGap, Got
  <2> QED
    BY <2>1, <2>2, <2>3 DEF Inv
<1>4. CASE PollRecords
  BY <1>4 DEF Inv, PollRecords, Typed, Begun, Acked, NoGap, Position, Running, Got
<1>5. CASE DeliverySucceeds
  <2>1. origin <= position /\ Got(origin, position)
    BY <1>5 DEF Inv, DeliverySucceeds, Typed, Begun, Acked, Position, Running, Got
  <2>2. Typed' /\ Begun' /\ Acked'
    BY <1>5 DEF Inv, DeliverySucceeds, Typed, Begun, Acked, Position, Got
  <2>3. NoGap'
    BY <1>5, <2>1 DEF Inv, DeliverySucceeds, Typed, Begun, NoGap, Position, Got
  <2>4. Position'
    BY <1>5 DEF Inv, DeliverySucceeds, Typed, Begun, Position, Running, Got
  <2> QED
    BY <2>2, <2>3, <2>4 DEF Inv
<1>6. CASE DeliveryFails
  <2>1. origin <= position /\ Got(origin, position)
    BY <1>6 DEF Inv, DeliveryFails, Typed, Begun, Acked, Position, Running, Got
  <2>2. Typed' /\ Begun' /\ Acked'
    BY <1>6 DEF Inv, DeliveryFails, Typed, Begun, Acked, Position, Got
  <2>3. NoGap'
    BY <1>6, <2>1 DEF Inv, DeliveryFails, Typed, Begun, NoGap, Position, Got
  <2>4. Position'
    BY <1>6 DEF Inv, DeliveryFails, Typed, Begun, Position, Running, Got
  <2> QED
    BY <2>2, <2>3, <2>4 DEF Inv
<1>7. CASE CommitRecords
  BY <1>7 DEF Inv, CommitRecords, Typed, Begun, Acked, NoGap, Position, Running, Got
<1>8. CASE CommitFails
  BY <1>8 DEF Inv, CommitFails, Typed, Begun, Acked, NoGap, Position, Running, Got
<1>9. CASE ConsumerFails \/ BatchFails \/ DeliveryGone \/ MarkStale \/ Unsubscribe \/ Crash
  BY <1>9 DEF Inv, ConsumerFails, BatchFails, DeliveryGone, MarkStale, Unsubscribe, Crash,
              Typed, Begun, Acked, NoGap, Position, Running, Got
<1>10. CASE Resubscribe
  BY <1>10 DEF Inv, Resubscribe, worker, Typed, Begun, Acked, NoGap, Position, Running, Got
<1> QED
  BY <1>1, <1>2, <1>3, <1>4, <1>5, <1>6, <1>7, <1>8, <1>9, <1>10 DEF Next, Worker

LEMMA Invariance == Spec => []Inv
<1>1. Init => Inv
  BY InitInv
<1>2. Inv /\ [Next]_vars => Inv'
  BY StepInv
<1> QED
  BY <1>1, <1>2, PTL DEF Spec

\* Every state is typed: in particular the record being delivered lies in the
\* batch in hand, and the batch in the log (PollRecords and deliverBatch).
THEOREM DeliveryTypes == Spec => []TypeOK
<1> USE DeliveryAssumption
<1>1. Init => TypeOK
  BY DEF Init, TypeOK, Offsets
<1>2. TypeOK /\ [Next]_vars => TypeOK'
  <2> SUFFICES ASSUME TypeOK, [Next]_vars PROVE TypeOK'
    OBVIOUS
  <2> USE DEF TypeOK, Offsets
  <2>1. CASE UNCHANGED vars \/ PublishContent \/ Resubscribe
    <3>1. CASE UNCHANGED vars
      BY <3>1 DEF vars, worker
    <3>2. CASE PublishContent
      BY <3>2 DEF PublishContent, worker
    <3>3. CASE Resubscribe
      BY <3>3 DEF Resubscribe, worker
    <3> QED
      BY <2>1, <3>1, <3>2, <3>3
  <2>2. CASE StartWorker \/ PollRecords
    <3>1. CASE StartWorker
      BY <3>1 DEF StartWorker
    <3>2. CASE PollRecords
      BY <3>2 DEF PollRecords
    <3> QED
      BY <2>2, <3>1, <3>2
  <2>3. CASE DeliverySucceeds
    BY <2>3 DEF DeliverySucceeds
  <2>4. CASE DeliveryFails
    BY <2>4 DEF DeliveryFails, Fail
  <2>5. CASE CommitRecords
    BY <2>5 DEF CommitRecords
  <2>6. CASE CommitFails
    BY <2>6 DEF CommitFails, Fail
  <2>7. CASE DeliveryGone \/ MarkStale \/ Unsubscribe
    BY <2>7 DEF DeliveryGone, MarkStale, Unsubscribe
  <2>8. CASE ConsumerFails \/ BatchFails \/ Crash
    <3>1. CASE ConsumerFails
      BY <3>1 DEF ConsumerFails, Fail
    <3>2. CASE BatchFails
      BY <3>2 DEF BatchFails, Fail
    <3>3. CASE Crash
      BY <3>3 DEF Crash, Fail
    <3> QED
      BY <2>8, <3>1, <3>2, <3>3
  <2> QED
    BY <2>1, <2>2, <2>3, <2>4, <2>5, <2>6, <2>7, <2>8 DEF Next, Worker
<1> QED
  BY <1>1, <1>2, PTL DEF Spec

-----------------------------------------------------------------------------
LEMMA InitRefines == Init => Feed!Init
BY DEF Init, Feed!Init

LEMMA StepRefines == Inv /\ [Next]_vars => [Feed!Next]_(Feed!vars)
<1> SUFFICES ASSUME Inv, [Next]_vars PROVE [Feed!Next]_(Feed!vars)
  OBVIOUS
<1> USE DeliveryAssumption
<1>1. CASE UNCHANGED vars
  BY <1>1 DEF vars, worker, Feed!vars
<1>2. CASE PublishContent
  BY <1>2 DEF PublishContent, Feed!Next, Feed!Write
<1>3. CASE StartWorker
  BY <1>3 DEF StartWorker, Feed!Next, Feed!Begin, Feed!vars
<1>4. CASE PollRecords
  BY <1>4 DEF PollRecords, Feed!vars
<1>5. CASE DeliverySucceeds \/ DeliveryFails
  <2>1. step = "delivering" /\ received' \in {received, received \cup {next}}
        /\ UNCHANGED <<content, origin, committed, status>>
    BY <1>5 DEF DeliverySucceeds, DeliveryFails
  <2>2. CASE received' = received
    BY <2>1, <2>2 DEF Feed!vars
  <2>3. CASE received' = received \cup {next}
    <3>1. next \in 1..content /\ origin # NoOffset /\ origin < next
      BY <2>1 DEF Inv, Typed, Begun, Acked, Position, Running
    <3>2. \A j \in (origin + 1)..(next - 1) : j \in received
      BY <2>1, <3>1 DEF Inv, Typed, Begun, Acked, Position, Running, Got
    <3>3. next \notin received => \A j \in received : j < next
      BY <3>1 DEF Inv, Typed, NoGap
    <3>4. Feed!Receive(next)
      BY <2>1, <2>3, <3>1, <3>2, <3>3 DEF Feed!Receive
    <3> QED
      BY <3>1, <3>4 DEF Feed!Next
  <2> QED
    BY <2>1, <2>2, <2>3
<1>6. CASE CommitRecords \/ CommitFails
  <2>1. step = "committing" /\ committed' \in {committed, batchEnd}
        /\ UNCHANGED <<content, origin, received, status>>
    BY <1>6 DEF CommitRecords, CommitFails
  <2>2. CASE committed' = committed
    BY <2>1, <2>2 DEF Feed!vars
  <2>3. CASE committed' = batchEnd
    <3>1. batchEnd \in 1..content /\ origin # NoOffset /\ origin < batchEnd
      BY <2>1 DEF Inv, Typed, Begun, Acked, Position, Running
    <3>2. /\ committed # NoOffset => committed <= batchEnd
          /\ \A j \in (origin + 1)..batchEnd : j \in received
      BY <2>1, <3>1 DEF Inv, Typed, Begun, Acked, Position, Running, Got
    <3>3. Feed!Acknowledge(batchEnd)
      BY <2>1, <2>3, <3>1, <3>2 DEF Feed!Acknowledge
    <3> QED
      BY <3>1, <3>3 DEF Feed!Next
  <2> QED
    BY <2>1, <2>2, <2>3
<1>7. CASE DeliveryGone \/ MarkStale
  BY <1>7 DEF Inv, Begun, DeliveryGone, MarkStale, Feed!Next, Feed!Change
<1>8. CASE Resubscribe
  BY <1>8 DEF Resubscribe, Feed!Next, Feed!Change
<1>9. CASE Unsubscribe
  BY <1>9 DEF Unsubscribe, Feed!Next, Feed!Change, Feed!vars
<1>10. CASE ConsumerFails \/ BatchFails \/ Crash
  BY <1>10 DEF ConsumerFails, BatchFails, Crash, Feed!vars
<1> QED
  BY <1>1, <1>2, <1>3, <1>4, <1>5, <1>6, <1>7, <1>8, <1>9, <1>10 DEF Next, Worker

\* The records of a subscription's topic reach it in order, each at least once,
\* and are acknowledged only then, from the place the group starts at and
\* whatever attempts, commits and owners fail: ConsumeSubscription and
\* deliverBatch keep the promise of OrderedFeed.
THEOREM DeliveryIsAnOrderedFeed == Spec => ImplementsFeed
<1>1. Init => Feed!Init
  BY InitRefines
<1>2. Inv /\ [Next]_vars => [Feed!Next]_(Feed!vars)
  BY StepRefines
<1>3. Spec => []Inv
  BY Invariance
<1> QED
  BY <1>1, <1>2, <1>3, PTL DEF Spec, ImplementsFeed, Feed!Spec

-----------------------------------------------------------------------------
(* What progress rests on besides fairness.                                *)

\* A consumer that is gone was no further than the next one will begin.
Behind == position <= content /\ (committed # NoOffset => position <= committed)

LEMMA StaysBehind == Spec => []Behind
<1> USE DeliveryAssumption
<1>1. Init => Behind
  BY DEF Init, Behind
<1>2. Inv /\ Behind /\ [Next]_vars => Behind'
  <2> SUFFICES ASSUME Inv, Behind, [Next]_vars PROVE Behind'
    OBVIOUS
  <2>1. /\ content \in Nat /\ position \in Nat /\ batchEnd \in Nat
        /\ committed \in Nat \cup {NoOffset}
        /\ committed # NoOffset => committed <= content
        /\ step = "committing" => position < batchEnd /\ batchEnd <= content
    BY DEF Inv, Typed, Acked, Position
  <2>2. CASE PublishContent
    BY <2>1, <2>2 DEF PublishContent, Behind, worker
  <2>3. CASE StartWorker
    BY <2>1, <2>3 DEF StartWorker, Behind
  <2>4. CASE CommitRecords
    BY <2>1, <2>4 DEF CommitRecords, Behind
  <2>5. CASE CommitFails
    BY <2>1, <2>5 DEF CommitFails, Behind
  <2>6. CASE \/ UNCHANGED vars \/ PollRecords \/ DeliverySucceeds \/ DeliveryFails \/ DeliveryGone
             \/ ConsumerFails \/ BatchFails \/ MarkStale \/ Resubscribe \/ Unsubscribe \/ Crash
    <3>1. UNCHANGED <<content, position, committed>>
      BY <2>6 DEF vars, worker, PollRecords, DeliverySucceeds, DeliveryFails, DeliveryGone,
         ConsumerFails, BatchFails, MarkStale, Resubscribe, Unsubscribe, Crash
    <3> QED  BY <3>1 DEF Behind
  <2> QED  BY <2>2, <2>3, <2>4, <2>5, <2>6 DEF Next, Worker
<1> QED  BY <1>1, <1>2, Invariance, PTL DEF Spec

\* A consumer that finds no more records leaves nothing behind: what it polls next
\* is beyond the end of the log only if all of it was delivered and committed
\* (PollRecords, CommitRecords).
THEOREM WaitingLeavesNothing == Spec => []WaitingMeansServed
<1>1. Inv => WaitingMeansServed
  <2> SUFFICES ASSUME Inv, status = "active", ~WorkerCanMove
               PROVE  /\ origin # NoOffset
                      /\ \A i \in (origin + 1)..content :
                            i \in received /\ committed # NoOffset /\ i <= committed
    BY DEF WaitingMeansServed
  <2>1. step = "polling" /\ ~(position < content)
    BY DEF WorkerCanMove, Inv, Typed
  <2>2. /\ origin \in Nat /\ content \in Nat /\ position \in Nat /\ origin <= content
        /\ origin # NoOffset /\ position >= content
        /\ position = IF committed = NoOffset THEN origin ELSE committed
    BY <2>1 DEF Inv, Typed, Begun, Position, Running
  <2>3. CASE committed = NoOffset
    BY <2>2, <2>3
  <2>4. CASE committed # NoOffset
    BY <2>2, <2>4 DEF Inv, Acked, Got
  <2> QED  BY <2>2, <2>3, <2>4
<1> QED  BY <1>1, Invariance, PTL

\* Between two failures the records of a subscription are gone through once: each
\* step delivers or commits further, or comes nearer to it (ConsumeSubscription,
\* deliverBatch and the life cycle of the worker around them).
THEOREM DeliveryOnlyAdvances == Spec => DeliveryAdvances
<1> USE DeliveryAssumption
<1> DEFINE Advance == \/ failures < failures'
                      \/ content < content' /\ UNCHANGED <<failures, worker, status>>
                      \/ DeliveryComesNearer
<1>1. ASSUME TypeOK, Inv, Behind, Next PROVE Advance
  <2>1. /\ content \in Nat /\ position \in Nat /\ batchEnd \in Nat /\ next \in Nat /\ failures \in Nat
        /\ committed \in Nat \cup {NoOffset} /\ position <= content
        /\ committed # NoOffset => position <= committed /\ committed <= content
        /\ status \in {"active", "stale", "removed"}
        /\ step \in {"none", "polling", "delivering", "committing", "failed"}
        /\ step # "none" => status = "active"
        /\ step = "delivering" => position < next /\ next <= batchEnd
        /\ step = "committing" => position < batchEnd /\ batchEnd <= content
    BY <1>1 DEF TypeOK, Inv, Typed, Begun, Acked, Position, Behind
  <2>2. CASE PublishContent
    BY <2>1, <2>2 DEF PublishContent
  <2>3. CASE ConsumerFails \/ DeliveryFails \/ BatchFails \/ CommitFails \/ Crash
    BY <2>1, <2>3 DEF ConsumerFails, DeliveryFails, BatchFails, CommitFails, Crash, Fail
  <2>4. CASE StartWorker
    BY <2>1, <2>4 DEF StartWorker, DeliveryComesNearer, WorkerStepsLeft
  <2>5. CASE PollRecords
    BY <2>1, <2>5 DEF PollRecords, DeliveryComesNearer, WorkerStepsLeft
  <2>6. CASE DeliverySucceeds
    <3>1. CASE next = batchEnd
      BY <2>1, <2>6, <3>1 DEF DeliverySucceeds, DeliveryComesNearer, WorkerStepsLeft
    <3>2. CASE next # batchEnd
      BY <2>1, <2>6, <3>2 DEF DeliverySucceeds, DeliveryComesNearer
    <3> QED  BY <3>1, <3>2
  <2>7. CASE CommitRecords
    BY <2>1, <2>7 DEF CommitRecords, DeliveryComesNearer
  <2>8. CASE DeliveryGone \/ MarkStale
    BY <2>1, <2>8 DEF DeliveryGone, MarkStale, DeliveryComesNearer, WorkerStepsLeft
  <2>9. CASE Resubscribe
    BY <2>1, <2>9 DEF Resubscribe, worker, DeliveryComesNearer, WorkerStepsLeft
  <2>10. CASE Unsubscribe
    BY <2>1, <2>10 DEF Unsubscribe, DeliveryComesNearer, WorkerStepsLeft
  <2> QED
    BY <1>1, <2>2, <2>3, <2>4, <2>5, <2>6, <2>7, <2>8, <2>9, <2>10 DEF Next, Worker
<1>2. TypeOK /\ Inv /\ Behind /\ [Next]_vars => [Advance]_vars
  BY <1>1
<1> QED  BY <1>2, DeliveryTypes, Invariance, StaysBehind, PTL DEF Spec, DeliveryAdvances
=============================================================================
