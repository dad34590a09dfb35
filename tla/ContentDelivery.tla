---------------------------- MODULE ContentDelivery ----------------------------
(***************************************************************************)
(* One subscription of examples/kafka-websubhub and the records of its     *)
(* content topic: broker.go ConsumeSubscription polls, delivers and        *)
(* commits batches, hub.go deliverBatch and deliverContent retry, and a    *)
(* worker that gives up leaves the subscription stale until it is          *)
(* subscribed again.  KafkaHub has the events and the workers' lifecycle;  *)
(* here the subscription is reduced to its status.                         *)
(*                                                                         *)
(* Kafka is external: records are numbered from 1, an offset is the number *)
(* of records before it, and a group without a committed offset starts at  *)
(* the end of the log (ConsumeStartOffset AtEnd).                          *)
(***************************************************************************)
EXTENDS Integers, FiniteSets

CONSTANTS
    DeliveryAttempts,       \* Options.DeliveryAttempts
    MaxContentBatchRecords, \* maxContentBatchRecords, 5 in the code
    NoOffset,
    MaxContent,             \* bound on the records published
    MaxFailures             \* bound on failed polls, attempts and commits, and crashes

ASSUME DeliveryAssumption ==
    /\ DeliveryAttempts \in Nat \ {0}
    /\ MaxContentBatchRecords \in Nat \ {0}
    /\ NoOffset \notin Int
    /\ MaxContent \in Nat \ {0} /\ MaxFailures \in Nat

VARIABLES
    content,        \* number of records in the content topic
    committed,      \* the group's committed offset
    status,         \* active, stale or removed: the entry as its owner sees it
    step,           \* the worker: none, polling, delivering, committing, failed
    position,       \* where the consumer polls next
    batchEnd,       \* last record of the batch in hand
    next,           \* record being delivered
    attempt,        \* attempt under way, 1..DeliveryAttempts
    received,       \* records the subscriber has received at least once
    joined,         \* offset at which the group's first consumer started
    origin,         \* offset at which its last consumer without a commit started
    failures

worker == <<step, position, batchEnd, next, attempt>>
vars   == <<content, committed, status, worker, received, joined, origin, failures>>

Offsets == 0..MaxContent

TypeOK ==
    /\ content \in Offsets
    /\ committed \in Offsets \cup {NoOffset}
    /\ status \in {"active", "stale", "removed"}
    /\ step \in {"none", "polling", "delivering", "committing", "failed"}
    /\ position \in Offsets /\ batchEnd \in Offsets /\ next \in 0..(MaxContent + 1)
    /\ attempt \in 1..DeliveryAttempts
    /\ received \subseteq 1..MaxContent
    /\ joined \in Offsets \cup {NoOffset} /\ origin \in Offsets \cup {NoOffset}
    /\ failures \in 0..MaxFailures
    /\ step = "delivering" => (position < next /\ next <= batchEnd /\ batchEnd <= content)

Init ==
    /\ content \in 0..1     \* a topic may have history
    /\ committed = NoOffset /\ status = "active" /\ step = "none"
    /\ position = 0 /\ batchEnd = 0 /\ next = 0 /\ attempt = 1
    /\ received = {} /\ joined = NoOffset /\ origin = NoOffset
    /\ failures = 0

Fail == failures < MaxFailures /\ failures' = failures + 1

\* PublishContent.
PublishContent ==
    /\ content < MaxContent
    /\ content' = content + 1
    /\ UNCHANGED <<committed, status, worker, received, joined, origin, failures>>

StartWorker ==
    /\ status = "active" /\ step = "none"
    /\ step' = "polling"
    /\ position' = IF committed = NoOffset THEN content ELSE committed
    /\ joined' = IF joined = NoOffset THEN position' ELSE joined
    /\ origin' = IF committed = NoOffset THEN position' ELSE origin
    /\ UNCHANGED <<content, committed, status, batchEnd, next, attempt, received, failures>>

\* Mutant of PollRecords: the end of the log is not heeded.
PollBeyondEnd ==
    /\ step = "polling" /\ position < content
    /\ batchEnd' = position + MaxContentBatchRecords
    /\ next' = position + 1 /\ attempt' = 1
    /\ step' = "delivering"
    /\ UNCHANGED <<content, committed, status, position, received, joined, origin, failures>>

\* PollRecords returns at least one and at most maxContentBatchRecords records.
PollRecords ==
    /\ step = "polling"
    /\ \E n \in 1..MaxContentBatchRecords :
         /\ position + n <= content
         /\ batchEnd' = position + n
    /\ next' = position + 1 /\ attempt' = 1
    /\ step' = "delivering"
    /\ UNCHANGED <<content, committed, status, position, received, joined, origin, failures>>

\* NewClient or PollRecords returns an error: nothing of the log is in hand.
ConsumerFails ==
    /\ status = "active" /\ step \in {"none", "polling"} /\ Fail
    /\ step' = "failed"
    /\ UNCHANGED <<content, committed, status, position, batchEnd, next, attempt, received,
                   joined, origin>>

\* deliverContent returns nil and deliverBatch goes on; after the last record
\* the batch is committed.
DeliverySucceeds ==
    /\ step = "delivering"
    /\ received' = received \cup {next}
    /\ next' = next + 1 /\ attempt' = 1
    /\ step' = IF next = batchEnd THEN "committing" ELSE "delivering"
    /\ UNCHANGED <<content, committed, status, position, batchEnd, joined, origin, failures>>

\* Mutant of DeliveryFails: after its last attempt a record is passed over.
DeliveryFailsOver ==
    /\ step = "delivering" /\ Fail
    /\ received' \in {received, received \cup {next}}
    /\ IF attempt < DeliveryAttempts
       THEN attempt' = attempt + 1 /\ UNCHANGED <<next, step>>
       ELSE /\ next' = next + 1 /\ attempt' = 1
            /\ step' = IF next = batchEnd THEN "committing" ELSE "delivering"
    /\ UNCHANGED <<content, committed, status, position, batchEnd, joined, origin>>

\* An attempt fails, whether or not the subscriber got the content.  The last
\* one ends ConsumeSubscription with an error.
DeliveryFails ==
    /\ step = "delivering" /\ Fail
    /\ received' \in {received, received \cup {next}}
    /\ IF attempt < DeliveryAttempts
       THEN attempt' = attempt + 1 /\ UNCHANGED step
       ELSE step' = "failed" /\ UNCHANGED attempt
    /\ UNCHANGED <<content, committed, status, position, batchEnd, next, joined, origin>>

\* 410: the unsubscription event is published and applied; the batch is not
\* committed.
DeliveryGone ==
    /\ step = "delivering"
    /\ step' = "none" /\ status' = "removed"
    /\ UNCHANGED <<content, committed, position, batchEnd, next, attempt, received, joined, origin,
                   failures>>

\* NewDeliveryClient refuses the subscription, or the unsubscription that a 410
\* causes cannot be published: the batch ends at once, whatever attempt it was.
BatchFails ==
    /\ step = "delivering" /\ Fail
    /\ step' = "failed"
    /\ UNCHANGED <<content, committed, status, position, batchEnd, next, attempt, received,
                   joined, origin>>

CommitRecords ==
    /\ step = "committing"
    /\ committed' = batchEnd
    /\ position' = batchEnd /\ step' = "polling"
    /\ UNCHANGED <<content, status, batchEnd, next, attempt, received, joined,
                   origin, failures>>

\* The commit returns an error, with or without an effect.
CommitFails ==
    /\ step = "committing" /\ Fail
    /\ committed' \in {committed, batchEnd}
    /\ step' = "failed"
    /\ UNCHANGED <<content, status, position, batchEnd, next, attempt, received, joined, origin>>

\* Mutant of MarkStale: nothing is published, and nobody starts the worker again.
MarkStaleLost == step = "failed" /\ UNCHANGED vars

\* The stale event is published and applied.
MarkStale ==
    /\ step = "failed"
    /\ step' = "none" /\ status' = "stale"
    /\ UNCHANGED <<content, committed, position, batchEnd, next, attempt, received, joined, origin,
                   failures>>

\* A stale subscription is subscribed again: same lease, same group.
Resubscribe ==
    /\ status = "stale"
    /\ status' = "active"
    /\ UNCHANGED <<content, committed, worker, received, joined, origin, failures>>

\* An unsubscription is applied; it cancels the worker.
Unsubscribe ==
    /\ status # "removed"
    /\ status' = "removed" /\ step' = "none"
    /\ UNCHANGED <<content, committed, position, batchEnd, next, attempt, received, joined, origin,
                   failures>>

\* The owner crashes or is closed and starts again.
Crash ==
    /\ step # "none" /\ Fail
    /\ step' = "none"
    /\ UNCHANGED <<content, committed, status, position, batchEnd, next, attempt, received,
                   joined, origin>>

Worker ==
    \/ StartWorker \/ PollRecords \/ DeliverySucceeds \/ CommitRecords \/ MarkStale

Next ==
    \/ PublishContent
    \/ Worker
    \/ ConsumerFails \/ DeliveryFails \/ BatchFails \/ DeliveryGone \/ CommitFails
    \/ Resubscribe \/ Unsubscribe
    \/ Crash

Spec == Init /\ [][Next]_vars

\* The owner runs its worker; a subscriber need not come back, but the counted
\* failures run out.
LiveSpec == Spec /\ WF_vars(Worker)

-----------------------------------------------------------------------------
(* Properties.                                                             *)

\* "Commits a polled batch only after every record is delivered successfully" and
\* "Kafka delivery is at least once", as the hub can promise them: once a group
\* has committed, or as long as its first consumer runs, no record is passed over
\* or acknowledged unseen and none arrives before those that precede it, whatever
\* attempts fail, commits are lost and owners crash.
Feed == INSTANCE OrderedFeed WITH
    Unset    <- NoOffset,
    written  <- content,
    start    <- origin,
    received <- received,
    acked    <- committed,
    active   <- status = "active"

ImplementsFeed == Feed!Spec

\* An active subscription's records arrive and are acknowledged: attempts, stale
\* marks, revivals and restarts may delay them but leave none behind.
FeedProgresses == Feed!Fairness

\* Where the worker can go on: the guards of its actions.
WorkerCanMove ==
    \/ step = "none" /\ status = "active"
    \/ step = "polling" /\ position < content
    \/ step \in {"delivering", "committing", "failed"}

\* An active subscription whose worker waits is owed nothing: every record after the
\* place where its feed begins has been received and acknowledged.
WaitingMeansServed ==
    (status = "active" /\ ~WorkerCanMove) =>
        /\ origin # NoOffset
        /\ \A i \in (origin + 1)..content :
              i \in received /\ committed # NoOffset /\ i <= committed

WorkerStepsLeft(s, entry) ==
    CASE s = "failed" -> 6
      [] s = "none" /\ entry = "stale" -> 5 [] s = "none" /\ entry = "active" -> 4
      [] s = "polling" -> 3 [] s = "delivering" -> 2 [] s = "committing" -> 1
      [] s = "none" /\ entry = "removed" -> 0

\* The group commits further, or the worker comes nearer to that.
DeliveryComesNearer ==
    /\ UNCHANGED <<failures, content>>
    /\ position <= position' /\ position' <= content
    /\ \/ position < position'
       \/ WorkerStepsLeft(step', status') < WorkerStepsLeft(step, status)
       \/ /\ step = "delivering" /\ UNCHANGED <<step, status, batchEnd>>
          /\ next < next' /\ next' <= batchEnd

\* Every step leaves less to do, except the publication of new content and the
\* failures, which are counted: a restart, a stale mark and a revival cannot send
\* the group round and round the records it already has.
DeliveryAdvances ==
    [][\/ failures < failures'
       \/ content < content' /\ UNCHANGED <<failures, worker, status>>
       \/ DeliveryComesNearer]_vars

\* "Kafka delivery is at least once" and "resubscribing a stale subscription
\* reuses its ... uncommitted offset": the group passes over no record since it
\* first started.
NothingSkipped ==
    (joined # NoOffset /\ step # "none") => \A i \in (joined + 1)..position : i \in received
=============================================================================
