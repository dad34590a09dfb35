# lib-websubhub: TLA+ models, checks and proofs

`lib-websubhub` is a WebSub hub library in Go: an HTTP `Handler` that admits
subscribe and unsubscribe requests and verifies them in the background, clients
that deliver content and notify hubs, and two applications built on it: a hub
that keeps its state in memory, and one whose state is a Kafka log shared by
several hub processes and a consolidator. This directory models the parts whose
correctness depends on the order in which things happen, checks them with TLC,
and proves with TLAPS, for every value of the constants, nearly every safety
property the checks look at on small instances.

Paths are relative to the repository root, which is `src/` in `PROJECT.json`.
`kafka/` abbreviates `examples/kafka-websubhub/`, `memory/`
`examples/in-memory-websubhub/`.

## 1. The system

| Component | State it keeps | Operations | Modules |
|---|---|---|---|
| Handler admission, workers, Close (`handler.go`) | `jobs` channel, `jobsWG`, `workersWG`, `closed`, `rootContext`, `closeDone` | `ServeHTTP`, `admit`, `worker`, `runJob`, `Close` | `Handler` |
| Intent verification (`subscription.go`) | none; a job per request | `runSubscription`, `runUnsubscription`, `sendCallback` | `Handler` |
| `Controller` (`service.go`) | `marked` | `MarkVerified`, `isMarked` | `Handler` |
| Publisher and topic requests (`handler.go`) | none; they run on the goroutine of `ServeHTTP`, which `Close` does not count | `serveRegistration`, `serveUpdate`, `serveEvent`, `servePublisherContent`, `writeResult` | `Exchange`, `HubProcess` |
| Publisher client (`publisher.go`) | none | `RegisterTopic`, `DeregisterTopic`, `Notify`, `Publish` | `Exchange`, `HubProcess` |
| Delivery client (`delivery.go`) | none | `Deliver` | its outcomes, in `MemoryHub` and `ContentDelivery` |
| Configuration, leases, bounded reads (`handler.go`, `subscription.go`, `helpers.go`) | `Config` | `normalizeConfig`, `readBounded` | `Limits` |
| Headers, URLs, links, errors, discovery, challenge | none | pure functions, single requests | not modelled |
| In-memory hub (`memory/hub.go`) | topics, versioned subscriptions, two queues, `closed` | callbacks, `dispatch`, `deliver`, `Close` | `MemoryHub` |
| State events (`kafka/internal/state`) | none | `ApplyEvent` | `StateLog` |
| Consolidator (`kafka/consolidator`) | topics, subscriptions, revision, `eventsOffset` | `New`, `consumeEvent`, `Snapshot`, `Close` | `Consolidator` |
| Kafka hub (`kafka/websubhub/hub.go`) | projection, stored subscriptions with their workers, `replaying` | callbacks, `Apply*`, startup, `startSubscriptionWorker` | `KafkaHub` |
| Content delivery of the Kafka hub (`hub.go`, `broker.go`) | consumer-group offsets (in Kafka) | `ConsumeSubscription`, `deliverBatch` | `ContentDelivery` |
| The three processes (`memory/main.go`, `kafka/cmd/*/main.go`) | `rootContext`, `shutdownContext`, the `http.Server`, the exit code | `run` | `HubProcess` |
| TOML and environment, HTTP snapshot client | none | wiring | not modelled, see 9 |

**Interaction.** A request reaches `ServeHTTP`, whose goroutine asks the
application, builds a job, admits it to the queue, writes 202 and opens the
job's gate. A worker runs the job: application validation, intent request to
the subscriber, verified callback into the application. The application is a
hub: the in-memory one changes its maps; the Kafka one publishes an event to
`websub-events` and changes nothing until its own consumer reads the event back.
The consolidator reads the same log, writes a whole-state snapshot after every
event and serves it to hubs that start. The hub that accepted a subscription
runs a consumer-group worker for it, which polls the content topic, delivers,
and commits. Each process ends the same way: `http.Server.Shutdown`,
`Handler.Close` and the application's `Close`, one after the other under one
deadline of 15 seconds.

**What is hard, and what has to be true.**

* Handler: several goroutines account for a job through one `WaitGroup`; a job
  is queued before its 202 is written; `Close` may come between any two steps;
  an expired `Close` drains the queue against workers that still receive from
  it. Every job must be accounted for exactly once, none may run before its
  202, none may be admitted behind a waiting `Close`, and a `nil` from `Close`
  must mean that nothing will call back.
* In-memory hub: a publisher checks the topic in one lock region and queues in
  another; a 410 belongs to a version of the subscription that may have been
  replaced; `Close` has to run two queues empty in the right order.
* State log: snapshots have no offset. A start replays every retained event
  over a view that already contains some of them. The result must be the state
  of a process that read the log once.
* Kafka hub: each decision is taken from a projection that lags; startup
  launches workers while the event consumer is already changing the entries;
  processes crash at any point. Each group must have one consumer, and no
  subscription that looks healthy may be without one.
* Processes: a publisher's request is not counted by `Close`, so it is the order
  of the three calls that keeps it away from an application that is closed; the
  exit code joins three errors, and the client of a publisher sees an answer
  that says nothing about the order in which things were closed. Exit code 0 and
  a `nil` must be true.
* Content delivery: failure between delivery and commit, commits that fail with
  an effect, attempts whose answer was lost. Nothing may be committed that was
  not delivered, and nothing passed over.

The hazards are listed one by one, with their lines and the properties that
cover them, in `PROJECT.json`; those no property covers say why.

## 2. Modules

| Module | Role |
|---|---|
| `VerificationService` | abstract specification: requests are accepted or turned away, owned, settled once; shutdown finishes when nothing is owned |
| `Handler` | the goroutines of `handler.go` and `subscription.go` |
| `HandlerProperties` | its properties, and the refinement of `VerificationService` |
| `HandlerProofs` | TLAPS proofs, the refinement included, and those about `Limits` |
| `MCHandler` | symmetry for TLC |
| `Exchange` | one HTTP exchange: how a client encodes an operation, where `ServeHTTP` routes it, what answer a result becomes, what the client makes of it |
| `HubProcess`, `HubProcessProperties`, `MCHubProcess` | a process from start to exit: `Handler` and `Exchange` composed with `http.Server`, `main` and publishers |
| `HubProcessProofs` | TLAPS proofs about both |
| `Limits` | arithmetic of configuration, leases and bounded bodies |
| `MemoryHub`, `MemoryHubProperties`, `MCMemoryHub` | the in-memory hub |
| `MemoryHubProofs` | TLAPS proofs |
| `StateLog` | the five kinds of event and what applying one does to a view; used by the next three |
| `StateLogReplay` | the replay algorithm over every bounded log |
| `StateLogReplayProofs` | TLAPS proof that it converges |
| `StateLogProofs` | lemmas on `ApplyEvent`, `Replay` and `Materialized` for logs of every length |
| `ReplicatedView` | abstract specification: processes that show the state after a prefix of a log |
| `Consolidator` | the consolidator process with Kafka around it, and the refinement of `ReplicatedView` |
| `ConsolidatorProofs` | TLAPS proofs |
| `KafkaHub`, `KafkaHubProperties`, `MCKafkaHub` | several hub processes on one log, and the refinement of `ReplicatedView` |
| `KafkaHubProofs` | TLAPS proofs |
| `OrderedFeed` | abstract specification: an ordered feed with at-least-once delivery |
| `ContentDelivery` | one consumer group and its worker |
| `ContentDeliveryProofs` | TLAPS proof that it implements `OrderedFeed` |

Operators whose comment begins "Mutant of" are deliberately wrong twins of the
definition after them, each a bug one could make at that place. No
specification uses them. `PROJECT.json` ("mutants") says which property each
of them breaks when it replaces the original, which shows that the property
can fail.

## 3. Handler

An action is the code between two points where another goroutine can intervene.

| Code | Actions |
|---|---|
| `ServeHTTP` before and after `isClosed` | `EnterClosed`, `EnterOpen` |
| the application's synchronous callback, `Controller.MarkVerified` | `Reject`, `BuildJob` (reads `isMarked` once), `MarkVerified` |
| `admit`, one lock region | `Admit`, `RefuseAdmission` |
| `writeResult`; `close(job.start)` | `Respond`; `OpenGate` |
| `worker`, `runJob` | `TakeJob`, `WorkerExit`, `PassGate`, `AbandonAtGate`, `FinishJob` |
| `runSubscription` / `runUnsubscription` | `ValidationPasses/Denies/Fails`, `IntentConfirmed/Fails`, `HandoffSucceeds/Fails`, `Notify` |
| `Close` of a caller | `CloseCalled`, `CloseReturnsNil`, `CloseExpires`, `DrainOne`, `AccountDrained`, `CloseReturnsError` |
| the goroutine `Close` starts once | `ShutdownJobsDone`, `ShutdownCancels`, `ShutdownCompletes` |

`jobsWG` is a number; `WaitGroup` misuse (a count below zero, `Add` concurrent
with `Wait`) is what `WorkIsAccounted`, in the runs, and `AdmissionStopsAtClose`,
by theorem `AdmissionStops`, exclude; `ImplementsService` fails as well when a
request is admitted after `Close`.
Where a Go `select` has several ready cases the model takes any of them, so a
worker may still take a job after `rootContext` is done. Subscribe and
unsubscribe have the same control flow, so a request has no mode. The state the
application keeps behind its callbacks is abstracted: it may answer anything,
may keep a `Controller` and mark it at any later time.

Runs:

* `handler_safety`: 3 requests, 2 workers, 2 callers of `Close`, a queue of 1.
  One request can be with each worker while a third finds the queue full or
  free; two callers can expire, drain and race with the workers and with each
  other. Requests, workers and callers are interchangeable, hence the symmetry.
* `handler_live`: 2 requests, 2 workers, one caller, no symmetry. It allows
  external verification, which adds behaviours (a job with `verified` skips the
  intent request) and multiplies the states by the moments of marking.

Fairness is a premise of the property that needs it, so that the same behaviours,
those in which callbacks and writers hang included, are judged by each:

* `Scheduling`: goroutines that can run do. `Callbacks`: application callbacks
  return. The second is no more than what an application owes: nothing in the
  code bounds a callback that ignores its context. Intent requests and
  notifications are bounded by `VerificationTimeout`. Both together are the
  premise of `ImplementsLiveService`, which is the fairness of the abstract
  service: what was answered 202 is settled, and a shutdown that was begun ends.
* `Deadlines`: callers of `Close` run and their contexts end. It is all that
  `CloseReturns` needs, whatever hangs.
* `WorkersRun`: workers run and callbacks return, but no response is ever
  assumed to be written. With `Deadlines` it gives `ExpiredCloseRecovers`.

Nobody is assumed to send requests or to call `Close`.

What the runs show beyond single steps: after `Close` was called no request
that had passed `isClosed` earlier gets in; a shutdown nobody gave up on
honours every 202; an expired `Close` accounts for the queue so that a later
`Close` returns `nil`; the response gate holds however fast a worker is.

Refinement. `Standing` maps a request to "owned" while it is in the queue, with
a worker, or in the hands of a drain. The capacity of the abstract service is
`QueueCap + Workers`. `ImplementsService` is checked with three requests and
proved; `ImplementsLiveService` is checked with two.

## 4. Exchanges and processes

`Exchange` has operators only. A POST is the header, the media type and the two
places `hub.mode` may stand in; `Encode` is what the four client methods send,
`Route` is the decision of `ServeHTTP`, `PublisherAnswer`, `ResultAnswer` and
their siblings are what `writeResult` and `writeExtensionDenied` write, `Verdict`
is what `PublisherClient.do` makes of an answer.

`HubProcess` puts the two ends in motion and lets them meet the end of the
process. It EXTENDS `Handler`: the handler's actions are its actions, conjoined
with the condition that the process lives and, for a request, that it arrived.
`main` is a sequence of steps (`starting`, `serving`, `shutting`,
`closingHandler`, `closingApp`, `exited`); the `select` on the signal, the
listener's error and the application's fatal error is `WakeBySignal`,
`WakeByServer` and `WakeByFailure`, any that is ready. `program` says which of
the three mains it is: the memory hub reports no fatal error, the consolidator
has no handler.

External: `http.Server`. By its documentation `Shutdown` returns `nil` only
when no request is being served; `ShutdownDrains` is that and nothing more. A
request that the server has read in the instant in which it closes an idle
connection is not modelled.

Run `process`: one subscriber, one publisher with each operation, one worker, the
three programs. One of each is enough because what can go wrong here lies between
the steps of `main` and one request; 0.7 million states. Of the contents a
publisher may send, the constraint of `MCHubProcess` keeps the one that looks like a
subscribe request and the one in a foreign charset: the operation never changes, so
the constraint drops whole behaviours and `StopsInTime` is checked on all of the
others, and that the rest is routed like these is `OperationsReachTheirCallback`.
Fairness: `MainRuns`,
that `main`'s goroutine runs and the 15 seconds pass, is the premise of
`StopsInTime`. No request, callback, worker or application goroutine is assumed
to move.

What it shows: exit code 0 means that a stop was asked for and every 202 was
honoured (`CleanExitHonoursAccepted`); although `Close` counts only verification
jobs, no callback runs in an application that is being closed, unless the exit
code tells (`ClosedApplicationIsNotCalled`); a `nil` of the publisher client
means that this operation's callback took effect, whatever was lost, refused or
overtaken (`VerdictIsTruthful`); and nobody can hold a process that has a reason
to stop.

`Limits` translates `normalizeConfig`, the granting of leases and `readBounded`
over 64-bit integers that wrap. What is said of it is proved for all values (in
`HandlerProofs`), so it has no run.

## 5. In-memory hub

`MemoryHub` has the topics, the subscriptions as version numbers (0 for none;
`expiresAt` becomes the set `lapsed` that time adds to), the two bounded
channels, publishers, dispatcher, delivery workers, verification flows, and callers of
`Close`. The verification flows are what the `Handler` does: a validation, then
some time later a verified callback. `hasTopic` and the queue section of
`onUpdateMessage` are two steps, as in the code; dispatching snapshots the
active subscriptions and drops the lapsed ones in one lock region, then sends
one job at a time. `due` records which subscriptions an update was dispatched
to, `attempted` which were tried, `gone` which answered 410: history variables
for the properties. An unsubscription is validated for any entry that is stored,
also one whose lease has ended and that no dispatch has purged yet, and removes
what is stored when it is verified, which a renewal may have put there meanwhile.

* `memory_safety`: 2 subscribers, 2 verification flows, 2 delivery workers, 2
  versions per run, 2 updates, both queues of 1. Two versions suffice for a renewal
  between a delivery and its 410, and between the validation of an unsubscription
  and its removal, which takes the two flows; two updates and queues of one for a
  full queue and a dispatcher blocked in a send. Callbacks, workers and flows are
  interchangeable. The constraint `Explored` in `MCMemoryHub` lets the two flows
  overlap as long as there is one update and no `Close`, and runs one at a time
  after that: the callbacks of a verification look neither at `Close` nor at the
  queues. What the constraint cuts is covered by the theorems of `MemoryHubProofs`.
* `memory_live`: one subscriber and worker, three updates, so that an update waits
  behind a dispatcher that waits behind a full delivery queue.

Fairness: the hub's own goroutines run. Topic fetches and deliveries are
bounded by the 15 s timeout of the HTTP client. No lease, request or `Close` is
assumed.

## 6. State log, consolidator and Kafka hubs

`StateLog` defines a view (topics and subscription entries with lease, owner
and a stale flag) and `ApplyEvent`. The consolidator's and the hub's appliers
are different functions in the code; on views they do the same, so one set of
operators stands for both and `map` names the lines of each.

`log_replay`, the small end of what `StateLogProofs` proves, enumerates every log of up to 4 events over one topic, one
callback, two leases and two servers. For every snapshot of a prefix and every
retained suffix that reaches back to it, replay ends in the state of a single
pass, and so does a replay over the half-replayed view a crash may have
persisted (`ReplayConverges`). One key is enough because what a replay makes of a
key depends on that key alone (theorem `KeysAreIndependent`); four events cover
subscribe, stale, removal and a new lease.

`Consolidator` is the process: `LoadSnapshot`, `ReplayEvents`, `consumeEvent`
split at the write of the snapshot, failed writes with and without an effect,
crashes and restarts. Two deployments are considered, chosen in `Init`:
"complete" keeps every event and allows `LoadSnapshot` to stop at an early empty
poll; "pruned" lets retention drop events that are consolidated, and reads the
snapshots to their end. That retention drops only consolidated events is an
assumption on the operator of Kafka, not something the code ensures.
`startup_timeout` ends a start like a crash and counts as one.
Run `consolidator`: 3 events, 2 failures. Fairness: the process is restarted
and scheduled; failures are counted and run out.

`KafkaHub` has several hubs. Each action is one lock region, one read from the
log or one write to it; `gen` stands for the identity of a
`*storedSubscription`, `attached` for its `cancel` function. A starting hub is
given the view after some prefix of the log that reaches to the retained events,
which is what `EndpointServesAPrefix` proves of the consolidator. Failed writes may have had an effect. Two reads of the
projection in `onSubscriptionVerified` (`hasTopic`, then the entry) are one
step: an event applied between them gives an outcome that one of the two orders
with the whole step also gives, except a topic deregistered between the two
reads, whose effect (a subscription to an unregistered topic) lag produces
anyway. The cancel that `Apply*` calls after releasing `h.mu` is folded into the
step that removes the entry. `EventConsumerFails` is the end of `ConsumeEvents` by an
error: the hub reports it and cancels its own context, so that its workers end and
none starts; until `main` has acted on the report it answers requests from a
projection that stands still (phase "ending"). An orderly `Close` is a `Crash` for
the log and the other hubs.
Run `kafka_safety`: two hubs, one subscriber, two leases and one failure; with
both hubs in play up to 4 events, with one hub up to 6, enough for registered,
subscribed, stale, recovered, removed and subscribed again. (The constraint
`Explored` in `MCKafkaHub`: beyond three events the topic is registered once, and
of two hubs only the owner goes on after the fourth, which has to store the entry
again.) Four events, two hubs and a restart are what it takes for
the event consumer to revive a subscription between the end of a replay and the
launch of the replayed workers, where both want to start its consumer. Hubs and leases
are interchangeable. Besides consumers and projections the run checks what goes
into the log: `OnlyLagMisleads` names the three decisions that can be wrong (an
ended lease is used again, a subscription to a topic that is gone, a 410 that
removes a newer subscription) and says that each takes a hub that has not read
the log so far, or, for the last, one that read the end of the old subscription
after the answer came.

`ReplicatedView` is what the log promises to whoever shows a state made from it,
in four actions: a replica captures the end of the log, shows the state after no
fewer events than that, and from then on moves one event at a time in the order
of the log, until it stops. `ImplementsReplicatedView` is stated of both programs. Of a hub
(run `kafka_safety`) the state is the projection and it shows from the end of the
replay; of the consolidator (run `consolidator`) it is the view behind the
endpoint, there is one replica, and an event counts as shown when it is applied.
Hidden are the snapshot a start reads, the replay over it, what retention drops
and the failed writes. The states a hub or a consolidator passes through before it is ready
are hidden as well, because they are states of no prefix: a replay applies
old events over a newer view.

`ContentDelivery` is one subscription: offsets, batches, attempts, commits,
stale, recovery, 410 and crashes, and the errors that end the consumer itself
(`ConsumerFails`) or a batch whatever the attempt (`BatchFails`). Run `content_delivery`: 5 records,
batches of 1 to 3 (the code's 5 only makes them longer), 2 attempts, 5
failures, enough to use up all attempts twice and crash once. Fairness: the
owner's worker runs; failures run out; a subscriber never has to come back.

`OrderedFeed` is what a subscription is promised: records in order, each at
least once, nothing acknowledged that was not received with all before it, from
the place where the feed begins. That place moves to the end of the log if the
feed is started anew before anything was acknowledged, and never again. It is a
weaker promise than the documents make (see 7), and the strongest the code keeps.
`ImplementsFeed` is the refinement, `FeedProgresses` its fairness: an active feed
brings and acknowledges what it owes.

## 7. Disagreements between the code and its documentation

Three runs are expected to end in a counterexample.

* `consolidator_hang`: when retention has emptied a log whose end offset is not
  0, `ReplayEvents` waits for records below the boundary that no longer exist.
  `eventsOffset` stays 0, records at or beyond the boundary are ignored, and
  startup ends only by its timeout, in every attempt. `StartupCompletes`, in run
  `consolidator`, shows that this is the only way for startup not to finish, and
  `StartupStallsNeedlessly` proves that the consolidator then already has the state
  it waits for.
  The hub's `ReplayEvents` has the same loop.
* `kafka_regroup`: a stale subscription is unsubscribed and subscribed again
  before the hub has read the unsubscription back. The new subscription is
  published with the old lease, so it gets the old consumer group and its
  backlog, which the README of the example excludes. `OnlyLagMisleads`, checked
  in run `kafka_safety` and proved, is how far the code does keep the promise: a
  hub that has read the unsubscription, and nothing since that brought the lease
  back, never begins such a publication.
* `content_firstbatch`: a group that has never committed restarts at the end of
  its content topic. The records published since its first consumer joined are
  skipped, whether their batch failed, was interrupted by a crash, or had not been
  polled yet. `ImplementsFeed` shows that this is over after the first
  commit.

Met on the way and not a finding of a run:

* `consumeEvent` tests for an exhausted revision inside the error branch of
  `ApplyEvent` (`kafka/consolidator/consolidator.go:150`), so the test never
  guards the increment. A 64-bit revision does not get there.
* `readBounded` adds one to its limit (`helpers.go:179`): with the largest int64
  as a limit every body reads as empty (`BodyIsWholeOrRefused`, second part).
* `normalizeConfig` sets `DefaultLease` to ten days when it is zero
  (`handler.go:113`), so a configuration that sets only a shorter `MaxLease` is
  rejected.
* `MarkVerified` after the job was built returns `nil` and has no effect;
  `HandoffIsAuthorised` is why that is harmless.
* For a client only a 2xx answer whose body is the accepted form is a success, so
  a `Result` with a status of 204, or with an empty body that is not nil, reports
  success to the hub's author and failure to the publisher (`VerdictMatchesResult`
  says which results are which).
* `Publish` accepts content with the form media type in a charset other than
  UTF-8; `ServeHTTP` refuses it (`handler.go:168`), publisher header or not.
* `Deliver` documents that errors of a 410 match `ErrSubscriptionGone`
  (`delivery.go:105`); a 410 whose body exceeds the limit fails before the status
  is looked at.
* A signal and a fatal error that are ready together: when `select` takes the
  signal the error is dropped, and the exit code may be 0.

## 8. Proofs

Every theorem below is proved for all values of the constants that satisfy the
assumptions named in the modules. None assumes anything about the system beyond
its specification. Where a run checks the same property it is named in
`PROJECT.json`.

| Module | Theorems |
|---|---|
| `HandlerProofs` | `HandlerTypes`, `WorkAlwaysAccounted`, `ShutdownQuiescent`, `NilIsSilent`, `AdmissionStops`, `ResponsePrecedesWork`, `OwnedByOne`, `GracefulShutdownHonours`, `ShutdownIsNeverStuck`, `ClosingShrinks`, `HandoffAuthorised`, `HandlerImplementsService`; of `Limits`: `AcceptedConfigIsUsable`, `LeaseIsHonoured`, `BodyIsWholeOrRefused` |
| `HubProcessProofs` | `ProcessRunsHandler`, `ProcessTypes`, `ApplicationClosesLast`, `VerdictsAreTruthful`, `CleanExits`, `OnlyTimeHolds`, `StoppingOnlyAdvances`; of `Exchange`: `OperationsReachTheirCallback`, `ExtensionIsOptIn`, `HeaderDecides`, `VerdictMatchesResult`, `TurnedDownIsTold` |
| `MemoryHubProofs` | `HubTypes`, `TopicsOfSubscriptions`, `RemovalsAreJustified`, `NoSendOnClosedChannel`, `AtMostOnce`, `GracefulCloses`, `HubNeverBlocks`, `ClosingShrinks` |
| `StateLogProofs` | `ApplyIsTotal`, `ApplyIsIdempotent`, `KeysAreIndependent`, `ReplayRecovers` |
| `StateLogReplayProofs` | `ReplaysConverge` |
| `ConsolidatorProofs` | `ConsolidatorTypes`, `RevisionsAlwaysGrow`, `ServedViewsAreExact`, `SnapshotsRecover`, `EndpointServesAPrefix`, `EndpointIsAReplica`, `StartupStallsNeedlessly`, `StartupOnlyAdvances` |
| `KafkaHubProofs` | `HubStateTypes`, `ProjectionsAreExact`, `HubsAreReplicas`, `ConsumersFollow`, `GroupsHaveOneConsumer`, `NoneIsSilent`, `MistakesComeFromLag`, `RestingHubsServeTheLog` |
| `ContentDeliveryProofs` | `DeliveryTypes`, `DeliveryIsAnOrderedFeed`, `WaitingLeavesNothing`, `DeliveryOnlyAdvances` |

Assumptions. `Handler`: requests, workers and callers are finite sets, `NoJob` is no
request, there is a worker and a place in the queue. `HubProcess`: one caller of
`Close`, no external verification, the extension enabled, as in the mains.
`MemoryHub`: queues of at least one place and a delivery worker, the defaults of
`newMemoryHub`. `StateLog`, `KafkaHub`: `NoSub` and `None` are none of the values
they stand beside. `ContentDelivery`: at least one attempt and one record per
batch. The bounds (`MaxLog`, `MaxFailures`, ...) are any numbers, so a proof that
mentions them is about runs of any length. TLC evaluates each assumption in the
runs of its module.

**Handler.** `WorkIsAccounted` is a sum of a length and two cardinalities. It is
inductive only with the types and `JobsHeld` (a worker in a holding phase has a
request, a draining caller that has not accounted has one); together these are
`WorkInv`. The heart is `HeldIsCounted`: whoever is about to call `Done` is in one
of the counted sets, so the count is positive. `ShutdownInv` says which waits of
the shutdown goroutine are over at each of its steps. `jobsWG = 0` stays true
after its wait because `closed` excludes `Admit` and, with the count at zero,
nobody holds a job. `GateInv` ties a gate to its response. `PlaceInv` (an admitted
request is in one place), `AnswerInv` (an answer fits the place) and `OutcomeInv`
(an outcome fits both; one that was cut short needs an expired `Close`) complete
`ServiceInv`, from which `OwnedByOne` and `GracefulShutdownHonours` follow.
`AuthorityInv` carries where a verification came from. The refinement has one
lemma per action on what it does to `InFlight`; the capacity of the service is
the bound on queue and workers.

Two theorems are about the end of a shutdown, without fairness.
`ShutdownIsNeverStuck` needs `LeavingInv`: workers stay until the context is
cancelled, a queue that outlives it has the drain of the `Close` that cancelled
it, and a request that was served without being turned down has opened its gate.
With `WorkInv` a positive count then leads to a job, and a job to somebody who can
move. `ClosingShrinks` gives, for every step after `Close`, the part of a measure
that decreases: the length of the queue, then the steps the goroutines have left,
summed. That nothing is sent to the queue any more is what makes it well founded.

**Processes.** `ProcessRunsHandler` shows that every step of a process is a step
of `Handler` or leaves it alone, so the theorems about `Handler` hold in it and
are used in `CleanExits`. `ProcessInv` relates the step of `main` to who is still
served, `PublisherInv` an answer to what took effect, `CleanInv` a shutdown that
has not failed to what is behind it. `StoppingOnlyAdvances` is the part of
`StopsInTime` that needs no fairness: the steps `main` and `Close` have left
decrease with each step of theirs, the queue `Close` drains gets shorter, and
requests, workers, publishers and the application's goroutines add nothing.
`OnlyTimeHolds` goes through the points where `main` waits: each has the deadline as
an alternative.

**In-memory hub.** `UpdateInv` puts an accepted update in one place, and lets
subscriptions be due it only from its dispatch. `JobInv` does the same for the
single deliveries: what was sent (`SentTo`) is queued, in a worker's hands or
attempted, and in no two of them. For `GracefulCloses` the converse is needed,
that nothing gets lost: `FateInv`, `EndInv` (goroutines end one after the other
unless a `Close` gave up on them) and `CoverInv`. `HubNeverBlocks` and
`ClosingShrinks` are the two halves of `CloseCompletes` that need no fairness: of
the goroutines on the two queues one can always move, and the measure (updates,
the dispatcher's steps, its sends, deliveries, the workers' steps, in this order)
decreases with each move.

**State log.** The library's induction theorems take an operator as a parameter,
which the provers cannot instantiate. The induction over the log is done by the
least element instead: the set of the lengths at which a claim fails, if not
empty, has a least one (`WFMin`, `NatLessThanWellFounded`), and the step
contradicts it. The argument for `ReplayRecovers`: for each key, a part of a log
either forgets what was stored before it or keeps its lease and owner
(`ForgetsOrKeeps`); so replaying a part twice is replaying it once, and a replay
absorbs an earlier one that stopped half-way.

**Consolidator.** `ExactInv` says for each phase what the view is on its way to:
what was loaded recovers (`LoadedInv`), what is being replayed needs only the rest
(`ReplayingInv`), the tailing view is exact but for an event whose snapshot was not
written; every snapshot recovers; and in a pruned deployment the newest snapshot
stands in for what was dropped (`NewestInv`), for which revisions have to grow
(`RevisionInv`). `ServedViewsAreExact` reads it off for the phases in which the
endpoint answers, and `EndpointServesAPrefix` turns it into what `KafkaHub` takes
as given of a snapshot, so that the assumption of the one model is a theorem of
the other. For `EndpointIsAReplica` the two sides' folds over the log are shown to be
the same function first; then every action is a step of the one replica or a
stutter. `StartupStallsNeedlessly` characterises the stall of run
`consolidator_hang`: it needs a pruned deployment, nothing read, everything below
the boundary dropped, and by `ExactInv` the view that was loaded is then already
the state at the boundary, so the wait is for nothing. Everywhere else startup can
go on, and `StartupOnlyAdvances` gives the measure (failures, then the phase, then
the cursor below a boundary that is fixed once) that each step decreases.
`ReplaysConverge` proves the property of run `log_replay` from
`ReplayRecovers`, for logs of every length.

**Kafka hub.** `TypeInv` adds to the types that an object that is stored has an
identity and is started at most once. `ExactInv` carries a projection through
startup by the lemmas on the log; `ProjectionsAreExact` and, step by step,
`HubsAreReplicas` follow from it. `FollowInv` says that a worker not cancelled
serves the object now stored, with that object's lease and owner; `Project`
cancels whenever it replaces or removes one. One consumer over all hubs is then
a question of leases: a lease is claimed by one hub because it is fresh when it is
first published (`ClaimInv`). `MistakesComeFromLag` compares the prefix
of the log a hub has read with the whole of it. `StoredByLater`,
`DeregisteredByLater` and `EndedByLater`, by induction over the log, find the
event that brought an entry back, removed a topic or ended an entry between two
lengths; since a projection is exactly its prefix, that event is one the hub has
read where it would have decided otherwise, and one it has not read where it was
misled. `RestingHubsServeTheLog` puts the invariants together into what an
operator would ask: with nothing under way, the consumers over all hubs are those
the log asks for. `LookedInv` says who will start the worker that is
missing, at each moment of startup and recovery. The proofs cover logs of any
length, which the constraint of run `kafka_safety` cuts.

**Content delivery.** The invariant relates the position of the consumer, the
batch it is in and the committed offset to what was received; each step then maps
to one of `OrderedFeed` or a stutter. `WaitingLeavesNothing` says that a worker that
waits is waiting for content and not for a record it skipped. For
`DeliveryOnlyAdvances` the invariant is strengthened by `Behind`: a consumer that is
gone was no further than where the next one of its group begins, so a new consumer
never lowers the position, and only a failure, which is counted, sends the worker
back to an earlier step.

Only model-checked: liveness, which is out of the prover's reach (`CloseReturns`,
`ExpiredCloseRecovers`, `ImplementsLiveService`, `CloseCompletes`,
`UpdatesAreDispatched`, `StartupCompletes`, `FeedProgresses`, `StopsInTime`). What TLC
is left with in the shutdown of the handler and of the in-memory hub
(`CloseReturns`, `CloseCompletes`), the stopping of a process (`StopsInTime`), startup
of the consolidator (`StartupCompletes`) and delivery (`FeedProgresses`) is the step
from "somebody can go on" and "each step leaves less" to "it ends", which is
fairness and the well-foundedness of the measure. The operators that say who can
go on (`WorkerCanMove`, `DispatcherCanMove`, `MainCanMove`, `StartupCanMove`, ...)
repeat the guards of the actions, since `ENABLED` is out of reach too.

Some properties are proved and in no run, since the temporal property that rests
on them is: `StoppingAdvances`, `OnlyTimeHoldsMain`, `StallsAreNeedless`,
`StartupAdvances`, `WaitingMeansServed`, `DeliveryAdvances`. So are
`QuietHubsServeTheLog`, which follows from invariants the runs check, and
`AdmissionStopsAtClose`.

## 9. Not modelled

* Parsing, headers, links, signing, redirects, TOML, JSON; two requests' order
  of verification (the application's business). Validation of what a client is
  given before it sends anything.
* The size of a snapshot, and so the limit of 16 MiB on reading one.
* The idle-connection race of `http.Server` mentioned in 4.
* Kafka itself: partitions beyond the one used, rebalances (a group has one
  member), expiry of the offsets of an idle group, retention of content records,
  when an empty poll occurs, a write that lands after its process has
  crashed and restarted.
* A record of the log that its reader refuses (`state.ApplyEvent` fails on it): it
  would end the consolidator and every hub, and again after each restart. The log
  of the models holds the events the hubs write, and none of those is refused.
* Overflow of revisions and offsets.
* The lease an unsubscription would have to name: the code's event has none, so
  the model's has none.

## 10. Plan

Done, in this order because each part is the ground of the next: `Handler` with
its abstract service; `MemoryHub`; `StateLog`, `Consolidator`, `KafkaHub`;
`ContentDelivery` with `OrderedFeed`; `ReplicatedView`; `Exchange`, `HubProcess`, `Limits`; the
proofs of all of them.

What remains:

1. The liveness of the replicated view: with hubs that stay up, every event is
   applied everywhere and every owned subscription gets its consumer.
2. Composition of `Handler` and `MemoryHub`: validation and verified callback of
   two requests of one subscriber in different workers.
3. Delivery client outcomes (`delivery.go`) as operators with a reference
   definition: status classes, 410, limits.
