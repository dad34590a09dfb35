------------------------------- MODULE Handler -------------------------------
(***************************************************************************)
(* The admission queue, the verification workers and the shutdown of       *)
(* websubhub.Handler (src/handler.go, src/subscription.go).                *)
(*                                                                         *)
(* Goroutines: one per HTTP request (net/http calls ServeHTTP), the        *)
(* workers started by NewHandler, one per caller of Close and the one      *)
(* goroutine Close starts once.  An action is one step between two points  *)
(* where the others can intervene: a channel operation, a lock region, a   *)
(* WaitGroup operation, a call into the application or over the network.   *)
(*                                                                         *)
(* subscribe and unsubscribe requests follow the same control flow (the    *)
(* functions are line-for-line twins), so a request has no mode here.      *)
(* Contents, headers and leases are abstracted away.                       *)
(***************************************************************************)
EXTENDS Integers, FiniteSets, Sequences

CONSTANTS
    Requests,                   \* subscribe/unsubscribe requests that arrive
    Workers,                    \* Config.VerificationWorkers goroutines
    Closers,                    \* calls of Handler.Close
    QueueCap,                   \* Config.VerificationQueue
    AllowExternalVerification,  \* Config.AllowExternalVerification
    EnableHubErrorCallback,     \* Config.EnableHubErrorCallback
    NoJob                       \* a goroutine that holds no job

ASSUME RequestsAssumption == IsFiniteSet(Requests) /\ NoJob \notin Requests
ASSUME WorkersAssumption  == IsFiniteSet(Workers) /\ Workers # {}
ASSUME ClosersAssumption  == IsFiniteSet(Closers)
ASSUME QueueAssumption    == QueueCap \in Nat \ {0}
ASSUME ConfigAssumption   ==
    /\ AllowExternalVerification \in BOOLEAN
    /\ EnableHubErrorCallback \in BOOLEAN

VARIABLES
    serving,    \* serving[r]: the step the ServeHTTP goroutine of r is at
    response,   \* response[r]: the answer committed for r
    marked,     \* requests whose Controller was marked
    verified,   \* requests whose job carries verified = true
    started,    \* requests whose job.start channel is closed
    queue,      \* the buffered channel jobs
    jobsWG,     \* the counter of jobsWG
    phase,      \* phase[w]: the step worker w is at
    job,        \* job[w]: the request worker w runs, or NoJob
    closed,     \* Handler.closed
    rootDone,   \* rootContext is cancelled
    shutdown,   \* the goroutine started by Close
    closer,     \* closer[c]: the step the Close call c is at
    drained,    \* drained[c]: the job c received from the queue, or NoJob
    confirmed,  \* requests whose subscriber confirmed the challenge
    outcome     \* outcome[r]: how the job of r ended

requestVars  == <<serving, response, marked, verified, started>>
workerVars   == <<phase, job, confirmed>>
shutdownVars == <<closed, shutdown, closer, drained>>
vars == <<requestVars, queue, jobsWG, workerVars, rootDone, shutdownVars, outcome>>

ServingSteps == {"new", "deciding", "admitting", "responding", "releasing", "served"}
Responses    == {"none", "accepted", "unavailable", "rejected"}
Phases       == {"select", "gate", "validate", "intent", "handoff", "notify",
                 "finish", "exited"}
CloserSteps  == {"idle", "waiting", "draining", "accounting", "nil", "expired"}
Outcomes     == {"none", "denied", "invalid", "unconfirmed", "verified",
                 "verifiedFailed", "abandoned", "drained"}

HoldingPhases == Phases \ {"select", "exited"}

TypeOK ==
    /\ serving \in [Requests -> ServingSteps]
    /\ response \in [Requests -> Responses]
    /\ marked \in SUBSET Requests
    /\ verified \in SUBSET Requests
    /\ started \in SUBSET Requests
    /\ queue \in Seq(Requests)
    /\ Len(queue) <= QueueCap
    /\ jobsWG \in Nat
    /\ phase \in [Workers -> Phases]
    /\ job \in [Workers -> Requests \cup {NoJob}]
    /\ closed \in BOOLEAN
    /\ rootDone \in BOOLEAN
    /\ shutdown \in {"none", "waitJobs", "cancel", "waitWorkers", "done"}
    /\ closer \in [Closers -> CloserSteps]
    /\ drained \in [Closers -> Requests \cup {NoJob}]
    /\ confirmed \in SUBSET Requests
    /\ outcome \in [Requests -> Outcomes]

\* NewHandler: the workers are started, nothing is admitted.
Init ==
    /\ serving = [r \in Requests |-> "new"]
    /\ response = [r \in Requests |-> "none"]
    /\ marked = {}
    /\ verified = {}
    /\ started = {}
    /\ queue = <<>>
    /\ jobsWG = 0
    /\ phase = [w \in Workers |-> "select"]
    /\ job = [w \in Workers |-> NoJob]
    /\ closed = FALSE
    /\ rootDone = FALSE
    /\ shutdown = "none"
    /\ closer = [c \in Closers |-> "idle"]
    /\ drained = [c \in Closers |-> NoJob]
    /\ confirmed = {}
    /\ outcome = [r \in Requests |-> "none"]

-----------------------------------------------------------------------------
(* The ServeHTTP goroutine of request r.                                   *)

\* Moves r to its last step with the answer it is given.
Answer(r, step, answer) ==
    /\ serving' = [serving EXCEPT ![r] = step]
    /\ response' = [response EXCEPT ![r] = answer]

\* ServeHTTP: isClosed reads closed once, well before admit looks again.
EnterOpen(r) ==
    /\ serving[r] = "new"
    /\ ~closed
    /\ serving' = [serving EXCEPT ![r] = "deciding"]
    /\ UNCHANGED <<response, marked, verified, started, queue, jobsWG,
                   workerVars, rootDone, shutdownVars, outcome>>

EnterClosed(r) ==
    /\ serving[r] = "new"
    /\ closed
    /\ Answer(r, "served", "unavailable")
    /\ UNCHANGED <<marked, verified, started, queue, jobsWG, workerVars,
                   rootDone, shutdownVars, outcome>>

\* Controller.MarkVerified, by the application, from its admission callback on
\* and, if it kept the controller, at any later time.
MarkVerified(r) ==
    /\ AllowExternalVerification
    /\ serving[r] # "new"
    /\ r \notin marked
    /\ marked' = marked \cup {r}
    /\ UNCHANGED <<serving, response, verified, started, queue, jobsWG,
                   workerVars, rootDone, shutdownVars, outcome>>

\* A parse error, an admission callback that fails, denies or redirects, or a
\* result that is not an acceptance: answered at once, never queued.
Reject(r) ==
    /\ serving[r] = "deciding"
    /\ Answer(r, "served", "rejected")
    /\ UNCHANGED <<marked, verified, started, queue, jobsWG, workerVars,
                   rootDone, shutdownVars, outcome>>

\* The admission callback accepts; the job is built with the mark read now.
BuildJob(r) ==
    /\ serving[r] = "deciding"
    /\ serving' = [serving EXCEPT ![r] = "admitting"]
    /\ verified' = IF r \in marked THEN verified \cup {r} ELSE verified
    /\ UNCHANGED <<response, marked, started, queue, jobsWG, workerVars,
                   rootDone, shutdownVars, outcome>>

\* Mutants of Admit: no bound on the queue; closed is not looked at again.
AdmitUnbounded(r) ==
    /\ serving[r] = "admitting" /\ ~closed
    /\ queue' = Append(queue, r) /\ jobsWG' = jobsWG + 1
    /\ serving' = [serving EXCEPT ![r] = "responding"]
    /\ UNCHANGED <<response, marked, verified, started, workerVars, rootDone,
                   shutdownVars, outcome>>

AdmitWhenClosed(r) ==
    /\ serving[r] = "admitting" /\ Len(queue) < QueueCap
    /\ queue' = Append(queue, r) /\ jobsWG' = jobsWG + 1
    /\ serving' = [serving EXCEPT ![r] = "responding"]
    /\ UNCHANGED <<response, marked, verified, started, workerVars, rootDone,
                   shutdownVars, outcome>>

\* admit, under admissionMu: the job is counted, then sent without blocking.
Admit(r) ==
    /\ serving[r] = "admitting"
    /\ ~closed
    /\ Len(queue) < QueueCap
    /\ queue' = Append(queue, r)
    /\ jobsWG' = jobsWG + 1
    /\ serving' = [serving EXCEPT ![r] = "responding"]
    /\ UNCHANGED <<response, marked, verified, started, workerVars, rootDone,
                   shutdownVars, outcome>>

\* Mutants of RefuseAdmission: the count is not taken back; the job is sent
\* before closed is looked at.
RefuseAdmissionCounted(r) ==
    /\ serving[r] = "admitting" /\ (closed \/ Len(queue) = QueueCap)
    /\ jobsWG' = jobsWG + 1
    /\ Answer(r, "served", "unavailable")
    /\ UNCHANGED <<marked, verified, started, queue, workerVars, rootDone,
                   shutdownVars, outcome>>

RefuseAdmissionSent(r) ==
    /\ serving[r] = "admitting" /\ closed /\ Len(queue) < QueueCap
    /\ queue' = Append(queue, r) /\ jobsWG' = jobsWG + 1
    /\ Answer(r, "served", "unavailable")
    /\ UNCHANGED <<marked, verified, started, workerVars, rootDone, shutdownVars, outcome>>

\* admit refuses: the handler is closed, or the queue is full (the count it
\* added is taken back before admissionMu is released, so none is left over).
RefuseAdmission(r) ==
    /\ serving[r] = "admitting"
    /\ closed \/ Len(queue) = QueueCap
    /\ Answer(r, "served", "unavailable")
    /\ UNCHANGED <<marked, verified, started, queue, jobsWG, workerVars,
                   rootDone, shutdownVars, outcome>>

Respond(r) ==
    /\ serving[r] = "responding"
    /\ Answer(r, "releasing", "accepted")
    /\ UNCHANGED <<marked, verified, started, queue, jobsWG, workerVars,
                   rootDone, shutdownVars, outcome>>

\* close(job.start)
OpenGate(r) ==
    /\ serving[r] = "releasing"
    /\ serving' = [serving EXCEPT ![r] = "served"]
    /\ started' = started \cup {r}
    /\ UNCHANGED <<response, marked, verified, queue, jobsWG, workerVars,
                   rootDone, shutdownVars, outcome>>

ServeRequest(r) ==
    \/ EnterOpen(r) \/ EnterClosed(r) \/ MarkVerified(r)
    \/ Reject(r) \/ BuildJob(r)
    \/ Admit(r) \/ RefuseAdmission(r)
    \/ Respond(r) \/ OpenGate(r)

-----------------------------------------------------------------------------
(* Worker goroutine w.                                                     *)

\* Worker w goes to step p, still holding its job.
MoveTo(w, p) == phase' = [phase EXCEPT ![w] = p]

\* The job of w ended in the way o.
EndsAs(w, o) == outcome' = [outcome EXCEPT ![job[w]] = o]

\* A hub-error notification is sent only when it is enabled.
ErrorPhase == IF EnableHubErrorCallback THEN "notify" ELSE "finish"

TakeJob(w) ==
    /\ phase[w] = "select"
    /\ queue # <<>>
    /\ job' = [job EXCEPT ![w] = Head(queue)]
    /\ queue' = Tail(queue)
    /\ MoveTo(w, "gate")
    /\ UNCHANGED <<requestVars, jobsWG, confirmed, rootDone, shutdownVars, outcome>>

WorkerExit(w) ==
    /\ phase[w] = "select"
    /\ rootDone
    /\ MoveTo(w, "exited")
    /\ UNCHANGED <<requestVars, queue, jobsWG, job, confirmed, rootDone,
                   shutdownVars, outcome>>

\* Mutant of PassGate: the worker does not wait for the response.
PassGateUnheld(w) ==
    /\ phase[w] = "gate"
    /\ MoveTo(w, "validate")
    /\ UNCHANGED <<requestVars, queue, jobsWG, job, confirmed, rootDone,
                   shutdownVars, outcome>>

\* runJob: when both channels are ready, select picks either.
PassGate(w) ==
    /\ phase[w] = "gate"
    /\ job[w] \in started
    /\ MoveTo(w, "validate")
    /\ UNCHANGED <<requestVars, queue, jobsWG, job, confirmed, rootDone,
                   shutdownVars, outcome>>

\* Mutant of AbandonAtGate: the worker waits for the response only.
AbandonAtOpenGate(w) ==
    /\ phase[w] = "gate" /\ rootDone /\ job[w] \in started
    /\ MoveTo(w, "finish")
    /\ EndsAs(w, "abandoned")
    /\ UNCHANGED <<requestVars, queue, jobsWG, job, confirmed, rootDone, shutdownVars>>

AbandonAtGate(w) ==
    /\ phase[w] = "gate"
    /\ rootDone
    /\ MoveTo(w, "finish")
    /\ EndsAs(w, "abandoned")
    /\ UNCHANGED <<requestVars, queue, jobsWG, job, confirmed, rootDone, shutdownVars>>

\* Mutant of ValidationPasses: the mark is read when the job runs.
ValidationPassesMarked(w) ==
    /\ phase[w] = "validate"
    /\ MoveTo(w, IF job[w] \in marked THEN "handoff" ELSE "intent")
    /\ UNCHANGED <<requestVars, queue, jobsWG, job, confirmed, rootDone,
                   shutdownVars, outcome>>

\* The validation callback returns nil, or there is none.
ValidationPasses(w) ==
    /\ phase[w] = "validate"
    /\ MoveTo(w, IF job[w] \in verified THEN "handoff" ELSE "intent")
    /\ UNCHANGED <<requestVars, queue, jobsWG, job, confirmed, rootDone,
                   shutdownVars, outcome>>

\* It returns a DeniedError: the subscriber is told.
ValidationDenies(w) ==
    /\ phase[w] = "validate"
    /\ MoveTo(w, "notify")
    /\ EndsAs(w, "denied")
    /\ UNCHANGED <<requestVars, queue, jobsWG, job, confirmed, rootDone, shutdownVars>>

\* It returns another error or panics.
ValidationFails(w) ==
    /\ phase[w] = "validate"
    /\ MoveTo(w, ErrorPhase)
    /\ EndsAs(w, "invalid")
    /\ UNCHANGED <<requestVars, queue, jobsWG, job, confirmed, rootDone, shutdownVars>>

\* verifyIntent: a 2xx answer that echoes the challenge.  rootDone reaches the
\* request through AfterFunc, later, so it does not rule the answer out.
IntentConfirmed(w) ==
    /\ phase[w] = "intent"
    /\ MoveTo(w, "handoff")
    /\ confirmed' = confirmed \cup {job[w]}
    /\ UNCHANGED <<requestVars, queue, jobsWG, job, rootDone, shutdownVars, outcome>>

\* No challenge, no answer in time, a cancelled context, a wrong answer.
IntentFails(w) ==
    /\ phase[w] = "intent"
    /\ MoveTo(w, "finish")
    /\ EndsAs(w, "unconfirmed")
    /\ UNCHANGED <<requestVars, queue, jobsWG, job, confirmed, rootDone, shutdownVars>>

\* OnSubscriptionVerified / OnUnsubscriptionVerified returns nil.
HandoffSucceeds(w) ==
    /\ phase[w] = "handoff"
    /\ MoveTo(w, "finish")
    /\ EndsAs(w, "verified")
    /\ UNCHANGED <<requestVars, queue, jobsWG, job, confirmed, rootDone, shutdownVars>>

HandoffFails(w) ==
    /\ phase[w] = "handoff"
    /\ MoveTo(w, ErrorPhase)
    /\ EndsAs(w, "verifiedFailed")
    /\ UNCHANGED <<requestVars, queue, jobsWG, job, confirmed, rootDone, shutdownVars>>

\* sendStatusNotification: one attempt, its error is dropped.
Notify(w) ==
    /\ phase[w] = "notify"
    /\ MoveTo(w, "finish")
    /\ UNCHANGED <<requestVars, queue, jobsWG, job, confirmed, rootDone,
                   shutdownVars, outcome>>

\* jobsWG.Done, then back to the select.
FinishJob(w) ==
    /\ phase[w] = "finish"
    /\ jobsWG' = jobsWG - 1
    /\ job' = [job EXCEPT ![w] = NoJob]
    /\ MoveTo(w, "select")
    /\ UNCHANGED <<requestVars, queue, confirmed, rootDone, shutdownVars, outcome>>

ValidationReturns(w) == ValidationPasses(w) \/ ValidationDenies(w) \/ ValidationFails(w)
HandoffReturns(w)    == HandoffSucceeds(w) \/ HandoffFails(w)

\* The steps a worker takes without waiting for the application.
WorkerOwnStep(w) ==
    \/ TakeJob(w) \/ WorkerExit(w)
    \/ PassGate(w) \/ AbandonAtGate(w)
    \/ IntentConfirmed(w) \/ IntentFails(w)
    \/ Notify(w) \/ FinishJob(w)

WorkerStep(w) == WorkerOwnStep(w) \/ ValidationReturns(w) \/ HandoffReturns(w)

-----------------------------------------------------------------------------
(* Close: its callers and the goroutine it starts once.                    *)

CloserGoes(c, step) == closer' = [closer EXCEPT ![c] = step]

\* The first call closes admission under admissionMu and starts the shutdown
\* goroutine; a later one finds closeOnce done.
CloseCalled(c) ==
    /\ closer[c] = "idle"
    /\ CloserGoes(c, "waiting")
    /\ closed' = TRUE
    /\ shutdown' = IF shutdown = "none" THEN "waitJobs" ELSE shutdown
    /\ UNCHANGED <<requestVars, queue, jobsWG, workerVars, rootDone, drained, outcome>>

\* Mutant of CloseReturnsNil: the jobs are waited for, the workers are not.
CloseReturnsNilEarly(c) ==
    /\ closer[c] = "waiting"
    /\ shutdown \in {"waitWorkers", "done"}
    /\ CloserGoes(c, "nil")
    /\ UNCHANGED <<requestVars, queue, jobsWG, workerVars, rootDone, closed,
                   shutdown, drained, outcome>>

CloseReturnsNil(c) ==
    /\ closer[c] = "waiting"
    /\ shutdown = "done"
    /\ CloserGoes(c, "nil")
    /\ UNCHANGED <<requestVars, queue, jobsWG, workerVars, rootDone, closed,
                   shutdown, drained, outcome>>

\* Mutant of CloseExpires: the jobs are waited for before the queue is drained.
CloseExpiresIdle(c) ==
    /\ closer[c] = "waiting" /\ jobsWG = 0
    /\ CloserGoes(c, "draining")
    /\ rootDone' = TRUE
    /\ UNCHANGED <<requestVars, queue, jobsWG, workerVars, closed, shutdown,
                   drained, outcome>>

\* The caller's context ends first (or select picks it): rootCancel.
CloseExpires(c) ==
    /\ closer[c] = "waiting"
    /\ CloserGoes(c, "draining")
    /\ rootDone' = TRUE
    /\ UNCHANGED <<requestVars, queue, jobsWG, workerVars, closed, shutdown,
                   drained, outcome>>

\* The drain loop races with workers that still receive.
DrainOne(c) ==
    /\ closer[c] = "draining"
    /\ queue # <<>>
    /\ drained' = [drained EXCEPT ![c] = Head(queue)]
    /\ queue' = Tail(queue)
    /\ outcome' = [outcome EXCEPT ![Head(queue)] = "drained"]
    /\ CloserGoes(c, "accounting")
    /\ UNCHANGED <<requestVars, jobsWG, workerVars, rootDone, closed, shutdown>>

\* Mutant of AccountDrained: no Done for a drained job.
AccountDrainedUncounted(c) ==
    /\ closer[c] = "accounting"
    /\ drained' = [drained EXCEPT ![c] = NoJob]
    /\ CloserGoes(c, "draining")
    /\ UNCHANGED <<requestVars, queue, jobsWG, workerVars, rootDone, closed, shutdown, outcome>>

AccountDrained(c) ==
    /\ closer[c] = "accounting"
    /\ jobsWG' = jobsWG - 1
    /\ drained' = [drained EXCEPT ![c] = NoJob]
    /\ CloserGoes(c, "draining")
    /\ UNCHANGED <<requestVars, queue, workerVars, rootDone, closed, shutdown, outcome>>

CloseReturnsError(c) ==
    /\ closer[c] = "draining"
    /\ queue = <<>>
    /\ CloserGoes(c, "expired")
    /\ UNCHANGED <<requestVars, queue, jobsWG, workerVars, rootDone, closed,
                   shutdown, drained, outcome>>

CloserStep(c) ==
    \/ CloseCalled(c) \/ CloseReturnsNil(c) \/ CloseExpires(c)
    \/ DrainOne(c) \/ AccountDrained(c) \/ CloseReturnsError(c)

\* Mutant of ShutdownJobsDone: the workers are cancelled at once.
ShutdownAtOnce ==
    /\ shutdown = "waitJobs"
    /\ shutdown' = "cancel"
    /\ UNCHANGED <<requestVars, queue, jobsWG, workerVars, rootDone, closed,
                   closer, drained, outcome>>

ShutdownJobsDone ==
    /\ shutdown = "waitJobs"
    /\ jobsWG = 0
    /\ shutdown' = "cancel"
    /\ UNCHANGED <<requestVars, queue, jobsWG, workerVars, rootDone, closed,
                   closer, drained, outcome>>

ShutdownCancels ==
    /\ shutdown = "cancel"
    /\ rootDone' = TRUE
    /\ shutdown' = "waitWorkers"
    /\ UNCHANGED <<requestVars, queue, jobsWG, workerVars, closed, closer,
                   drained, outcome>>

\* Mutant of ShutdownCompletes: the workers are not waited for.
ShutdownCompletesEarly ==
    /\ shutdown = "waitWorkers"
    /\ shutdown' = "done"
    /\ UNCHANGED <<requestVars, queue, jobsWG, workerVars, rootDone, closed,
                   closer, drained, outcome>>

\* workersWG.Wait, then close(closeDone).
ShutdownCompletes ==
    /\ shutdown = "waitWorkers"
    /\ \A w \in Workers : phase[w] = "exited"
    /\ shutdown' = "done"
    /\ UNCHANGED <<requestVars, queue, jobsWG, workerVars, rootDone, closed,
                   closer, drained, outcome>>

ShutdownStep == ShutdownJobsDone \/ ShutdownCancels \/ ShutdownCompletes

-----------------------------------------------------------------------------
Next ==
    \/ \E r \in Requests : ServeRequest(r)
    \/ \E w \in Workers : WorkerStep(w)
    \/ \E c \in Closers : CloserStep(c)
    \/ ShutdownStep

Spec == Init /\ [][Next]_vars

(***************************************************************************)
(* Fairness.  A goroutine that can run does run.  A 202 is written and its *)
(* gate opened (net/http buffers a small response, so the write does not   *)
(* wait for the client; a larger body is assumed to be written); the       *)
(* intent request and the notification are bounded by VerificationTimeout. *)
(* The application's callbacks are bounded by nobody: Callbacks below is   *)
(* assumed only where a property needs it.  That a request ever arrives,   *)
(* that Close is ever called or that a caller's context ends is assumed    *)
(* nowhere except in Deadlines.                                            *)
(***************************************************************************)
Scheduling ==
    /\ \A r \in Requests : WF_vars(Respond(r) \/ OpenGate(r))
    /\ \A w \in Workers : WF_vars(WorkerOwnStep(w))
    /\ \A c \in Closers :
         WF_vars(CloseReturnsNil(c) \/ DrainOne(c) \/ AccountDrained(c)
                 \/ CloseReturnsError(c))
    /\ WF_vars(ShutdownStep)

Callbacks ==
    \A w \in Workers : WF_vars(ValidationReturns(w) \/ HandoffReturns(w))

\* Callers of Close run and their contexts end; anything else may hang.
Deadlines ==
    \A c \in Closers :
        WF_vars(CloseReturnsNil(c) \/ CloseExpires(c) \/ DrainOne(c)
                \/ AccountDrained(c) \/ CloseReturnsError(c))

\* Workers run and callbacks return, but no response is assumed.
WorkersRun ==
    /\ \A w \in Workers : WF_vars(WorkerOwnStep(w))
    /\ Callbacks
    /\ WF_vars(ShutdownStep)
=============================================================================
