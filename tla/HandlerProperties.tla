-------------------------- MODULE HandlerProperties --------------------------
(***************************************************************************)
(* The correctness properties of the Handler pipeline.                     *)
(***************************************************************************)
EXTENDS Handler

\* Where an admitted request may be: queued, held by a worker, or received by
\* a draining Close that has not accounted for it yet.
Queued         == {queue[i] : i \in DOMAIN queue}
Holding        == {w \in Workers : phase[w] \in HoldingPhases}
Accounting     == {c \in Closers : closer[c] = "accounting"}
InFlight       == Queued \cup {job[w] : w \in Holding} \cup {drained[c] : c \in Accounting}
ExpiredClosers == {c \in Closers : closer[c] \in {"draining", "accounting", "expired"}}

\* How a job that passed its gate can end.
RanToEnd == {"denied", "invalid", "unconfirmed", "verified", "verifiedFailed"}

-----------------------------------------------------------------------------
(* Safety                                                                  *)

\* jobsWG counts exactly the jobs somebody still has to account for: a worker
\* and a draining Close never both, and never neither, call Done for a job.
\* Otherwise Wait returns too early, or never, or Done panics below zero.
WorkIsAccounted ==
    jobsWG = Len(queue) + Cardinality(Holding) + Cardinality(Accounting)

\* An admitted request is in one place at a time, and one that was answered
\* 503 or rejected is in none and never ran: the answer and the work agree.
OwnedOnceOrNever ==
    /\ \A i, j \in DOMAIN queue : queue[i] = queue[j] => i = j
    /\ \A w1, w2 \in Holding : job[w1] = job[w2] => w1 = w2
    /\ \A w \in Holding : job[w] \notin Queued
    /\ \A r \in Requests :
         /\ response[r] = "accepted" => r \in InFlight \/ outcome[r] # "none"
         /\ response[r] \in {"unavailable", "rejected"} =>
                r \notin InFlight /\ outcome[r] = "none"

\* No application callback and no intent request happens for a job before its
\* 202 is committed, even when the queue is fast and the response slow.
WorkFollowsResponse ==
    /\ \A w \in Workers :
         phase[w] \in {"validate", "intent", "handoff", "notify"} =>
             response[job[w]] = "accepted"
    /\ \A r \in Requests : outcome[r] \in RanToEnd => response[r] = "accepted"

\* The verified callback runs for a request only after the subscriber confirmed
\* it or the application had marked it by the time it was admitted; marking it
\* while the job waits changes nothing.
HandoffIsAuthorised ==
    \A r \in Requests :
        (outcome[r] \in {"verified", "verifiedFailed"}
           \/ \E w \in Workers : phase[w] = "handoff" /\ job[w] = r)
        => r \in confirmed \/ (AllowExternalVerification /\ r \in verified)

\* A shutdown in which no caller of Close ran out of time neither drops nor
\* cancels anything: every 202 was honoured when it completes.
GracefulShutdownHonoursAccepted ==
    (shutdown = "done" /\ ExpiredClosers = {}) =>
        \A r \in Requests : response[r] = "accepted" => outcome[r] \in RanToEnd

\* When the shutdown has completed nothing of the pipeline is left running.
ShutdownIsQuiescent ==
    shutdown = "done" =>
        /\ closed /\ rootDone
        /\ queue = <<>>
        /\ \A w \in Workers : phase[w] = "exited"
        /\ Accounting = {}
        /\ jobsWG = 0

-----------------------------------------------------------------------------
(* Action properties                                                       *)

\* Once Close was called the count only falls: a request that passed the check
\* at the top of ServeHTTP earlier is not admitted behind the waiting Close
\* (which would also be a WaitGroup.Add concurrent with Wait).
AdmissionStopsAtClose == [][closed => jobsWG' <= jobsWG /\ Len(queue') <= Len(queue)]_vars

\* After any Close returned nil no worker runs, calls back or ends a job again.
NilMeansSilence ==
    [][(\E c \in Closers : closer[c] = "nil") =>
          UNCHANGED <<phase, job, queue, jobsWG, outcome>>]_vars

-----------------------------------------------------------------------------
(* What liveness rests on besides fairness                                 *)

\* Where the goroutines can go on: the guards of their actions.
WorkerCanMove(w) ==
    \/ phase[w] = "select" /\ (queue # <<>> \/ rootDone)
    \/ phase[w] = "gate" /\ (job[w] \in started \/ rootDone)
    \/ phase[w] \in {"validate", "intent", "handoff", "notify", "finish"}

ShutdownCanMove ==
    \/ shutdown = "waitJobs" /\ jobsWG = 0
    \/ shutdown = "cancel"
    \/ shutdown = "waitWorkers" /\ \A w \in Workers : phase[w] = "exited"

\* From Close on somebody can go on until the shutdown is complete: it does not
\* wait for a job nobody accounts for, a worker that waits for a gate nobody
\* opens, or a queue whose workers have left.  Once the context is cancelled no
\* response writer is needed for it.
ShutdownNeverBlocks ==
    (closed /\ shutdown # "done") =>
        \/ ShutdownCanMove
        \/ \E w \in Workers : WorkerCanMove(w)
        \/ \E c \in Closers : closer[c] \in {"draining", "accounting"}
        \/ ~rootDone /\ \E r \in Requests : serving[r] \in {"responding", "releasing"}

ServingStepsLeft(s) ==
    CASE s = "new" -> 5 [] s = "deciding" -> 4 [] s = "admitting" -> 3
      [] s = "responding" -> 2 [] s = "releasing" -> 1 [] s = "served" -> 0
WorkerStepsLeft(s) ==
    CASE s = "gate" -> 7 [] s = "validate" -> 6 [] s = "intent" -> 5 [] s = "handoff" -> 4
      [] s = "notify" -> 3 [] s = "finish" -> 2 [] s = "select" -> 1 [] s = "exited" -> 0
CloserStepsLeft(s) ==
    CASE s = "idle" -> 4 [] s = "waiting" -> 3 [] s = "accounting" -> 2
      [] s = "draining" -> 1 [] s \in {"nil", "expired"} -> 0
ShutdownStepsLeft(s) ==
    CASE s = "none" -> 4 [] s = "waitJobs" -> 3 [] s = "cancel" -> 2
      [] s = "waitWorkers" -> 1 [] s = "done" -> 0

\* Jobs leave the queue, or one goroutine comes nearer its end and no other moves.
LessIsLeft ==
    \/ Len(queue') < Len(queue)
    \/ /\ queue' = queue
       /\ \/ \E r \in Requests :
               /\ \/ /\ ServingStepsLeft(serving'[r]) < ServingStepsLeft(serving[r])
                     /\ marked' = marked
                  \/ serving'[r] = serving[r] /\ r \notin marked /\ marked' = marked \cup {r}
               /\ \A s \in Requests \ {r} : serving'[s] = serving[s]
               /\ UNCHANGED <<phase, closer, shutdown>>
          \/ \E w \in Workers :
               /\ WorkerStepsLeft(phase'[w]) < WorkerStepsLeft(phase[w])
               /\ \A v \in Workers \ {w} : phase'[v] = phase[v]
               /\ UNCHANGED <<serving, marked, closer, shutdown>>
          \/ \E c \in Closers :
               /\ CloserStepsLeft(closer'[c]) < CloserStepsLeft(closer[c])
               /\ \A d \in Closers \ {c} : closer'[d] = closer[d]
               /\ UNCHANGED <<serving, marked, phase, shutdown>>
          \/ /\ ShutdownStepsLeft(shutdown') < ShutdownStepsLeft(shutdown)
             /\ UNCHANGED <<serving, marked, phase, closer>>

\* From Close on every step of anybody leaves less to do: requests that come late,
\* marks, drains and workers cannot keep each other busy for ever.
ClosingShrinksWork == [][closed => closed' /\ LessIsLeft]_vars

-----------------------------------------------------------------------------
(* Liveness                                                                *)

\* A caller of Close whose context ends gets an answer although callbacks,
\* workers and response writers may hang forever.
CloseReturns ==
    Deadlines => \A c \in Closers : closer[c] = "waiting" ~> closer[c] \in {"nil", "expired"}

\* After a Close that timed out the shutdown still completes, so a later Close
\* returns nil, even when no response is ever written and no gate opens again:
\* it takes only workers that run and callbacks that return.
ExpiredCloseRecovers ==
    Deadlines /\ WorkersRun => ((closed /\ rootDone) ~> shutdown = "done")

-----------------------------------------------------------------------------
(* Refinement of VerificationService                                       *)

\* A job is with the service from its admission until it is accounted for.
Standing(r) ==
    CASE r \in InFlight -> "owned"
      [] r \notin InFlight /\ serving[r] \in {"new", "deciding", "admitting"} -> "outside"
      [] r \notin InFlight /\ response[r] \in {"unavailable", "rejected"} -> "turnedAway"
      [] OTHER -> "settled"

Service == INSTANCE VerificationService WITH
    Requests <- Requests,
    Capacity <- QueueCap + Cardinality(Workers),
    open     <- ~closed,
    standing <- [r \in Requests |-> Standing(r)],
    finished <- shutdown = "done"

\* The goroutines together do what the service promises: at most QueueCap +
\* Workers requests are owned, each is settled once, and shutdown finishes only
\* when none is owned and none can be accepted.
ImplementsService == Service!Spec

\* When goroutines run and callbacks return they also do it eventually: a
\* request that was answered 202 is settled, and once Close was called the
\* shutdown completes, whether or not callers ran out of time on the way and
\* drained the queue against the workers.
ImplementsLiveService == Scheduling /\ Callbacks => Service!Fairness
=============================================================================
