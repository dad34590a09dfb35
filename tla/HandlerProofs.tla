---------------------------- MODULE HandlerProofs ----------------------------
(***************************************************************************)
(* Theorems about Handler for every number of requests, workers and Close  *)
(* calls and every queue capacity: the accounting and the silence after    *)
(* Close, then where an admitted request is and how it ends, and with that *)
(* the implementation of VerificationService.  Last, the arithmetic of     *)
(* Limits.                                                                 *)
(*                                                                         *)
(* TypeOK is not inductive: FinishJob and AccountDrained subtract from     *)
(* jobsWG, which stays a natural number only because the count is exact.   *)
(* WorkInv adds that every holder holds a job and that jobsWG is exact;    *)
(* ShutdownInv and GateInv are proved on top of it, and on these:          *)
(*                                                                         *)
(* PlaceInv: a request is queued, held by one worker or drained by one     *)
(* Close.  AnswerInv: the answer and the place agree.  OutcomeInv: a job   *)
(* has ended when its holder lets go of it, and ends without having run    *)
(* only after a caller of Close ran out of time.                           *)
(***************************************************************************)
EXTENDS HandlerProperties, Limits, FiniteSetTheorems, SequenceTheorems, TLAPS

USE RequestsAssumption, WorkersAssumption, ClosersAssumption, QueueAssumption,
    ConfigAssumption

\* A worker that is past the select holds a request, and so does a Close that
\* has not accounted for what it drained.
JobsHeld ==
    /\ \A w \in Workers : phase[w] \in HoldingPhases => job[w] \in Requests
    /\ \A c \in Closers : closer[c] = "accounting" => drained[c] \in Requests

WorkInv == TypeOK /\ JobsHeld /\ WorkIsAccounted

\* The shutdown goroutine passes its waits only when they are over for good.
ShutdownInv ==
    /\ closed <=> shutdown # "none"
    /\ shutdown \in {"cancel", "waitWorkers", "done"} => jobsWG = 0
    /\ shutdown \in {"waitWorkers", "done"} => rootDone
    /\ shutdown = "done" => \A w \in Workers : phase[w] = "exited"
    /\ \A c \in Closers : closer[c] = "nil" => shutdown = "done"

\* A gate opens after its 202; nothing runs, or has run, behind a closed gate.
GateInv ==
    /\ \A r \in Requests :
         /\ r \in started => response[r] = "accepted"
         /\ serving[r] = "releasing" => response[r] = "accepted"
         /\ response[r] = "accepted" => serving[r] \in {"releasing", "served"}
         /\ outcome[r] \in RanToEnd => r \in started
    /\ \A w \in Workers :
         phase[w] \in {"validate", "intent", "handoff", "notify"} => job[w] \in started

-----------------------------------------------------------------------------
(* The sets the accounting counts are finite.                              *)

LEMMA CountsAreNaturals ==
    /\ IsFiniteSet(Holding) /\ IsFiniteSet(Accounting)
    /\ Cardinality(Holding) \in Nat /\ Cardinality(Accounting) \in Nat
<1>1. Holding \in SUBSET Workers /\ Accounting \in SUBSET Closers
  BY DEF Holding, Accounting
<1> QED  BY <1>1, FS_Subset, FS_CardinalityType

\* A job still held keeps the count above zero.
LEMMA HeldIsCounted ==
    ASSUME WorkInv
    PROVE  /\ \A w \in Workers : phase[w] \in HoldingPhases => jobsWG - 1 \in Nat
           /\ \A c \in Closers : closer[c] = "accounting" => jobsWG - 1 \in Nat
           /\ queue # <<>> => jobsWG - 1 \in Nat
<1>1. Len(queue) \in Nat /\ (queue # <<>> => Len(queue) # 0)
  BY EmptySeq, LenProperties DEF WorkInv, TypeOK
<1>2. ASSUME NEW w \in Workers, phase[w] \in HoldingPhases
      PROVE  Cardinality(Holding) # 0
  <2>1. w \in Holding
    BY <1>2 DEF Holding
  <2> QED  BY <2>1, CountsAreNaturals, FS_EmptySet
<1>3. ASSUME NEW c \in Closers, closer[c] = "accounting"
      PROVE  Cardinality(Accounting) # 0
  <2>1. c \in Accounting
    BY <1>3 DEF Accounting
  <2> QED  BY <2>1, CountsAreNaturals, FS_EmptySet
<1>4. jobsWG = Len(queue) + Cardinality(Holding) + Cardinality(Accounting)
  BY DEF WorkInv, WorkIsAccounted
<1>5. ASSUME NEW w \in Workers, phase[w] \in HoldingPhases
      PROVE  jobsWG - 1 \in Nat
  BY <1>1, <1>2, <1>4, <1>5, CountsAreNaturals
<1>6. ASSUME NEW c \in Closers, closer[c] = "accounting"
      PROVE  jobsWG - 1 \in Nat
  BY <1>1, <1>3, <1>4, <1>6, CountsAreNaturals
<1>7. ASSUME queue # <<>>
      PROVE  jobsWG - 1 \in Nat
  BY <1>1, <1>4, <1>7, CountsAreNaturals
<1> QED  BY <1>5, <1>6, <1>7

-----------------------------------------------------------------------------
(* Each step keeps TypeOK and JobsHeld.                                    *)

LEMMA InitWork == Init => WorkInv
<1> SUFFICES ASSUME Init PROVE WorkInv
  OBVIOUS
<1>0. queue \in Seq(Requests) /\ Len(queue) = 0 /\ Len(queue) <= QueueCap
  BY EmptySeq DEF Init
<1>1. TypeOK
  BY <1>0 DEF Init, TypeOK, ServingSteps, Responses, Phases, CloserSteps, Outcomes
<1>2. JobsHeld
  BY DEF Init, JobsHeld, HoldingPhases
<1>3. Holding = {} /\ Accounting = {}
  BY DEF Init, Holding, Accounting, HoldingPhases
<1>4. WorkIsAccounted
  BY <1>3, FS_EmptySet, EmptySeq DEF Init, WorkIsAccounted
<1> QED  BY <1>1, <1>2, <1>4 DEF WorkInv

LEMMA RequestKeepsTypes ==
    ASSUME WorkInv, NEW r \in Requests, ServeRequest(r)
    PROVE  TypeOK' /\ JobsHeld'
<1> USE DEF WorkInv, TypeOK, JobsHeld, Answer, ServingSteps, Responses,
            workerVars, shutdownVars
<1>EnterOpen. CASE EnterOpen(r)
  BY <1>EnterOpen DEF EnterOpen
<1>EnterClosed. CASE EnterClosed(r)
  BY <1>EnterClosed DEF EnterClosed
<1>MarkVerified. CASE MarkVerified(r)
  BY <1>MarkVerified DEF MarkVerified
<1>Reject. CASE Reject(r)
  BY <1>Reject DEF Reject
<1>BuildJob. CASE BuildJob(r)
  BY <1>BuildJob DEF BuildJob
<1>RefuseAdmission. CASE RefuseAdmission(r)
  BY <1>RefuseAdmission DEF RefuseAdmission
<1>Respond. CASE Respond(r)
  BY <1>Respond DEF Respond
<1>OpenGate. CASE OpenGate(r)
  BY <1>OpenGate DEF OpenGate
<1>Admit. CASE Admit(r)
  BY <1>Admit, AppendProperties, LenProperties DEF Admit
<1> QED
  BY <1>EnterOpen, <1>EnterClosed, <1>MarkVerified, <1>Reject, <1>BuildJob,
     <1>RefuseAdmission, <1>Respond, <1>OpenGate, <1>Admit DEF ServeRequest

LEMMA WorkerKeepsTypes ==
    ASSUME WorkInv, NEW w \in Workers, WorkerStep(w)
    PROVE  TypeOK' /\ JobsHeld'
<1> USE DEF WorkInv, TypeOK, JobsHeld, MoveTo, EndsAs, ErrorPhase, Phases,
            HoldingPhases, Outcomes, requestVars, shutdownVars
<1>TakeJob. CASE TakeJob(w)
  BY <1>TakeJob, HeadTailProperties, LenProperties DEF TakeJob
<1>FinishJob. CASE FinishJob(w)
  BY <1>FinishJob, HeldIsCounted DEF FinishJob
<1>WorkerExit. CASE WorkerExit(w)
  BY <1>WorkerExit DEF WorkerExit
<1>PassGate. CASE PassGate(w)
  BY <1>PassGate DEF PassGate
<1>AbandonAtGate. CASE AbandonAtGate(w)
  BY <1>AbandonAtGate DEF AbandonAtGate
<1>ValidationPasses. CASE ValidationPasses(w)
  BY <1>ValidationPasses DEF ValidationPasses
<1>ValidationDenies. CASE ValidationDenies(w)
  BY <1>ValidationDenies DEF ValidationDenies
<1>ValidationFails. CASE ValidationFails(w)
  BY <1>ValidationFails DEF ValidationFails
<1>IntentConfirmed. CASE IntentConfirmed(w)
  BY <1>IntentConfirmed DEF IntentConfirmed
<1>IntentFails. CASE IntentFails(w)
  BY <1>IntentFails DEF IntentFails
<1>HandoffSucceeds. CASE HandoffSucceeds(w)
  BY <1>HandoffSucceeds DEF HandoffSucceeds
<1>HandoffFails. CASE HandoffFails(w)
  BY <1>HandoffFails DEF HandoffFails
<1>Notify. CASE Notify(w)
  BY <1>Notify DEF Notify
<1> QED
  BY <1>TakeJob, <1>FinishJob, <1>WorkerExit, <1>PassGate, <1>AbandonAtGate,
     <1>ValidationPasses, <1>ValidationDenies, <1>ValidationFails,
     <1>IntentConfirmed, <1>IntentFails, <1>HandoffSucceeds, <1>HandoffFails,
     <1>Notify
  DEF WorkerStep, WorkerOwnStep, ValidationReturns, HandoffReturns

LEMMA CloserKeepsTypes ==
    ASSUME WorkInv, NEW c \in Closers, CloserStep(c)
    PROVE  TypeOK' /\ JobsHeld'
<1> USE DEF WorkInv, TypeOK, JobsHeld, CloserGoes, CloserSteps, Outcomes,
            requestVars, workerVars
<1>DrainOne. CASE DrainOne(c)
  BY <1>DrainOne, HeadTailProperties, LenProperties DEF DrainOne
<1>AccountDrained. CASE AccountDrained(c)
  BY <1>AccountDrained, HeldIsCounted DEF AccountDrained
<1>CloseCalled. CASE CloseCalled(c)
  BY <1>CloseCalled DEF CloseCalled
<1>CloseReturnsNil. CASE CloseReturnsNil(c)
  BY <1>CloseReturnsNil DEF CloseReturnsNil
<1>CloseExpires. CASE CloseExpires(c)
  BY <1>CloseExpires DEF CloseExpires
<1>CloseReturnsError. CASE CloseReturnsError(c)
  BY <1>CloseReturnsError DEF CloseReturnsError
<1> QED
  BY <1>DrainOne, <1>AccountDrained, <1>CloseCalled, <1>CloseReturnsNil,
     <1>CloseExpires, <1>CloseReturnsError DEF CloserStep

LEMMA ShutdownKeepsTypes ==
    ASSUME WorkInv, ShutdownStep
    PROVE  TypeOK' /\ JobsHeld'
<1> USE DEF WorkInv, TypeOK, JobsHeld, requestVars, workerVars
<1>1. CASE ShutdownJobsDone
  BY <1>1 DEF ShutdownJobsDone
<1>2. CASE ShutdownCancels
  BY <1>2 DEF ShutdownCancels
<1>3. CASE ShutdownCompletes
  BY <1>3 DEF ShutdownCompletes
<1> QED  BY <1>1, <1>2, <1>3 DEF ShutdownStep

-----------------------------------------------------------------------------
(* Each step keeps the count exact.                                        *)

LEMMA HoldingAfterMove ==
    ASSUME TypeOK, NEW w \in Workers, NEW p \in Phases, MoveTo(w, p)
    PROVE  Holding' = IF p \in HoldingPhases THEN Holding \cup {w} ELSE Holding \ {w}
BY DEF TypeOK, MoveTo, Holding

LEMMA AccountingAfterMove ==
    ASSUME TypeOK, NEW c \in Closers, NEW p \in CloserSteps, CloserGoes(c, p)
    PROVE  Accounting' = IF p = "accounting" THEN Accounting \cup {c} ELSE Accounting \ {c}
BY DEF TypeOK, CloserGoes, Accounting

LEMMA RequestKeepsCount ==
    ASSUME WorkInv, NEW r \in Requests, ServeRequest(r)
    PROVE  WorkIsAccounted'
<1>1. Holding' = Holding /\ Accounting' = Accounting
  BY DEF ServeRequest, EnterOpen, EnterClosed, MarkVerified, Reject, BuildJob, Admit,
         RefuseAdmission, Respond, OpenGate, workerVars, shutdownVars, Holding, Accounting
<1>2. CASE Admit(r)
  <2>1. Len(queue') = Len(queue) + 1 /\ Len(queue) \in Nat
    BY <1>2, AppendProperties, LenProperties DEF Admit, WorkInv, TypeOK
  <2> QED
    BY <1>1, <1>2, <2>1, CountsAreNaturals DEF Admit, WorkInv, WorkIsAccounted
<1>3. CASE ~Admit(r)
  <2>1. jobsWG' = jobsWG /\ queue' = queue
    BY <1>3 DEF ServeRequest, EnterOpen, EnterClosed, MarkVerified, Reject, BuildJob,
                RefuseAdmission, Respond, OpenGate
  <2> QED  BY <1>1, <2>1 DEF WorkInv, WorkIsAccounted
<1> QED  BY <1>2, <1>3

LEMMA WorkerKeepsCount ==
    ASSUME WorkInv, NEW w \in Workers, WorkerStep(w)
    PROVE  WorkIsAccounted'
<1>1. Accounting' = Accounting
  BY DEF WorkerStep, WorkerOwnStep, ValidationReturns, HandoffReturns, TakeJob, WorkerExit,
         PassGate, AbandonAtGate, ValidationPasses, ValidationDenies, ValidationFails,
         IntentConfirmed, IntentFails, HandoffSucceeds, HandoffFails, Notify, FinishJob,
         shutdownVars, Accounting
<1>2. TypeOK
  BY DEF WorkInv
<1>3. CASE TakeJob(w)
  <2>1. Len(queue') = Len(queue) - 1 /\ Len(queue) \in Nat
    BY <1>2, <1>3, HeadTailProperties, LenProperties DEF TakeJob, TypeOK
  <2>2. Holding' = Holding \cup {w} /\ w \notin Holding
    BY <1>2, <1>3, HoldingAfterMove DEF TakeJob, Phases, HoldingPhases, Holding
  <2>3. Cardinality(Holding') = Cardinality(Holding) + 1
    BY <2>2, CountsAreNaturals, FS_AddElement
  <2> QED
    BY <1>1, <1>3, <2>1, <2>3, CountsAreNaturals DEF TakeJob, WorkInv, WorkIsAccounted
<1>4. CASE FinishJob(w)
  <2>1. Holding' = Holding \ {w} /\ w \in Holding
    BY <1>2, <1>4, HoldingAfterMove DEF FinishJob, Phases, HoldingPhases, Holding
  <2>2. Cardinality(Holding') = Cardinality(Holding) - 1
    BY <2>1, CountsAreNaturals, FS_RemoveElement
  <2>3. Len(queue) \in Nat
    BY <1>2, LenProperties DEF TypeOK
  <2> QED
    BY <1>1, <1>4, <2>2, <2>3, CountsAreNaturals DEF FinishJob, WorkInv, WorkIsAccounted
<1>5. CASE WorkerExit(w)
  <2>1. Holding' = Holding
    BY <1>2, <1>5, HoldingAfterMove DEF WorkerExit, Phases, HoldingPhases, Holding
  <2> QED  BY <1>1, <1>5, <2>1 DEF WorkerExit, WorkInv, WorkIsAccounted
<1>6. CASE ~TakeJob(w) /\ ~FinishJob(w) /\ ~WorkerExit(w)
  <2>1. PICK p \in HoldingPhases : MoveTo(w, p)
    BY <1>6 DEF WorkerStep, WorkerOwnStep, ValidationReturns, HandoffReturns, PassGate,
         AbandonAtGate, ValidationPasses, ValidationDenies, ValidationFails,
         IntentConfirmed, IntentFails, HandoffSucceeds, HandoffFails, Notify,
         ErrorPhase, Phases, HoldingPhases
  <2>2. w \in Holding /\ jobsWG' = jobsWG /\ queue' = queue
    BY <1>2, <1>6 DEF WorkerStep, WorkerOwnStep, ValidationReturns, HandoffReturns, PassGate,
         AbandonAtGate, ValidationPasses, ValidationDenies, ValidationFails,
         IntentConfirmed, IntentFails, HandoffSucceeds, HandoffFails, Notify,
         Phases, HoldingPhases, Holding
  <2>3. Holding' = Holding
    BY <1>2, <2>1, <2>2, HoldingAfterMove DEF HoldingPhases
  <2> QED  BY <1>1, <2>2, <2>3 DEF WorkInv, WorkIsAccounted
<1> QED  BY <1>3, <1>4, <1>5, <1>6

LEMMA CloserKeepsCount ==
    ASSUME WorkInv, NEW c \in Closers, CloserStep(c)
    PROVE  WorkIsAccounted'
<1>1. Holding' = Holding
  BY DEF CloserStep, CloseCalled, CloseReturnsNil, CloseExpires, DrainOne,
         AccountDrained, CloseReturnsError, workerVars, Holding
<1>2. TypeOK
  BY DEF WorkInv
<1>3. CASE DrainOne(c)
  <2>1. Len(queue') = Len(queue) - 1 /\ Len(queue) \in Nat
    BY <1>2, <1>3, HeadTailProperties, LenProperties DEF DrainOne, TypeOK
  <2>2. Accounting' = Accounting \cup {c} /\ c \notin Accounting
    BY <1>2, <1>3, AccountingAfterMove DEF DrainOne, CloserSteps, Accounting
  <2>3. Cardinality(Accounting') = Cardinality(Accounting) + 1
    BY <2>2, CountsAreNaturals, FS_AddElement
  <2> QED
    BY <1>1, <1>3, <2>1, <2>3, CountsAreNaturals DEF DrainOne, WorkInv, WorkIsAccounted
<1>4. CASE AccountDrained(c)
  <2>1. Accounting' = Accounting \ {c} /\ c \in Accounting
    BY <1>2, <1>4, AccountingAfterMove DEF AccountDrained, CloserSteps, Accounting
  <2>2. Cardinality(Accounting') = Cardinality(Accounting) - 1
    BY <2>1, CountsAreNaturals, FS_RemoveElement
  <2>3. Len(queue) \in Nat
    BY <1>2, LenProperties DEF TypeOK
  <2> QED
    BY <1>1, <1>4, <2>2, <2>3, CountsAreNaturals DEF AccountDrained, WorkInv, WorkIsAccounted
<1>5. CASE ~DrainOne(c) /\ ~AccountDrained(c)
  <2>1. PICK p \in CloserSteps \ {"accounting"} : CloserGoes(c, p)
    BY <1>5 DEF CloserStep, CloseCalled, CloseReturnsNil, CloseExpires,
                CloseReturnsError, CloserSteps
  <2>2. c \notin Accounting /\ jobsWG' = jobsWG /\ queue' = queue
    BY <1>5 DEF CloserStep, CloseCalled, CloseReturnsNil, CloseExpires,
                CloseReturnsError, Accounting
  <2>3. Accounting' = Accounting
    BY <1>2, <2>1, <2>2, AccountingAfterMove
  <2> QED  BY <1>1, <2>2, <2>3 DEF WorkInv, WorkIsAccounted
<1> QED  BY <1>3, <1>4, <1>5

LEMMA ShutdownKeepsCount ==
    ASSUME WorkInv, ShutdownStep
    PROVE  WorkIsAccounted'
<1>1. Holding' = Holding /\ Accounting' = Accounting /\ queue' = queue /\ jobsWG' = jobsWG
  BY DEF ShutdownStep, ShutdownJobsDone, ShutdownCancels, ShutdownCompletes, workerVars,
         Holding, Accounting
<1> QED  BY <1>1 DEF WorkInv, WorkIsAccounted

LEMMA WorkStep == WorkInv /\ [Next]_vars => WorkInv'
<1> SUFFICES ASSUME WorkInv, [Next]_vars PROVE WorkInv'
  OBVIOUS
<1>1. ASSUME NEW r \in Requests, ServeRequest(r) PROVE WorkInv'
  BY <1>1, RequestKeepsTypes, RequestKeepsCount DEF WorkInv
<1>2. ASSUME NEW w \in Workers, WorkerStep(w) PROVE WorkInv'
  BY <1>2, WorkerKeepsTypes, WorkerKeepsCount DEF WorkInv
<1>3. ASSUME NEW c \in Closers, CloserStep(c) PROVE WorkInv'
  BY <1>3, CloserKeepsTypes, CloserKeepsCount DEF WorkInv
<1>4. CASE ShutdownStep
  BY <1>4, ShutdownKeepsTypes, ShutdownKeepsCount DEF WorkInv
<1>5. CASE UNCHANGED vars
  <2>1. TypeOK' /\ JobsHeld'
    BY <1>5 DEF WorkInv, TypeOK, JobsHeld, vars, requestVars, workerVars, shutdownVars
  <2>2. Holding' = Holding /\ Accounting' = Accounting
    BY <1>5 DEF vars, workerVars, shutdownVars, Holding, Accounting
  <2> QED  BY <1>5, <2>1, <2>2 DEF vars, WorkInv, WorkIsAccounted
<1> QED  BY <1>1, <1>2, <1>3, <1>4, <1>5 DEF Next

-----------------------------------------------------------------------------
LEMMA WorkHolds == Spec => []WorkInv
BY InitWork, WorkStep, PTL DEF Spec

\* Every reachable state is well typed: the queue never outgrows its capacity and
\* jobsWG, which FinishJob and AccountDrained subtract from, never goes negative
\* (the panic of a sync.WaitGroup).
THEOREM HandlerTypes == Spec => []TypeOK
<1>1. WorkInv => TypeOK
  BY DEF WorkInv
<1> QED  BY <1>1, WorkHolds, PTL

\* jobsWG counts exactly the jobs that are queued, held by a worker or drained but
\* not accounted for: the WaitGroup that Close waits on leaks nothing.
THEOREM WorkAlwaysAccounted == Spec => []WorkIsAccounted
<1>1. WorkInv => WorkIsAccounted
  BY DEF WorkInv
<1> QED  BY <1>1, WorkHolds, PTL

-----------------------------------------------------------------------------
(* Shutdown: the waits are over for good once passed.                      *)

\* With nothing left to account for, nobody holds a job.
LEMMA NothingHeldAtZero ==
    ASSUME WorkInv, jobsWG = 0
    PROVE  /\ queue = <<>>
           /\ \A w \in Workers : phase[w] \notin HoldingPhases
           /\ \A c \in Closers : closer[c] # "accounting"
BY HeldIsCounted

LEMMA ShutdownInvInit == Init => ShutdownInv
BY DEF Init, ShutdownInv

LEMMA ShutdownInvStep == WorkInv /\ ShutdownInv /\ [Next]_vars => ShutdownInv'
<1> SUFFICES ASSUME WorkInv, ShutdownInv, [Next]_vars PROVE ShutdownInv'
  OBVIOUS
<1> USE DEF ShutdownInv
<1>0. TypeOK
  BY DEF WorkInv
<1>1. ASSUME NEW r \in Requests, ServeRequest(r) PROVE ShutdownInv'
  BY <1>1 DEF ServeRequest, EnterOpen, EnterClosed, MarkVerified, Reject, BuildJob, Admit,
              RefuseAdmission, Respond, OpenGate, workerVars, shutdownVars
<1>2. ASSUME NEW w \in Workers, WorkerStep(w) PROVE ShutdownInv'
  <2>1. UNCHANGED <<closed, rootDone, shutdown, closer>>
    BY <1>2 DEF WorkerStep, WorkerOwnStep, ValidationReturns, HandoffReturns, TakeJob,
         WorkerExit, PassGate, AbandonAtGate, ValidationPasses, ValidationDenies,
         ValidationFails, IntentConfirmed, IntentFails, HandoffSucceeds, HandoffFails,
         Notify, FinishJob, shutdownVars
  <2>2. CASE WorkerExit(w)
    BY <1>0, <2>1, <2>2 DEF WorkerExit, MoveTo, TypeOK, Phases
  <2>3. CASE ~WorkerExit(w)
    <3>1. phase[w] # "exited"
      BY <1>2, <2>3 DEF WorkerStep, WorkerOwnStep, ValidationReturns, HandoffReturns,
           TakeJob, PassGate, AbandonAtGate, ValidationPasses, ValidationDenies,
           ValidationFails, IntentConfirmed, IntentFails, HandoffSucceeds, HandoffFails,
           Notify, FinishJob
    <3>2. jobsWG # 0
      BY <1>2, <2>3, NothingHeldAtZero DEF WorkerStep, WorkerOwnStep, ValidationReturns,
           HandoffReturns, TakeJob, PassGate, AbandonAtGate, ValidationPasses,
           ValidationDenies, ValidationFails, IntentConfirmed, IntentFails,
           HandoffSucceeds, HandoffFails, Notify, FinishJob, HoldingPhases, Phases
    <3> QED  BY <2>1, <3>1, <3>2
  <2> QED  BY <2>2, <2>3
<1>3. ASSUME NEW c \in Closers, CloserStep(c) PROVE ShutdownInv'
  <2>1. CASE AccountDrained(c)
    <3>1. jobsWG # 0
      BY <2>1, NothingHeldAtZero DEF AccountDrained
    <3> QED  BY <1>0, <2>1, <3>1 DEF AccountDrained, CloserGoes, TypeOK, workerVars
  <2>2. CASE ~AccountDrained(c)
    BY <1>0, <1>3, <2>2 DEF CloserStep, CloseCalled, CloseReturnsNil, CloseExpires, DrainOne,
         CloseReturnsError, CloserGoes, CloserSteps, TypeOK, workerVars
  <2> QED  BY <2>1, <2>2
<1>4. CASE ShutdownStep
  BY <1>4 DEF ShutdownStep, ShutdownJobsDone, ShutdownCancels, ShutdownCompletes, workerVars
<1>5. CASE UNCHANGED vars
  BY <1>5 DEF vars, workerVars, shutdownVars
<1> QED  BY <1>1, <1>2, <1>3, <1>4, <1>5 DEF Next

LEMMA InvariantsHold == Spec => []WorkInv /\ []ShutdownInv
<1>1. Init => WorkInv /\ ShutdownInv
  BY InitWork, ShutdownInvInit
<1>2. (WorkInv /\ ShutdownInv) /\ [Next]_vars => (WorkInv /\ ShutdownInv)'
  BY WorkStep, ShutdownInvStep
<1> QED  BY <1>1, <1>2, PTL DEF Spec

LEMMA QuiescentFromInv == WorkInv /\ ShutdownInv => ShutdownIsQuiescent
BY NothingHeldAtZero DEF ShutdownInv, ShutdownIsQuiescent, Accounting

\* When the shutdown goroutine of Close has finished, admission is closed, the
\* queue is empty, no Close is still draining and every worker has exited.
THEOREM ShutdownQuiescent == Spec => []ShutdownIsQuiescent
BY InvariantsHold, QuiescentFromInv, PTL

LEMMA NilStep ==
    ASSUME WorkInv, ShutdownInv, [Next]_vars
    PROVE  (\E c \in Closers : closer[c] = "nil") =>
              UNCHANGED <<phase, job, queue, jobsWG, outcome>>
<1> SUFFICES ASSUME shutdown = "done"
             PROVE  UNCHANGED <<phase, job, queue, jobsWG, outcome>>
  BY DEF ShutdownInv
<1>1. jobsWG = 0 /\ rootDone /\ closed /\ \A w \in Workers : phase[w] = "exited"
  BY DEF ShutdownInv
<1>2. queue = <<>> /\ \A c \in Closers : closer[c] # "accounting"
  BY <1>1, NothingHeldAtZero
<1>3. ASSUME NEW r \in Requests, ServeRequest(r)
      PROVE  UNCHANGED <<phase, job, queue, jobsWG, outcome>>
  BY <1>1, <1>3 DEF ServeRequest, EnterOpen, EnterClosed, MarkVerified, Reject, BuildJob,
              Admit, RefuseAdmission, Respond, OpenGate, workerVars
<1>4. ASSUME NEW w \in Workers, WorkerStep(w) PROVE FALSE
  BY <1>1, <1>4 DEF WorkerStep, WorkerOwnStep, ValidationReturns, HandoffReturns, TakeJob,
         WorkerExit, PassGate, AbandonAtGate, ValidationPasses, ValidationDenies,
         ValidationFails, IntentConfirmed, IntentFails, HandoffSucceeds, HandoffFails,
         Notify, FinishJob
<1>5. ASSUME NEW c \in Closers, CloserStep(c)
      PROVE  UNCHANGED <<phase, job, queue, jobsWG, outcome>>
  BY <1>2, <1>5 DEF CloserStep, CloseCalled, CloseReturnsNil, CloseExpires, DrainOne,
         AccountDrained, CloseReturnsError, workerVars
<1>6. CASE ShutdownStep
  BY <1>6 DEF ShutdownStep, ShutdownJobsDone, ShutdownCancels, ShutdownCompletes, workerVars
<1>7. CASE UNCHANGED vars
  BY <1>7 DEF vars, workerVars
<1> QED  BY <1>3, <1>4, <1>5, <1>6, <1>7 DEF Next

\* Once any call of Close returned nil no worker moves, no callback is made and
\* no job is taken, counted or ended, whatever later requests and calls do.
THEOREM NilIsSilent == Spec => NilMeansSilence
<1>1. WorkInv /\ ShutdownInv /\ [Next]_vars =>
        [(\E c \in Closers : closer[c] = "nil") =>
            UNCHANGED <<phase, job, queue, jobsWG, outcome>>]_vars
  BY NilStep
<1> QED  BY <1>1, InvariantsHold, PTL DEF Spec, NilMeansSilence

LEMMA ClosedStep ==
    ASSUME WorkInv, [Next]_vars, closed
    PROVE  jobsWG' <= jobsWG /\ Len(queue') <= Len(queue)
<1>0. jobsWG \in Nat /\ Len(queue) \in Nat
  BY LenProperties DEF WorkInv, TypeOK
<1>1. ASSUME queue # <<>>, queue' = Tail(queue) PROVE Len(queue') <= Len(queue)
  BY <1>0, <1>1, HeadTailProperties DEF WorkInv, TypeOK
<1>2. ASSUME NEW r \in Requests, ServeRequest(r)
      PROVE  jobsWG' = jobsWG /\ queue' = queue
  BY <1>2 DEF ServeRequest, EnterOpen, EnterClosed, MarkVerified, Reject, BuildJob,
              Admit, RefuseAdmission, Respond, OpenGate
<1>3. ASSUME NEW w \in Workers, WorkerStep(w)
      PROVE  /\ jobsWG' = jobsWG \/ jobsWG' = jobsWG - 1
             /\ queue' = queue \/ (queue # <<>> /\ queue' = Tail(queue))
  BY <1>3 DEF WorkerStep, WorkerOwnStep, ValidationReturns, HandoffReturns, TakeJob,
         WorkerExit, PassGate, AbandonAtGate, ValidationPasses, ValidationDenies,
         ValidationFails, IntentConfirmed, IntentFails, HandoffSucceeds, HandoffFails,
         Notify, FinishJob
<1>4. ASSUME NEW c \in Closers, CloserStep(c)
      PROVE  /\ jobsWG' = jobsWG \/ jobsWG' = jobsWG - 1
             /\ queue' = queue \/ (queue # <<>> /\ queue' = Tail(queue))
  BY <1>4 DEF CloserStep, CloseCalled, CloseReturnsNil, CloseExpires, DrainOne,
         AccountDrained, CloseReturnsError
<1>5. ASSUME ShutdownStep
      PROVE  jobsWG' = jobsWG /\ queue' = queue
  BY <1>5 DEF ShutdownStep, ShutdownJobsDone, ShutdownCancels, ShutdownCompletes
<1>6. ASSUME UNCHANGED vars
      PROVE  jobsWG' = jobsWG /\ queue' = queue
  BY <1>6 DEF vars
<1> QED  BY <1>0, <1>1, <1>2, <1>3, <1>4, <1>5, <1>6 DEF Next

\* After Close was called no request is admitted any more, not even one that
\* found the handler open at the top of ServeHTTP: the count only falls, so
\* the wait of Close can end.
THEOREM AdmissionStops == Spec => AdmissionStopsAtClose
<1>1. WorkInv /\ [Next]_vars =>
        [closed => jobsWG' <= jobsWG /\ Len(queue') <= Len(queue)]_vars
  BY ClosedStep
<1> QED  BY <1>1, InvariantsHold, PTL DEF Spec, AdmissionStopsAtClose

-----------------------------------------------------------------------------
(* The response gate.                                                      *)

LEMMA GateInvInit == Init => GateInv
BY DEF Init, GateInv, RanToEnd

LEMMA GateInvStep == WorkInv /\ GateInv /\ [Next]_vars => GateInv'
<1> SUFFICES ASSUME WorkInv, GateInv, [Next]_vars PROVE GateInv'
  OBVIOUS
<1> USE DEF GateInv, RanToEnd
<1>0. TypeOK /\ JobsHeld
  BY DEF WorkInv
<1>1. ASSUME NEW r \in Requests, ServeRequest(r) PROVE GateInv'
  BY <1>0, <1>1 DEF TypeOK, ServeRequest, EnterOpen, EnterClosed, MarkVerified, Reject,
       BuildJob, Admit, RefuseAdmission, Respond, OpenGate, Answer, workerVars
<1>2. ASSUME NEW w \in Workers, WorkerStep(w) PROVE GateInv'
  <2>1. UNCHANGED <<serving, response, started>>
    BY <1>2 DEF WorkerStep, WorkerOwnStep, ValidationReturns, HandoffReturns, TakeJob,
         WorkerExit, PassGate, AbandonAtGate, ValidationPasses, ValidationDenies,
         ValidationFails, IntentConfirmed, IntentFails, HandoffSucceeds, HandoffFails,
         Notify, FinishJob, requestVars
  <2>2. CASE TakeJob(w) \/ FinishJob(w)
    BY <1>0, <2>1, <2>2 DEF TakeJob, FinishJob, MoveTo, TypeOK, Phases
  <2>3. CASE WorkerExit(w) \/ PassGate(w) \/ IntentConfirmed(w) \/ ValidationPasses(w)
               \/ Notify(w)
    BY <1>0, <2>1, <2>3 DEF WorkerExit, PassGate, IntentConfirmed, ValidationPasses, Notify,
         MoveTo, TypeOK, Phases
  <2>4. CASE AbandonAtGate(w)
    BY <1>0, <2>1, <2>4 DEF AbandonAtGate, EndsAs, MoveTo, TypeOK, Phases, Outcomes
  <2>5. CASE ValidationDenies(w) \/ ValidationFails(w) \/ IntentFails(w)
               \/ HandoffSucceeds(w) \/ HandoffFails(w)
    BY <1>0, <2>1, <2>5 DEF ValidationDenies, ValidationFails, IntentFails, HandoffSucceeds,
         HandoffFails, ErrorPhase, EndsAs, MoveTo, TypeOK, Phases, Outcomes
  <2> QED
    BY <1>2, <2>2, <2>3, <2>4, <2>5 DEF WorkerStep, WorkerOwnStep, ValidationReturns,
       HandoffReturns
<1>3. ASSUME NEW c \in Closers, CloserStep(c) PROVE GateInv'
  BY <1>0, <1>3 DEF TypeOK, Outcomes, CloserStep, CloseCalled, CloseReturnsNil, CloseExpires,
       DrainOne, AccountDrained, CloseReturnsError, requestVars, workerVars
<1>4. CASE ShutdownStep
  BY <1>4 DEF ShutdownStep, ShutdownJobsDone, ShutdownCancels, ShutdownCompletes,
       requestVars, workerVars
<1>5. CASE UNCHANGED vars
  BY <1>5 DEF vars, requestVars, workerVars
<1> QED  BY <1>1, <1>2, <1>3, <1>4, <1>5 DEF Next

LEMMA ResponseFromGate == WorkInv /\ GateInv => WorkFollowsResponse
BY DEF WorkInv, JobsHeld, GateInv, WorkFollowsResponse, HoldingPhases, Phases

\* However fast a worker takes a job and however late its response is written,
\* no validation, intent request, verified callback or notification happens for
\* a request that has not been answered 202.
THEOREM ResponsePrecedesWork == Spec => []WorkFollowsResponse
<1>1. Init => WorkInv /\ GateInv
  BY InitWork, GateInvInit
<1>2. (WorkInv /\ GateInv) /\ [Next]_vars => (WorkInv /\ GateInv)'
  BY WorkStep, GateInvStep
<1> QED  BY <1>1, <1>2, ResponseFromGate, PTL DEF Spec

-----------------------------------------------------------------------------
(* Where a request is and how it ends                                      *)

Distinct(q) == \A i, j \in DOMAIN q : q[i] = q[j] => i = j

PlaceInv ==
    /\ Distinct(queue)
    /\ \A v, w \in Workers :
         (phase[v] \in HoldingPhases /\ phase[w] \in HoldingPhases /\ job[v] = job[w]) => v = w
    /\ \A w \in Workers : phase[w] \in HoldingPhases => job[w] \notin Queued
    /\ \A c, d \in Closers :
         (closer[c] = "accounting" /\ closer[d] = "accounting" /\ drained[c] = drained[d]) => c = d
    /\ \A c \in Closers :
         closer[c] = "accounting" =>
             /\ drained[c] \notin Queued
             /\ \A w \in Workers : phase[w] \in HoldingPhases => job[w] # drained[c]

AnswerInv ==
    \A r \in Requests :
        /\ serving[r] \in {"new", "deciding", "admitting"} =>
               (response[r] = "none" /\ r \notin InFlight /\ outcome[r] = "none")
        /\ response[r] \in {"unavailable", "rejected"} =>
               (serving[r] = "served" /\ r \notin InFlight /\ outcome[r] = "none")
        /\ serving[r] = "responding" => response[r] = "none"
        /\ (response[r] = "accepted" \/ serving[r] = "responding") =>
               (r \in InFlight \/ outcome[r] # "none")

OutcomeInv ==
    /\ \A r \in Queued : outcome[r] = "none"
    /\ \A w \in Workers :
         /\ phase[w] \in {"gate", "validate", "intent", "handoff"} => outcome[job[w]] = "none"
         /\ phase[w] \in {"notify", "finish"} => outcome[job[w]] # "none"
    /\ \A c \in Closers : closer[c] = "accounting" => outcome[drained[c]] # "none"
    /\ \A r \in Requests : outcome[r] \in {"abandoned", "drained"} => ExpiredClosers # {}
    /\ rootDone => (ExpiredClosers # {} \/ shutdown \in {"waitWorkers", "done"})
    /\ \A c \in Closers : closer[c] # "idle" => closed

AuthorityInv ==
    /\ \A w \in Workers : phase[w] = "handoff" => job[w] \in confirmed \cup verified
    /\ \A r \in Requests :
         outcome[r] \in {"verified", "verifiedFailed"} => r \in confirmed \cup verified
    /\ verified \subseteq marked
    /\ marked # {} => AllowExternalVerification

ServiceInv == WorkInv /\ ShutdownInv /\ GateInv /\ PlaceInv /\ AnswerInv /\ OutcomeInv

-----------------------------------------------------------------------------
(* The queue as a set.                                                     *)

LEMMA QueueAppended ==
    ASSUME queue \in Seq(Requests), NEW r \in Requests, queue' = Append(queue, r)
    PROVE  /\ Queued' = Queued \cup {r}
           /\ (Distinct(queue) /\ r \notin Queued) => Distinct(queue')
<1>1. /\ DOMAIN queue = 1..Len(queue) /\ Len(queue) \in Nat
      /\ DOMAIN queue' = 1..(Len(queue) + 1)
      /\ \A i \in 1..Len(queue) : queue'[i] = queue[i]
      /\ queue'[Len(queue) + 1] = r
  BY AppendProperties, LenProperties
<1>2. Queued' = Queued \cup {r}
  <2>1. ASSUME NEW x \in Queued' PROVE x \in Queued \cup {r}
    BY <1>1, <2>1 DEF Queued
  <2>2. ASSUME NEW x \in Queued PROVE x \in Queued'
    BY <1>1, <2>2 DEF Queued
  <2>3. r \in Queued'
    BY <1>1 DEF Queued
  <2> QED
    BY <2>1, <2>2, <2>3
<1>3. ASSUME Distinct(queue), r \notin Queued PROVE Distinct(queue')
  BY <1>1, <1>3 DEF Distinct, Queued
<1> QED
  BY <1>2, <1>3

LEMMA QueueTaken ==
    ASSUME queue \in Seq(Requests), queue # <<>>, queue' = Tail(queue), Distinct(queue)
    PROVE  /\ Head(queue) \in Queued
           /\ Queued' = Queued \ {Head(queue)}
           /\ Distinct(queue')
<1>1. /\ DOMAIN queue = 1..Len(queue) /\ Len(queue) \in Nat \ {0}
      /\ DOMAIN queue' = 1..(Len(queue) - 1)
      /\ \A i \in 1..(Len(queue) - 1) : queue'[i] = queue[i + 1]
      /\ Head(queue) = queue[1]
  BY HeadTailProperties, LenProperties, EmptySeq
<1>2. Head(queue) \in Queued
  BY <1>1 DEF Queued
<1>3. Queued' = Queued \ {Head(queue)}
  <2>1. ASSUME NEW x \in Queued' PROVE x \in Queued /\ x # Head(queue)
    <3>1. PICK i \in 1..(Len(queue) - 1) : x = queue[i + 1]
      BY <1>1, <2>1 DEF Queued
    <3>2. i + 1 \in 1..Len(queue) /\ i + 1 # 1
      BY <1>1
    <3> QED
      BY <1>1, <3>1, <3>2 DEF Queued, Distinct
  <2>2. ASSUME NEW x \in Queued, x # Head(queue) PROVE x \in Queued'
    <3>1. PICK i \in 1..Len(queue) : x = queue[i]
      BY <1>1, <2>2 DEF Queued
    <3>2. i - 1 \in 1..(Len(queue) - 1) /\ queue'[i - 1] = x
      BY <1>1, <2>2, <3>1
    <3> QED
      BY <1>1, <3>2 DEF Queued
  <2> QED
    BY <2>1, <2>2
<1>4. Distinct(queue')
  <2> SUFFICES ASSUME NEW i \in DOMAIN queue', NEW j \in DOMAIN queue', queue'[i] = queue'[j]
               PROVE  i = j
    BY DEF Distinct
  <2>1. i + 1 \in DOMAIN queue /\ j + 1 \in DOMAIN queue /\ queue[i + 1] = queue[j + 1]
    BY <1>1
  <2>2. i + 1 = j + 1
    BY <2>1 DEF Distinct
  <2> QED
    BY <1>1, <2>2
<1> QED
  BY <1>2, <1>3, <1>4

-----------------------------------------------------------------------------
(* What each step does to the requests in flight.                          *)

LEMMA InFlightMember ==
    ASSUME NEW r
    PROVE  /\ r \in InFlight <=>
                \/ r \in Queued
                \/ \E w \in Workers : phase[w] \in HoldingPhases /\ job[w] = r
                \/ \E c \in Closers : closer[c] = "accounting" /\ drained[c] = r
           /\ r \in InFlight' <=>
                \/ r \in Queued'
                \/ \E w \in Workers : phase'[w] \in HoldingPhases /\ job'[w] = r
                \/ \E c \in Closers : closer'[c] = "accounting" /\ drained'[c] = r
BY DEF InFlight, Holding, Accounting

LEMMA RequestPlaces ==
    ASSUME ServiceInv, NEW r \in Requests, ServeRequest(r)
    PROVE  /\ PlaceInv'
           /\ InFlight' = IF Admit(r) THEN InFlight \cup {r} ELSE InFlight
           /\ Queued' = IF Admit(r) THEN Queued \cup {r} ELSE Queued
           /\ UNCHANGED <<phase, job, confirmed, closed, shutdown, closer, drained, rootDone, outcome>>
<1>0. TypeOK
  BY DEF ServiceInv, WorkInv
<1>1. UNCHANGED <<phase, job, confirmed, closed, shutdown, closer, drained, rootDone, outcome>>
  BY DEF ServeRequest, EnterOpen, EnterClosed, MarkVerified, Reject, BuildJob, Admit,
         RefuseAdmission, Respond, OpenGate, workerVars, shutdownVars
<1>2. CASE Admit(r)
  <2>1. queue \in Seq(Requests) /\ queue' = Append(queue, r) /\ r \notin InFlight
    BY <1>0, <1>2 DEF Admit, TypeOK, ServiceInv, AnswerInv
  <2>2. r \notin Queued
    BY <2>1 DEF InFlight
  <2>3. Queued' = Queued \cup {r} /\ Distinct(queue')
    BY <2>1, <2>2, QueueAppended DEF ServiceInv, PlaceInv
  <2>4. InFlight' = InFlight \cup {r}
    BY <1>1, <2>3 DEF InFlight, Holding, Accounting
  <2>5. PlaceInv'
    BY <1>1, <2>1, <2>3, InFlightMember DEF ServiceInv, PlaceInv
  <2> QED
    BY <1>1, <1>2, <2>3, <2>4, <2>5
<1>3. CASE ~Admit(r)
  <2>1. queue' = queue
    BY <1>3 DEF ServeRequest, EnterOpen, EnterClosed, MarkVerified, Reject, BuildJob,
                RefuseAdmission, Respond, OpenGate
  <2>2. Queued' = Queued
    BY <2>1 DEF Queued
  <2>3. InFlight' = InFlight
    BY <1>1, <2>2 DEF InFlight, Holding, Accounting
  <2>4. PlaceInv'
    BY <1>1, <2>1, <2>2 DEF ServiceInv, PlaceInv
  <2> QED
    BY <1>1, <1>3, <2>2, <2>3, <2>4
<1> QED
  BY <1>2, <1>3

\* A worker's step, other than the one that accounts for its job, leaves every
\* request in flight that was.
LEMMA WorkerPlaces ==
    ASSUME ServiceInv, NEW w \in Workers, WorkerStep(w)
    PROVE  /\ PlaceInv'
           /\ InFlight' = IF FinishJob(w) THEN InFlight \ {job[w]} ELSE InFlight
           /\ Queued' \subseteq Queued
           /\ UNCHANGED <<requestVars, closed, shutdown, closer, drained, rootDone>>
<1>0. TypeOK /\ JobsHeld
  BY DEF ServiceInv, WorkInv
<1>1. UNCHANGED <<requestVars, closed, shutdown, closer, drained, rootDone>>
  BY DEF WorkerStep, WorkerOwnStep, ValidationReturns, HandoffReturns, TakeJob, WorkerExit,
         PassGate, AbandonAtGate, ValidationPasses, ValidationDenies, ValidationFails,
         IntentConfirmed, IntentFails, HandoffSucceeds, HandoffFails, Notify, FinishJob,
         shutdownVars
<1>2. CASE TakeJob(w)
  <2>1. queue \in Seq(Requests) /\ queue # <<>> /\ queue' = Tail(queue) /\ ~FinishJob(w)
    BY <1>0, <1>2 DEF TakeJob, FinishJob, TypeOK
  <2>2. Head(queue) \in Queued /\ Queued' = Queued \ {Head(queue)} /\ Distinct(queue')
    BY <2>1, QueueTaken DEF ServiceInv, PlaceInv
  <2>3. /\ phase' = [phase EXCEPT ![w] = "gate"] /\ job' = [job EXCEPT ![w] = Head(queue)]
        /\ phase[w] \notin HoldingPhases /\ "gate" \in HoldingPhases
    BY <1>2 DEF TakeJob, MoveTo, HoldingPhases, Phases
  <2>4. ASSUME NEW v \in Workers
        PROVE  /\ v # w => phase'[v] = phase[v] /\ job'[v] = job[v]
               /\ phase'[w] = "gate" /\ job'[w] = Head(queue)
    BY <1>0, <2>3 DEF TypeOK
  <2>5. PlaceInv'
    BY <1>1, <2>2, <2>3, <2>4 DEF ServiceInv, PlaceInv
  <2>6. ASSUME NEW r PROVE r \in InFlight' <=> r \in InFlight
    BY <1>1, <2>2, <2>3, <2>4, InFlightMember
  <2> QED
    BY <1>1, <2>1, <2>2, <2>5, <2>6
<1>3. CASE FinishJob(w)
  <2>1. /\ phase' = [phase EXCEPT ![w] = "select"] /\ job' = [job EXCEPT ![w] = NoJob]
        /\ phase[w] \in HoldingPhases /\ "select" \notin HoldingPhases /\ queue' = queue
    BY <1>3 DEF FinishJob, MoveTo, HoldingPhases, Phases
  <2>2. Queued' = Queued
    BY <2>1 DEF Queued
  <2>3. ASSUME NEW v \in Workers
        PROVE  /\ v # w => phase'[v] = phase[v] /\ job'[v] = job[v]
               /\ phase'[w] = "select"
    BY <1>0, <2>1 DEF TypeOK
  <2>4. PlaceInv'
    BY <1>1, <2>1, <2>2, <2>3 DEF ServiceInv, PlaceInv
  <2>5. ASSUME NEW r PROVE r \in InFlight' <=> (r \in InFlight /\ r # job[w])
    BY <1>1, <2>1, <2>2, <2>3, InFlightMember DEF ServiceInv, PlaceInv
  <2> QED
    BY <1>1, <1>3, <2>2, <2>4, <2>5
<1>4. CASE ~TakeJob(w) /\ ~FinishJob(w)
  <2>1. queue' = queue /\ job' = job
    BY <1>4 DEF WorkerStep, WorkerOwnStep, ValidationReturns, HandoffReturns, WorkerExit,
         PassGate, AbandonAtGate, ValidationPasses, ValidationDenies, ValidationFails,
         IntentConfirmed, IntentFails, HandoffSucceeds, HandoffFails, Notify
  <2>2. \E p \in Phases : MoveTo(w, p) /\ (p \in HoldingPhases <=> phase[w] \in HoldingPhases)
    BY <1>4 DEF WorkerStep, WorkerOwnStep, ValidationReturns, HandoffReturns, WorkerExit,
         PassGate, AbandonAtGate, ValidationPasses, ValidationDenies, ValidationFails,
         IntentConfirmed, IntentFails, HandoffSucceeds, HandoffFails, Notify, ErrorPhase,
         Phases, HoldingPhases
  <2>3. \A v \in Workers : phase'[v] \in HoldingPhases <=> phase[v] \in HoldingPhases
    BY <1>0, <2>2 DEF MoveTo, TypeOK
  <2>4. Queued' = Queued
    BY <2>1 DEF Queued
  <2>5. PlaceInv'
    BY <1>1, <2>1, <2>3, <2>4 DEF ServiceInv, PlaceInv
  <2>6. ASSUME NEW r PROVE r \in InFlight' <=> r \in InFlight
    BY <1>1, <2>1, <2>3, <2>4, InFlightMember
  <2> QED
    BY <1>1, <1>4, <2>4, <2>5, <2>6
<1> QED
  BY <1>2, <1>3, <1>4

LEMMA CloserPlaces ==
    ASSUME ServiceInv, NEW c \in Closers, CloserStep(c)
    PROVE  /\ PlaceInv'
           /\ InFlight' = IF AccountDrained(c) THEN InFlight \ {drained[c]} ELSE InFlight
           /\ Queued' \subseteq Queued
           /\ ExpiredClosers \subseteq ExpiredClosers'
           /\ UNCHANGED <<requestVars, workerVars>>
<1>0. TypeOK /\ JobsHeld
  BY DEF ServiceInv, WorkInv
<1>1. UNCHANGED <<requestVars, workerVars>>
  BY DEF CloserStep, CloseCalled, CloseReturnsNil, CloseExpires, DrainOne, AccountDrained,
         CloseReturnsError
<1>2. phase' = phase /\ job' = job
  BY <1>1 DEF workerVars
<1>3. ExpiredClosers \subseteq ExpiredClosers'
  BY <1>0 DEF CloserStep, CloseCalled, CloseReturnsNil, CloseExpires, DrainOne, AccountDrained,
       CloseReturnsError, CloserGoes, ExpiredClosers, TypeOK
<1>4. CASE DrainOne(c)
  <2>1. queue \in Seq(Requests) /\ queue # <<>> /\ queue' = Tail(queue) /\ ~AccountDrained(c)
    BY <1>0, <1>4 DEF DrainOne, AccountDrained, TypeOK
  <2>2. Head(queue) \in Queued /\ Queued' = Queued \ {Head(queue)} /\ Distinct(queue')
    BY <2>1, QueueTaken DEF ServiceInv, PlaceInv
  <2>3. /\ closer' = [closer EXCEPT ![c] = "accounting"]
        /\ drained' = [drained EXCEPT ![c] = Head(queue)] /\ closer[c] = "draining"
    BY <1>4 DEF DrainOne, CloserGoes
  <2>4. ASSUME NEW d \in Closers
        PROVE  /\ d # c => closer'[d] = closer[d] /\ drained'[d] = drained[d]
               /\ closer'[c] = "accounting" /\ drained'[c] = Head(queue)
    BY <1>0, <2>3 DEF TypeOK
  <2>5. PlaceInv'
    BY <1>2, <2>2, <2>3, <2>4 DEF ServiceInv, PlaceInv
  <2>6. ASSUME NEW r PROVE r \in InFlight' <=> r \in InFlight
    BY <1>2, <2>2, <2>3, <2>4, InFlightMember
  <2> QED
    BY <1>1, <1>3, <2>1, <2>2, <2>5, <2>6
<1>5. CASE AccountDrained(c)
  <2>1. /\ closer' = [closer EXCEPT ![c] = "draining"] /\ drained' = [drained EXCEPT ![c] = NoJob]
        /\ closer[c] = "accounting" /\ queue' = queue
    BY <1>5 DEF AccountDrained, CloserGoes
  <2>2. Queued' = Queued
    BY <2>1 DEF Queued
  <2>3. ASSUME NEW d \in Closers
        PROVE  /\ d # c => closer'[d] = closer[d] /\ drained'[d] = drained[d]
               /\ closer'[c] = "draining"
    BY <1>0, <2>1 DEF TypeOK
  <2>4. PlaceInv'
    BY <1>2, <2>1, <2>2, <2>3 DEF ServiceInv, PlaceInv
  <2>5. ASSUME NEW r PROVE r \in InFlight' <=> (r \in InFlight /\ r # drained[c])
    BY <1>2, <2>1, <2>2, <2>3, InFlightMember DEF ServiceInv, PlaceInv
  <2> QED
    BY <1>1, <1>3, <1>5, <2>2, <2>4, <2>5
<1>6. CASE ~DrainOne(c) /\ ~AccountDrained(c)
  <2>1. queue' = queue /\ drained' = drained
    BY <1>6 DEF CloserStep, CloseCalled, CloseReturnsNil, CloseExpires, CloseReturnsError
  <2>2. \A d \in Closers : closer'[d] = "accounting" <=> closer[d] = "accounting"
    BY <1>0, <1>6 DEF CloserStep, CloseCalled, CloseReturnsNil, CloseExpires,
         CloseReturnsError, CloserGoes, TypeOK
  <2>3. Queued' = Queued
    BY <2>1 DEF Queued
  <2>4. PlaceInv'
    BY <1>2, <2>1, <2>2, <2>3 DEF ServiceInv, PlaceInv
  <2>5. ASSUME NEW r PROVE r \in InFlight' <=> r \in InFlight
    BY <1>2, <2>1, <2>2, <2>3, InFlightMember
  <2> QED
    BY <1>1, <1>3, <1>6, <2>3, <2>4, <2>5
<1> QED
  BY <1>4, <1>5, <1>6

\* The shutdown goroutine, and a step of nobody, move no request.
LEMMA ShutdownPlaces ==
    ASSUME ServiceInv, ShutdownStep \/ UNCHANGED vars
    PROVE  /\ PlaceInv' /\ InFlight' = InFlight /\ Queued' = Queued
           /\ UNCHANGED <<requestVars, workerVars, closed, closer, drained, outcome>>
<1>1. UNCHANGED <<requestVars, workerVars, closed, closer, drained, outcome, queue>>
  BY DEF ShutdownStep, ShutdownJobsDone, ShutdownCancels, ShutdownCompletes, vars, shutdownVars
<1>2. phase' = phase /\ job' = job
  BY <1>1 DEF workerVars
<1>3. Queued' = Queued
  BY <1>1 DEF Queued
<1>4. InFlight' = InFlight
  BY <1>1, <1>2, <1>3 DEF InFlight, Holding, Accounting
<1> QED
  BY <1>1, <1>2, <1>3, <1>4 DEF ServiceInv, PlaceInv

-----------------------------------------------------------------------------
(* The outcome of a job: what each step writes.                            *)

LEMMA WorkerOutcomes ==
    ASSUME ServiceInv, NEW w \in Workers, WorkerStep(w)
    PROVE  /\ OutcomeInv'
           /\ \A r \in Requests : outcome[r] # "none" => outcome'[r] # "none"
           /\ \A r \in Requests : outcome'[r] # outcome[r] => r \in InFlight
           /\ FinishJob(w) => outcome'[job[w]] # "none" /\ job[w] \in InFlight
<1>0. TypeOK /\ JobsHeld
  BY DEF ServiceInv, WorkInv
<1>1. Queued' \subseteq Queued /\ UNCHANGED <<closed, shutdown, closer, drained, rootDone>>
  BY WorkerPlaces
<1>2. ExpiredClosers' = ExpiredClosers
  BY <1>1 DEF ExpiredClosers
<1>3. CASE TakeJob(w)
  <2>1. /\ phase' = [phase EXCEPT ![w] = "gate"] /\ job' = [job EXCEPT ![w] = Head(queue)]
        /\ phase[w] = "select" /\ outcome' = outcome
    BY <1>3 DEF TakeJob, MoveTo
  <2>2. outcome[Head(queue)] = "none"
    BY <1>0, <1>3, QueueTaken DEF TakeJob, TypeOK, ServiceInv, PlaceInv, OutcomeInv
  <2>3. OutcomeInv'
    BY <1>0, <1>1, <1>2, <2>1, <2>2 DEF ServiceInv, OutcomeInv, TypeOK
  <2> QED
    BY <2>1, <2>3 DEF FinishJob
<1>4. CASE FinishJob(w)
  <2>1. /\ phase' = [phase EXCEPT ![w] = "select"] /\ job' = [job EXCEPT ![w] = NoJob]
        /\ phase[w] = "finish" /\ outcome' = outcome
    BY <1>4 DEF FinishJob, MoveTo
  <2>2. OutcomeInv'
    BY <1>0, <1>1, <1>2, <2>1 DEF ServiceInv, OutcomeInv, TypeOK
  <2>3. outcome[job[w]] # "none" /\ job[w] \in InFlight
    BY <2>1, InFlightMember DEF ServiceInv, OutcomeInv, HoldingPhases, Phases
  <2> QED
    BY <2>1, <2>2, <2>3
<1>5. CASE WorkerExit(w) \/ PassGate(w) \/ ValidationPasses(w) \/ IntentConfirmed(w) \/ Notify(w)
  <2>1. outcome' = outcome /\ job' = job /\ ~FinishJob(w)
    BY <1>5 DEF WorkerExit, PassGate, ValidationPasses, IntentConfirmed, Notify, FinishJob
  <2>2. /\ \A v \in Workers \ {w} : phase'[v] = phase[v]
        /\ phase'[w] \in {"gate", "validate", "intent", "handoff"} =>
               phase[w] \in {"gate", "validate", "intent", "handoff"}
        /\ phase'[w] \in {"notify", "finish"} => phase[w] \in {"notify", "finish"}
    BY <1>0, <1>5 DEF WorkerExit, PassGate, ValidationPasses, IntentConfirmed, Notify, MoveTo,
         TypeOK
  <2>3. OutcomeInv'
    BY <1>1, <1>2, <2>1, <2>2 DEF ServiceInv, OutcomeInv
  <2> QED
    BY <2>1, <2>3
<1>6. CASE AbandonAtGate(w) \/ ValidationDenies(w) \/ ValidationFails(w) \/ IntentFails(w)
             \/ HandoffSucceeds(w) \/ HandoffFails(w)
  <2>1. PICK o \in Outcomes \ {"none", "drained"} :
             /\ outcome' = [outcome EXCEPT ![job[w]] = o]
             /\ o = "abandoned" => rootDone
    BY <1>6 DEF AbandonAtGate, ValidationDenies, ValidationFails, IntentFails, HandoffSucceeds,
         HandoffFails, EndsAs, Outcomes
  <2>2. /\ job' = job /\ ~FinishJob(w) /\ job[w] \in Requests
        /\ phase[w] \in {"gate", "validate", "intent", "handoff"}
        /\ phase' = [phase EXCEPT ![w] = "notify"] \/ phase' = [phase EXCEPT ![w] = "finish"]
    BY <1>0, <1>6 DEF AbandonAtGate, ValidationDenies, ValidationFails, IntentFails,
         HandoffSucceeds, HandoffFails, ErrorPhase, MoveTo, FinishJob, JobsHeld, HoldingPhases,
         Phases
  <2>3. phase[w] \in HoldingPhases /\ job[w] \in InFlight
    BY <2>2, InFlightMember DEF HoldingPhases, Phases
  <2>4. o = "abandoned" => ExpiredClosers # {}
    <3>1. ~(shutdown \in {"waitWorkers", "done"})
      BY <2>3, NothingHeldAtZero DEF ServiceInv, ShutdownInv
    <3> QED
      BY <2>1, <3>1 DEF ServiceInv, OutcomeInv
  <2>5. ASSUME NEW r \in Requests
        PROVE  outcome'[r] = IF r = job[w] THEN o ELSE outcome[r]
    BY <1>0, <2>1 DEF TypeOK
  <2>6. ASSUME NEW v \in Workers, v # w
        PROVE  /\ phase'[v] = phase[v]
               /\ phase[v] \in HoldingPhases => job[v] \in Requests /\ job[v] # job[w]
    <3>1. phase'[v] = phase[v]
      BY <1>0, <2>2, <2>6 DEF TypeOK
    <3>2. phase[v] \in HoldingPhases => job[v] \in Requests
      BY <1>0 DEF JobsHeld
    <3>3. phase[v] \in HoldingPhases => job[v] # job[w]
      BY <2>3, <2>6 DEF ServiceInv, PlaceInv
    <3> QED
      BY <3>1, <3>2, <3>3
  <2>7. phase'[w] \in {"notify", "finish"}
    BY <1>0, <2>2 DEF TypeOK
  <2>8. \A r \in Queued' : outcome'[r] = "none"
    <3>1. Queued \subseteq Requests
      BY <1>0, LenProperties DEF TypeOK, Queued
    <3> QED
      BY <1>1, <2>3, <2>5, <3>1 DEF ServiceInv, PlaceInv, OutcomeInv
  <2>9. \A v \in Workers :
         /\ phase'[v] \in {"gate", "validate", "intent", "handoff"} => outcome'[job'[v]] = "none"
         /\ phase'[v] \in {"notify", "finish"} => outcome'[job'[v]] # "none"
    BY <2>1, <2>2, <2>5, <2>6, <2>7 DEF ServiceInv, OutcomeInv, HoldingPhases, Phases
  <2>10. \A c \in Closers : closer'[c] = "accounting" => outcome'[drained'[c]] # "none"
    BY <1>0, <1>1, <2>1, <2>5 DEF ServiceInv, OutcomeInv, JobsHeld
  <2>11. OutcomeInv'
    BY <1>1, <1>2, <2>1, <2>4, <2>5, <2>8, <2>9, <2>10 DEF ServiceInv, OutcomeInv
  <2> QED
    BY <2>1, <2>2, <2>3, <2>5, <2>11
<1> QED
  BY <1>3, <1>4, <1>5, <1>6 DEF WorkerStep, WorkerOwnStep, ValidationReturns, HandoffReturns

LEMMA CloserOutcomes ==
    ASSUME ServiceInv, NEW c \in Closers, CloserStep(c)
    PROVE  /\ OutcomeInv'
           /\ \A r \in Requests : outcome[r] # "none" => outcome'[r] # "none"
           /\ \A r \in Requests : outcome'[r] # outcome[r] => r \in InFlight
           /\ AccountDrained(c) => outcome'[drained[c]] # "none" /\ drained[c] \in InFlight
<1>0. TypeOK /\ JobsHeld
  BY DEF ServiceInv, WorkInv
<1>1. Queued' \subseteq Queued /\ ExpiredClosers \subseteq ExpiredClosers' /\ phase' = phase /\ job' = job
  BY CloserPlaces DEF workerVars
<1>2. CASE DrainOne(c)
  <2>1. /\ queue \in Seq(Requests) /\ queue # <<>> /\ queue' = Tail(queue)
        /\ outcome' = [outcome EXCEPT ![Head(queue)] = "drained"]
        /\ closer' = [closer EXCEPT ![c] = "accounting"]
        /\ drained' = [drained EXCEPT ![c] = Head(queue)]
        /\ closer[c] = "draining" /\ ~AccountDrained(c)
        /\ UNCHANGED <<closed, shutdown, rootDone>>
    BY <1>0, <1>2 DEF DrainOne, CloserGoes, AccountDrained, TypeOK
  <2>2. /\ Head(queue) \in Queued /\ Queued' = Queued \ {Head(queue)}
        /\ Queued \subseteq Requests
    <3>1. Queued \subseteq Requests
      BY <2>1, LenProperties DEF Queued
    <3> QED
      BY <2>1, <3>1, QueueTaken DEF ServiceInv, PlaceInv
  <2>3. ASSUME NEW r \in Requests
        PROVE  outcome'[r] = IF r = Head(queue) THEN "drained" ELSE outcome[r]
    BY <1>0, <2>1 DEF TypeOK
  <2>4. ASSUME NEW d \in Closers
        PROVE  /\ d # c => closer'[d] = closer[d] /\ drained'[d] = drained[d]
               /\ closer'[c] = "accounting" /\ drained'[c] = Head(queue)
    BY <1>0, <2>1 DEF TypeOK
  <2>5. c \in ExpiredClosers'
    BY <2>4 DEF ExpiredClosers
  <2>6. Head(queue) \in InFlight
    BY <2>2 DEF InFlight
  <2>7. \A r \in Queued' : outcome'[r] = "none"
    BY <2>2, <2>3 DEF ServiceInv, OutcomeInv
  <2>8. \A w \in Workers :
         /\ phase'[w] \in {"gate", "validate", "intent", "handoff"} => outcome'[job'[w]] = "none"
         /\ phase'[w] \in {"notify", "finish"} => outcome'[job'[w]] # "none"
    BY <1>0, <1>1, <2>2, <2>3 DEF ServiceInv, PlaceInv, OutcomeInv, JobsHeld, HoldingPhases, Phases
  <2>9. \A d \in Closers : closer'[d] = "accounting" => outcome'[drained'[d]] # "none"
    BY <1>0, <2>2, <2>3, <2>4 DEF ServiceInv, OutcomeInv, JobsHeld
  <2>10. \A d \in Closers : closer'[d] # "idle" => closed'
    BY <2>1, <2>4 DEF ServiceInv, OutcomeInv
  <2>11. OutcomeInv'
    BY <2>5, <2>7, <2>8, <2>9, <2>10 DEF OutcomeInv
  <2> QED
    BY <2>1, <2>2, <2>3, <2>6, <2>11
<1>3. CASE ~DrainOne(c)
  <2>1. /\ outcome' = outcome /\ shutdown' \in {shutdown, "waitJobs"} /\ (shutdown # "none" => shutdown' = shutdown)
        /\ closed' \in {TRUE, closed}
    BY <1>3 DEF CloserStep, CloseCalled, CloseReturnsNil, CloseExpires, AccountDrained,
         CloseReturnsError
  <2>2. /\ \A d \in Closers : closer'[d] = "accounting" => closer[d] = "accounting" /\ drained'[d] = drained[d]
        /\ \A d \in Closers : closer'[d] # "idle" => closed'
    BY <1>0, <1>3 DEF CloserStep, CloseCalled, CloseReturnsNil, CloseExpires, AccountDrained,
         CloseReturnsError, CloserGoes, TypeOK, ServiceInv, OutcomeInv
  <2>3. rootDone' => ExpiredClosers' # {} \/ shutdown' \in {"waitWorkers", "done"}
    <3>1. CASE CloseExpires(c)
      <4>1. closer'[c] = "draining"
        BY <1>0, <3>1 DEF CloseExpires, CloserGoes, TypeOK
      <4> QED
        BY <4>1 DEF ExpiredClosers
    <3>2. CASE ~CloseExpires(c)
      <4>1. rootDone' = rootDone
        BY <1>3, <3>2 DEF CloserStep, CloseCalled, CloseReturnsNil, AccountDrained,
             CloseReturnsError
      <4> QED
        BY <1>1, <2>1, <4>1 DEF ServiceInv, OutcomeInv
    <3> QED
      BY <3>1, <3>2
  <2>4. OutcomeInv'
    BY <1>1, <2>1, <2>2, <2>3 DEF ServiceInv, OutcomeInv
  <2>5. AccountDrained(c) => outcome'[drained[c]] # "none" /\ drained[c] \in InFlight
    BY <2>1, InFlightMember DEF AccountDrained, ServiceInv, OutcomeInv
  <2> QED
    BY <2>1, <2>4, <2>5
<1> QED
  BY <1>2, <1>3

-----------------------------------------------------------------------------
(* The invariant.                                                          *)

\* Workers and closers answer nobody; what they let go of has ended.
LEMMA AnswersKept ==
    ASSUME ServiceInv, UNCHANGED <<serving, response>>, InFlight' \subseteq InFlight,
           \A r \in InFlight \ InFlight' : outcome'[r] # "none",
           \A r \in Requests : outcome[r] # "none" => outcome'[r] # "none",
           \A r \in Requests : outcome'[r] # outcome[r] => r \in InFlight
    PROVE  AnswerInv'
<1> SUFFICES ASSUME NEW r \in Requests
             PROVE  /\ serving[r] \in {"new", "deciding", "admitting"} =>
                          (response[r] = "none" /\ r \notin InFlight' /\ outcome'[r] = "none")
                    /\ response[r] \in {"unavailable", "rejected"} =>
                          (serving[r] = "served" /\ r \notin InFlight' /\ outcome'[r] = "none")
                    /\ serving[r] = "responding" => response[r] = "none"
                    /\ (response[r] = "accepted" \/ serving[r] = "responding") =>
                          (r \in InFlight' \/ outcome'[r] # "none")
  BY DEF AnswerInv
<1> QED
  BY DEF ServiceInv, AnswerInv

LEMMA RequestAnswers ==
    ASSUME ServiceInv, NEW r \in Requests, ServeRequest(r)
    PROVE  AnswerInv' /\ OutcomeInv'
<1>0. TypeOK
  BY DEF ServiceInv, WorkInv
<1>1. /\ InFlight' = IF Admit(r) THEN InFlight \cup {r} ELSE InFlight
      /\ Queued' = IF Admit(r) THEN Queued \cup {r} ELSE Queued
      /\ UNCHANGED <<phase, job, closed, shutdown, closer, drained, rootDone, outcome>>
  BY RequestPlaces
<1>2. Admit(r) => outcome[r] = "none"
  BY DEF Admit, ServiceInv, AnswerInv
<1>3. OutcomeInv'
  BY <1>1, <1>2 DEF ServiceInv, OutcomeInv, ExpiredClosers
<1>4. ASSUME NEW q \in Requests, q # r
      PROVE  serving'[q] = serving[q] /\ response'[q] = response[q]
  BY <1>0, <1>4 DEF TypeOK, ServeRequest, EnterOpen, EnterClosed, MarkVerified, Reject, BuildJob,
       Admit, RefuseAdmission, Respond, OpenGate, Answer
<1>5. CASE EnterOpen(r) \/ BuildJob(r)
  <2>1. /\ serving'[r] \in {"deciding", "admitting"} /\ response' = response
        /\ serving[r] \in {"new", "deciding"} /\ ~Admit(r)
    BY <1>0, <1>5 DEF TypeOK, EnterOpen, BuildJob, Admit
  <2> QED
    BY <1>1, <1>3, <1>4, <2>1 DEF ServiceInv, AnswerInv
<1>6. CASE EnterClosed(r) \/ Reject(r) \/ RefuseAdmission(r)
  <2>1. /\ serving'[r] = "served" /\ response'[r] \in {"unavailable", "rejected"}
        /\ serving[r] \in {"new", "deciding", "admitting"}
    BY <1>0, <1>6 DEF TypeOK, EnterClosed, Reject, RefuseAdmission, Answer
  <2>2. ~Admit(r)
    BY <1>0, <1>6 DEF TypeOK, EnterClosed, Reject, RefuseAdmission, Answer, Admit
  <2> QED
    BY <1>1, <1>3, <1>4, <2>1, <2>2 DEF ServiceInv, AnswerInv
<1>7. CASE MarkVerified(r)
  <2>1. serving' = serving /\ response' = response /\ ~Admit(r)
    BY <1>0, <1>7 DEF TypeOK, MarkVerified, Admit
  <2> QED
    BY <1>1, <1>3, <2>1 DEF ServiceInv, AnswerInv
<1>8. CASE Admit(r)
  <2>1. serving'[r] = "responding" /\ response' = response /\ serving[r] = "admitting"
    BY <1>0, <1>8 DEF TypeOK, Admit
  <2> QED
    BY <1>1, <1>3, <1>4, <1>8, <2>1 DEF ServiceInv, AnswerInv
<1>9. CASE Respond(r)
  <2>1. /\ serving'[r] = "releasing" /\ response'[r] = "accepted"
        /\ serving[r] = "responding" /\ ~Admit(r)
    BY <1>0, <1>9 DEF TypeOK, Respond, Answer, Admit
  <2> QED
    BY <1>1, <1>3, <1>4, <2>1 DEF ServiceInv, AnswerInv
<1>10. CASE OpenGate(r)
  <2>1. serving'[r] = "served" /\ response' = response /\ serving[r] = "releasing" /\ ~Admit(r)
    BY <1>0, <1>10 DEF TypeOK, OpenGate, Admit
  <2> QED
    BY <1>1, <1>3, <1>4, <2>1 DEF ServiceInv, AnswerInv
<1> QED
  BY <1>5, <1>6, <1>7, <1>8, <1>9, <1>10 DEF ServeRequest

LEMMA WorkerAnswers ==
    ASSUME ServiceInv, NEW w \in Workers, WorkerStep(w)
    PROVE  AnswerInv'
<1>1. /\ InFlight' = IF FinishJob(w) THEN InFlight \ {job[w]} ELSE InFlight
      /\ UNCHANGED <<serving, response>>
  BY WorkerPlaces DEF requestVars
<1>2. \A r \in InFlight \ InFlight' : outcome'[r] # "none"
  BY <1>1, WorkerOutcomes
<1> QED
  BY <1>1, <1>2, WorkerOutcomes, AnswersKept

LEMMA CloserAnswers ==
    ASSUME ServiceInv, NEW c \in Closers, CloserStep(c)
    PROVE  AnswerInv'
<1>1. /\ InFlight' = IF AccountDrained(c) THEN InFlight \ {drained[c]} ELSE InFlight
      /\ UNCHANGED <<serving, response>>
  BY CloserPlaces DEF requestVars
<1>2. \A r \in InFlight \ InFlight' : outcome'[r] # "none"
  BY <1>1, CloserOutcomes
<1> QED
  BY <1>1, <1>2, CloserOutcomes, AnswersKept

LEMMA ShutdownAnswers ==
    ASSUME ServiceInv, ShutdownStep \/ UNCHANGED vars
    PROVE  AnswerInv' /\ OutcomeInv'
<1>1. /\ InFlight' = InFlight /\ Queued' = Queued
      /\ UNCHANGED <<requestVars, workerVars, closed, closer, drained, outcome>>
  BY ShutdownPlaces
<1>2. UNCHANGED <<serving, response, phase, job>>
  BY <1>1 DEF requestVars, workerVars
<1>3. rootDone' => ExpiredClosers # {} \/ shutdown' \in {"waitWorkers", "done"}
  BY DEF ShutdownStep, ShutdownJobsDone, ShutdownCancels, ShutdownCompletes, vars, shutdownVars,
         ServiceInv, OutcomeInv
<1>4. ExpiredClosers' = ExpiredClosers
  BY <1>1 DEF ExpiredClosers
<1>5. AnswerInv'
  BY <1>1, <1>2, AnswersKept
<1>6. OutcomeInv'
  BY <1>1, <1>2, <1>3, <1>4 DEF ServiceInv, OutcomeInv
<1> QED
  BY <1>5, <1>6

LEMMA ServiceInvInit == Init => ServiceInv
<1> SUFFICES ASSUME Init PROVE ServiceInv
  OBVIOUS
<1>1. WorkInv /\ ShutdownInv /\ GateInv
  BY InitWork, ShutdownInvInit, GateInvInit
<1>2. Queued = {} /\ Distinct(queue)
  BY DEF Init, Queued, Distinct
<1>3. InFlight = {} /\ ExpiredClosers = {}
  BY <1>2 DEF Init, InFlight, Holding, Accounting, ExpiredClosers, HoldingPhases
<1>4. PlaceInv
  BY <1>2 DEF Init, PlaceInv, HoldingPhases
<1>5. AnswerInv
  BY <1>3 DEF Init, AnswerInv
<1>6. OutcomeInv
  BY <1>2 DEF Init, OutcomeInv
<1> QED
  BY <1>1, <1>4, <1>5, <1>6 DEF ServiceInv

LEMMA ServiceInvStep == ServiceInv /\ [Next]_vars => ServiceInv'
<1> SUFFICES ASSUME ServiceInv, [Next]_vars PROVE ServiceInv'
  OBVIOUS
<1>1. WorkInv' /\ ShutdownInv' /\ GateInv'
  BY WorkStep, ShutdownInvStep, GateInvStep DEF ServiceInv
<1>2. ASSUME NEW r \in Requests, ServeRequest(r) PROVE ServiceInv'
  BY <1>1, <1>2, RequestPlaces, RequestAnswers DEF ServiceInv
<1>3. ASSUME NEW w \in Workers, WorkerStep(w) PROVE ServiceInv'
  BY <1>1, <1>3, WorkerPlaces, WorkerOutcomes, WorkerAnswers DEF ServiceInv
<1>4. ASSUME NEW c \in Closers, CloserStep(c) PROVE ServiceInv'
  BY <1>1, <1>4, CloserPlaces, CloserOutcomes, CloserAnswers DEF ServiceInv
<1>5. CASE ShutdownStep \/ UNCHANGED vars
  BY <1>1, <1>5, ShutdownPlaces, ShutdownAnswers DEF ServiceInv
<1> QED
  BY <1>2, <1>3, <1>4, <1>5 DEF Next

LEMMA ServiceInvHolds == Spec => []ServiceInv
BY ServiceInvInit, ServiceInvStep, PTL DEF Spec

\* An admitted request is queued, held by one worker or drained by one Close,
\* never two of these; one that got its 202 is in one of them or has ended, and
\* one that was turned down was in none and never ran.
THEOREM OwnedByOne == Spec => []OwnedOnceOrNever
<1>1. ServiceInv => OwnedOnceOrNever
  <2> SUFFICES ASSUME ServiceInv PROVE OwnedOnceOrNever
    OBVIOUS
  <2>1. \A i, j \in DOMAIN queue : queue[i] = queue[j] => i = j
    BY DEF ServiceInv, PlaceInv, Distinct
  <2>2. /\ \A w1, w2 \in Holding : job[w1] = job[w2] => w1 = w2
        /\ \A w \in Holding : job[w] \notin Queued
    BY DEF ServiceInv, PlaceInv, Holding
  <2>3. \A r \in Requests :
         /\ response[r] = "accepted" => r \in InFlight \/ outcome[r] # "none"
         /\ response[r] \in {"unavailable", "rejected"} =>
                r \notin InFlight /\ outcome[r] = "none"
    BY DEF ServiceInv, AnswerInv
  <2> QED
    BY <2>1, <2>2, <2>3 DEF OwnedOnceOrNever
<1> QED
  BY <1>1, ServiceInvHolds, PTL

LEMMA HonouredFromInv == ServiceInv => GracefulShutdownHonoursAccepted
<1> SUFFICES ASSUME ServiceInv, shutdown = "done", ExpiredClosers = {},
                    NEW r \in Requests, response[r] = "accepted"
             PROVE  outcome[r] \in RanToEnd
  BY DEF GracefulShutdownHonoursAccepted
<1>1. /\ queue = <<>>
      /\ \A w \in Workers : phase[w] \notin HoldingPhases
      /\ \A c \in Closers : closer[c] # "accounting"
  BY NothingHeldAtZero DEF ServiceInv, ShutdownInv
<1>2. Queued = {}
  BY <1>1 DEF Queued
<1>3. r \notin InFlight
  BY <1>1, <1>2 DEF InFlight, Holding, Accounting
<1>4. outcome[r] \notin {"none", "abandoned", "drained"}
  BY <1>3 DEF ServiceInv, AnswerInv, OutcomeInv
<1>5. outcome[r] \in Outcomes
  BY DEF ServiceInv, WorkInv, TypeOK
<1> QED
  BY <1>4, <1>5 DEF Outcomes, RanToEnd

\* When shutdown completes without any caller of Close having run out of time,
\* every request that was answered 202 was verified, refused or reported: none
\* was abandoned at its gate and none drained.
THEOREM GracefulShutdownHonours == Spec => []GracefulShutdownHonoursAccepted
BY HonouredFromInv, ServiceInvHolds, PTL

-----------------------------------------------------------------------------
(* Authority for the verified callback.                                    *)

LEMMA AuthorityInit == Init => AuthorityInv
BY DEF Init, AuthorityInv

LEMMA AuthorityStep == WorkInv /\ AuthorityInv /\ [Next]_vars => AuthorityInv'
<1> SUFFICES ASSUME WorkInv, AuthorityInv, [Next]_vars PROVE AuthorityInv'
  OBVIOUS
<1> USE DEF AuthorityInv
<1>0. TypeOK /\ JobsHeld
  BY DEF WorkInv
<1>1. ASSUME NEW r \in Requests, ServeRequest(r) PROVE AuthorityInv'
  <2>1. UNCHANGED <<phase, job, confirmed, outcome>> /\ verified \subseteq verified'
    BY <1>1 DEF ServeRequest, EnterOpen, EnterClosed, MarkVerified, Reject, BuildJob, Admit,
         RefuseAdmission, Respond, OpenGate, workerVars
  <2>2. verified' \subseteq marked' /\ (marked' # {} => AllowExternalVerification)
    BY <1>1 DEF ServeRequest, EnterOpen, EnterClosed, MarkVerified, Reject, BuildJob, Admit,
         RefuseAdmission, Respond, OpenGate
  <2> QED
    BY <2>1, <2>2
<1>2. ASSUME NEW w \in Workers, WorkerStep(w) PROVE AuthorityInv'
  <2>1. UNCHANGED <<marked, verified>> /\ confirmed \subseteq confirmed'
    BY <1>2 DEF WorkerStep, WorkerOwnStep, ValidationReturns, HandoffReturns, TakeJob,
         WorkerExit, PassGate, AbandonAtGate, ValidationPasses, ValidationDenies,
         ValidationFails, IntentConfirmed, IntentFails, HandoffSucceeds, HandoffFails,
         Notify, FinishJob, requestVars
  <2>2. CASE ValidationPasses(w) \/ IntentConfirmed(w)
    <3>1. /\ outcome' = outcome /\ job' = job
          /\ \A v \in Workers \ {w} : phase'[v] = phase[v]
          /\ phase'[w] = "handoff" => job[w] \in confirmed' \cup verified
      BY <1>0, <2>2 DEF ValidationPasses, IntentConfirmed, MoveTo, TypeOK
    <3> QED
      BY <2>1, <3>1
  <2>3. CASE HandoffSucceeds(w) \/ HandoffFails(w)
    <3>1. /\ job' = job /\ job[w] \in confirmed \cup verified
          /\ \A v \in Workers : phase'[v] = "handoff" => phase[v] = "handoff"
          /\ \A r \in Requests \ {job[w]} : outcome'[r] = outcome[r]
      BY <1>0, <2>3 DEF HandoffSucceeds, HandoffFails, MoveTo, EndsAs, ErrorPhase, TypeOK
    <3> QED
      BY <2>1, <3>1
  <2>4. CASE AbandonAtGate(w) \/ ValidationDenies(w) \/ ValidationFails(w) \/ IntentFails(w)
    <3>1. /\ job' = job
          /\ \A v \in Workers : phase'[v] = "handoff" => phase[v] = "handoff"
      BY <1>0, <2>4 DEF AbandonAtGate, ValidationDenies, ValidationFails, IntentFails, MoveTo,
           ErrorPhase, TypeOK
    <3>2. \A r \in Requests :
            outcome'[r] \in {"verified", "verifiedFailed"} => outcome'[r] = outcome[r]
      BY <1>0, <2>4 DEF AbandonAtGate, ValidationDenies, ValidationFails, IntentFails, EndsAs,
           TypeOK
    <3> QED
      BY <2>1, <3>1, <3>2
  <2>5. CASE TakeJob(w) \/ FinishJob(w)
    <3>1. /\ outcome' = outcome
          /\ \A v \in Workers : phase'[v] = "handoff" => phase[v] = "handoff" /\ job'[v] = job[v]
      BY <1>0, <2>5 DEF TakeJob, FinishJob, MoveTo, TypeOK
    <3> QED
      BY <2>1, <3>1
  <2>6. CASE WorkerExit(w) \/ PassGate(w) \/ Notify(w)
    <3>1. /\ outcome' = outcome /\ job' = job
          /\ \A v \in Workers : phase'[v] = "handoff" => phase[v] = "handoff"
      BY <1>0, <2>6 DEF WorkerExit, PassGate, Notify, MoveTo, TypeOK
    <3> QED
      BY <2>1, <3>1
  <2> QED
    BY <1>2, <2>2, <2>3, <2>4, <2>5, <2>6 DEF WorkerStep, WorkerOwnStep, ValidationReturns,
       HandoffReturns
<1>3. ASSUME NEW c \in Closers, CloserStep(c) PROVE AuthorityInv'
  <2>1. UNCHANGED <<marked, verified, phase, job, confirmed>>
    BY <1>3 DEF CloserStep, CloseCalled, CloseReturnsNil, CloseExpires, DrainOne,
         AccountDrained, CloseReturnsError, requestVars, workerVars
  <2>2. \A r \in Requests :
          outcome'[r] \in {"verified", "verifiedFailed"} => outcome'[r] = outcome[r]
    BY <1>0, <1>3 DEF CloserStep, CloseCalled, CloseReturnsNil, CloseExpires, DrainOne,
         AccountDrained, CloseReturnsError, TypeOK
  <2> QED
    BY <2>1, <2>2
<1>4. CASE ShutdownStep
  BY <1>4 DEF ShutdownStep, ShutdownJobsDone, ShutdownCancels, ShutdownCompletes,
       requestVars, workerVars
<1>5. CASE UNCHANGED vars
  BY <1>5 DEF vars, requestVars, workerVars
<1> QED
  BY <1>1, <1>2, <1>3, <1>4, <1>5 DEF Next

\* The verified callback runs for nobody who did not confirm the challenge,
\* unless the application had marked the request by the time it was admitted and
\* the configuration allows that.
THEOREM HandoffAuthorised == Spec => []HandoffIsAuthorised
<1>1. Init => WorkInv /\ AuthorityInv
  BY InitWork, AuthorityInit
<1>2. (WorkInv /\ AuthorityInv) /\ [Next]_vars => (WorkInv /\ AuthorityInv)'
  BY WorkStep, AuthorityStep
<1>3. AuthorityInv => HandoffIsAuthorised
  <2> SUFFICES ASSUME AuthorityInv, NEW r \in Requests,
                      \/ outcome[r] \in {"verified", "verifiedFailed"}
                      \/ \E w \in Workers : phase[w] = "handoff" /\ job[w] = r
               PROVE  r \in confirmed \/ (AllowExternalVerification /\ r \in verified)
    BY DEF HandoffIsAuthorised
  <2>1. r \in confirmed \cup verified
    BY DEF AuthorityInv
  <2>2. r \in verified => AllowExternalVerification
    BY DEF AuthorityInv
  <2> QED
    BY <2>1, <2>2
<1> QED
  BY <1>1, <1>2, <1>3, PTL DEF Spec

-----------------------------------------------------------------------------
(* Refinement of VerificationService.                                      *)

\* Where a request stands, when the answers and the places agree.
Stands(r) ==
    IF r \in InFlight THEN "owned"
    ELSE IF serving[r] \in {"new", "deciding", "admitting"} THEN "outside"
    ELSE IF response[r] \in {"unavailable", "rejected"} THEN "turnedAway"
    ELSE "settled"

LEMMA StandingStands ==
    /\ AnswerInv => \A r \in Requests : Standing(r) = Stands(r)
    /\ AnswerInv' => \A r \in Requests : Standing(r)' = Stands(r)'
<1>1. ASSUME AnswerInv, NEW r \in Requests PROVE Standing(r) = Stands(r)
  <2>1. serving[r] \in {"new", "deciding", "admitting"} =>
            response[r] \notin {"unavailable", "rejected"}
    BY <1>1 DEF AnswerInv
  <2> QED
    BY <2>1 DEF Standing, Stands
<1>2. ASSUME AnswerInv', NEW r \in Requests PROVE Standing(r)' = Stands(r)'
  <2>1. serving'[r] \in {"new", "deciding", "admitting"} =>
            response'[r] \notin {"unavailable", "rejected"}
    BY <1>2 DEF AnswerInv
  <2> QED
    BY <2>1 DEF Standing, Stands
<1> QED
  BY <1>1, <1>2

\* What the service sees of a step that moves no request but q.
LEMMA StandingMoves ==
    ASSUME ServiceInv, ServiceInv', NEW q \in Requests,
           \A r \in Requests \ {q} : Stands(r)' = Stands(r)
    PROVE  [r \in Requests |-> Standing(r)]' =
               [[r \in Requests |-> Standing(r)] EXCEPT ![q] = Stands(q)']
BY StandingStands DEF ServiceInv

LEMMA StandingStays ==
    ASSUME ServiceInv, ServiceInv', \A r \in Requests : Stands(r)' = Stands(r)
    PROVE  [r \in Requests |-> Standing(r)]' = [r \in Requests |-> Standing(r)]
BY StandingStands DEF ServiceInv

\* The cardinality the service is stated with is the one of FiniteSets.
LEMMA ServiceCounts == ASSUME NEW S PROVE Service!Cardinality(S) = Cardinality(S)
BY DEF Service!Cardinality, Cardinality

LEMMA OwnedIsInFlight ==
    ASSUME ServiceInv
    PROVE  Service!Owned = InFlight
<1>1. InFlight \subseteq Requests
  BY LenProperties DEF ServiceInv, WorkInv, TypeOK, JobsHeld, InFlight, Queued, Holding,
       Accounting
<1>2. \A r \in Requests : Standing(r) = "owned" <=> r \in InFlight
  BY StandingStands DEF ServiceInv, Stands
<1> QED
  BY <1>1, <1>2 DEF Service!Owned

\* Before Close, a request that finds room in the queue finds the service below
\* its capacity: a worker holds one request, the queue the rest.
LEMMA RoomForOne ==
    ASSUME ServiceInv, ~closed, Len(queue) < QueueCap
    PROVE  Cardinality(InFlight) < QueueCap + Cardinality(Workers)
<1> DEFINE Held == {job[w] : w \in Holding}
<1>0. TypeOK
  BY DEF ServiceInv, WorkInv
<1>1. InFlight = Queued \cup Held
  BY DEF ServiceInv, OutcomeInv, InFlight, Accounting
<1>2. IsFiniteSet(Queued) /\ Cardinality(Queued) <= Len(queue) /\ Len(queue) \in Nat
  <2>1. queue \in [1..Len(queue) -> Requests] /\ Len(queue) \in Nat
    BY <1>0, LenProperties DEF TypeOK
  <2>2. queue \in Surjection(1..Len(queue), Queued)
    BY <2>1 DEF Surjection, Queued
  <2>3. IsFiniteSet(1..Len(queue)) /\ Cardinality(1..Len(queue)) = Len(queue)
    <3> DEFINE n == Len(queue)
    <3>1. n \in Nat
      BY <2>1
    <3> HIDE DEF n
    <3>2. IsFiniteSet(1..n)
      BY <3>1, FS_Interval
    <3>3. Cardinality(1..n) = n
      BY <3>1, FS_Interval, SMT
    <3> QED
      BY <3>2, <3>3 DEF n
  <2> QED
    BY <2>1, <2>2, <2>3, FS_Surjection
<1>3. IsFiniteSet(Held) /\ Cardinality(Held) <= Cardinality(Holding)
  <2>1. [w \in Holding |-> job[w]] \in Surjection(Holding, Held)
    BY DEF Surjection
  <2> QED
    BY <2>1, CountsAreNaturals, FS_Surjection
<1> HIDE DEF Held
<1>4. Cardinality(Holding) <= Cardinality(Workers)
  <2>1. Holding \in SUBSET Workers
    BY DEF Holding
  <2> QED
    BY <2>1, FS_Subset
<1>5. Cardinality(InFlight) = Cardinality(Queued) + Cardinality(Held) - Cardinality(Queued \cap Held)
  BY <1>1, <1>2, <1>3, FS_Union
<1>6. IsFiniteSet(Queued \cap Held)
  BY <1>2, <1>3, FS_Intersection
<1>7. /\ Cardinality(Queued) \in Nat /\ Cardinality(Held) \in Nat
      /\ Cardinality(Queued \cap Held) \in Nat
      /\ Cardinality(Workers) \in Nat /\ Cardinality(Holding) \in Nat
  BY <1>2, <1>3, <1>6, CountsAreNaturals, FS_CardinalityType
<1> QED
  BY <1>2, <1>3, <1>4, <1>5, <1>7

LEMMA ServiceInit == Init => Service!Init
<1> SUFFICES ASSUME Init PROVE Service!Init
  OBVIOUS
<1>1. ASSUME NEW r \in Requests PROVE Standing(r) = "outside"
  <2>1. Queued = {} /\ Holding = {} /\ Accounting = {}
    BY DEF Init, Queued, Holding, Accounting, HoldingPhases
  <2>2. InFlight = {}
    BY <2>1 DEF InFlight
  <2>3. Stands(r) = "outside"
    BY <2>2 DEF Init, Stands
  <2> QED
    BY <2>3, ServiceInvInit, StandingStands DEF ServiceInv
<1> QED
  BY <1>1 DEF Init, Service!Init

LEMMA RequestRefines ==
    ASSUME ServiceInv, ServiceInv', NEW r \in Requests, ServeRequest(r)
    PROVE  [Service!Next]_(Service!vars)
<1>0. TypeOK
  BY DEF ServiceInv, WorkInv
<1>1. /\ InFlight' = IF Admit(r) THEN InFlight \cup {r} ELSE InFlight
      /\ closed' = closed /\ shutdown' = shutdown
  BY RequestPlaces
<1>2. \A q \in Requests \ {r} : serving'[q] = serving[q] /\ response'[q] = response[q]
  BY <1>0 DEF TypeOK, ServeRequest, EnterOpen, EnterClosed, MarkVerified, Reject, BuildJob,
       Admit, RefuseAdmission, Respond, OpenGate, Answer
<1>3. \A q \in Requests \ {r} : Stands(q)' = Stands(q)
  BY <1>1, <1>2 DEF Stands
<1>4. [q \in Requests |-> Standing(q)]' =
          [[q \in Requests |-> Standing(q)] EXCEPT ![r] = Stands(r)']
  BY <1>3, StandingMoves
<1>5. Standing(r) = Stands(r)
  BY StandingStands DEF ServiceInv
<1>6. CASE EnterOpen(r) \/ MarkVerified(r) \/ BuildJob(r) \/ Respond(r) \/ OpenGate(r)
  <2>1. ~Admit(r) /\ Stands(r)' = Stands(r)
    <3>1. CASE EnterOpen(r) \/ BuildJob(r)
      BY <1>0, <1>1, <3>1 DEF TypeOK, EnterOpen, BuildJob, Admit, Stands
    <3>2. CASE MarkVerified(r)
      BY <1>0, <1>1, <3>2 DEF TypeOK, MarkVerified, Admit, Stands
    <3>3. CASE Respond(r)
      BY <1>0, <1>1, <3>3 DEF TypeOK, Respond, Answer, Admit, Stands, ServiceInv, AnswerInv
    <3>4. CASE OpenGate(r)
      BY <1>0, <1>1, <3>4 DEF TypeOK, OpenGate, Admit, Stands
    <3> QED
      BY <1>6, <3>1, <3>2, <3>3, <3>4
  <2>2. \A q \in Requests : Stands(q)' = Stands(q)
    BY <1>3, <2>1
  <2>3. [q \in Requests |-> Standing(q)]' = [q \in Requests |-> Standing(q)]
    BY <2>2, StandingStays
  <2> QED
    BY <1>1, <2>3 DEF Service!vars
<1>7. CASE EnterClosed(r) \/ Reject(r) \/ RefuseAdmission(r)
  <2>1. /\ serving'[r] = "served" /\ response'[r] \in {"unavailable", "rejected"}
        /\ serving[r] \in {"new", "deciding", "admitting"}
    BY <1>0, <1>7 DEF TypeOK, EnterClosed, Reject, RefuseAdmission, Answer
  <2>2. r \notin InFlight /\ r \notin InFlight'
    BY <2>1 DEF ServiceInv, AnswerInv
  <2>3. Stands(r) = "outside" /\ Stands(r)' = "turnedAway"
    BY <2>1, <2>2 DEF Stands
  <2>4. Service!TurnAway(r)
    BY <1>1, <1>4, <1>5, <2>3 DEF Service!TurnAway
  <2> QED
    BY <2>4 DEF Service!Next
<1>8. CASE Admit(r)
  <2>1. serving[r] = "admitting" /\ ~closed /\ Len(queue) < QueueCap
    BY <1>8 DEF Admit
  <2>2. r \notin InFlight /\ r \in InFlight'
    BY <1>1, <1>8, <2>1 DEF ServiceInv, AnswerInv
  <2>3. Stands(r) = "outside" /\ Stands(r)' = "owned"
    BY <2>1, <2>2 DEF Stands
  <2>4. Service!Cardinality(Service!Owned) < QueueCap + Cardinality(Workers)
    BY <2>1, RoomForOne, OwnedIsInFlight, ServiceCounts
  <2>5. Service!Accept(r)
    <3>1. [q \in Requests |-> Standing(q)]' =
              [[q \in Requests |-> Standing(q)] EXCEPT ![r] = "owned"]
      BY <1>4, <2>3
    <3>2. [q \in Requests |-> Standing(q)][r] = "outside"
      BY <1>5, <2>3
    <3>3. closed' = closed /\ (shutdown' = "done") = (shutdown = "done")
      BY <1>1
    <3> QED
      BY <2>1, <2>4, <3>1, <3>2, <3>3, Zenon DEF Service!Accept
  <2> QED
    BY <2>5 DEF Service!Next
<1> QED
  BY <1>6, <1>7, <1>8 DEF ServeRequest

\* A step that only lets go of a request that has ended settles it.
LEMMA LettingGoSettles ==
    ASSUME ServiceInv, ServiceInv', NEW r \in Requests, r \in InFlight,
           InFlight' = InFlight \ {r},
           UNCHANGED <<serving, response, closed, shutdown>>
    PROVE  Service!Settle(r)
<1>1. /\ serving[r] \notin {"new", "deciding", "admitting"}
      /\ response[r] \notin {"unavailable", "rejected"}
  BY DEF ServiceInv, AnswerInv
<1>2. Stands(r) = "owned" /\ Stands(r)' = "settled"
  BY <1>1 DEF Stands
<1>3. \A q \in Requests \ {r} : Stands(q)' = Stands(q)
  BY DEF Stands
<1>4. [q \in Requests |-> Standing(q)]' =
          [[q \in Requests |-> Standing(q)] EXCEPT ![r] = Stands(r)']
  BY <1>3, StandingMoves
<1>5. Standing(r) = "owned"
  BY <1>2, StandingStands DEF ServiceInv
<1> QED
  BY <1>2, <1>4, <1>5 DEF Service!Settle

LEMMA StayingPut ==
    ASSUME ServiceInv, ServiceInv', InFlight' = InFlight, UNCHANGED <<serving, response>>
    PROVE  [r \in Requests |-> Standing(r)]' = [r \in Requests |-> Standing(r)]
<1>1. \A r \in Requests : Stands(r)' = Stands(r)
  BY DEF Stands
<1> QED
  BY <1>1, StandingStays

LEMMA WorkerRefines ==
    ASSUME ServiceInv, ServiceInv', NEW w \in Workers, WorkerStep(w)
    PROVE  [Service!Next]_(Service!vars)
<1>1. /\ InFlight' = IF FinishJob(w) THEN InFlight \ {job[w]} ELSE InFlight
      /\ UNCHANGED <<serving, response, closed, shutdown>>
  BY WorkerPlaces DEF requestVars
<1>2. CASE FinishJob(w)
  <2>1. job[w] \in Requests /\ job[w] \in InFlight
    BY <1>2, InFlightMember DEF ServiceInv, WorkInv, JobsHeld, FinishJob, HoldingPhases, Phases
  <2>2. Service!Settle(job[w])
    BY <1>1, <1>2, <2>1, LettingGoSettles
  <2> QED
    BY <2>1, <2>2 DEF Service!Next
<1>3. CASE ~FinishJob(w)
  <2>1. [r \in Requests |-> Standing(r)]' = [r \in Requests |-> Standing(r)]
    BY <1>1, <1>3, StayingPut
  <2> QED
    BY <1>1, <2>1 DEF Service!vars
<1> QED
  BY <1>2, <1>3

LEMMA CloserRefines ==
    ASSUME ServiceInv, ServiceInv', NEW c \in Closers, CloserStep(c)
    PROVE  [Service!Next]_(Service!vars)
<1>1. /\ InFlight' = IF AccountDrained(c) THEN InFlight \ {drained[c]} ELSE InFlight
      /\ UNCHANGED <<serving, response>>
  BY CloserPlaces DEF requestVars
<1>2. CASE AccountDrained(c)
  <2>1. drained[c] \in Requests /\ drained[c] \in InFlight
    BY <1>2, InFlightMember DEF ServiceInv, WorkInv, JobsHeld, AccountDrained
  <2>2. closed' = closed /\ shutdown' = shutdown
    BY <1>2 DEF AccountDrained
  <2>3. Service!Settle(drained[c])
    BY <1>1, <1>2, <2>1, <2>2, LettingGoSettles
  <2> QED
    BY <2>1, <2>3 DEF Service!Next
<1>3. CASE CloseCalled(c)
  <2>1. ~AccountDrained(c) /\ closed' = TRUE
    BY <1>3 DEF CloseCalled, AccountDrained
  <2>2. [r \in Requests |-> Standing(r)]' = [r \in Requests |-> Standing(r)]
    BY <1>1, <2>1, StayingPut
  <2>3. (shutdown' = "done") = (shutdown = "done")
    BY <1>3 DEF CloseCalled
  <2>4. CASE closed
    BY <2>1, <2>2, <2>3, <2>4 DEF Service!vars
  <2>5. CASE ~closed
    <3>1. Service!StopAdmission
      BY <2>1, <2>2, <2>3, <2>5 DEF Service!StopAdmission
    <3> QED
      BY <3>1 DEF Service!Next
  <2> QED
    BY <2>4, <2>5
<1>4. CASE ~AccountDrained(c) /\ ~CloseCalled(c)
  <2>1. closed' = closed /\ shutdown' = shutdown
    BY <1>4 DEF CloserStep, CloseReturnsNil, CloseExpires, DrainOne, CloseReturnsError
  <2>2. [r \in Requests |-> Standing(r)]' = [r \in Requests |-> Standing(r)]
    BY <1>1, <1>4, StayingPut
  <2> QED
    BY <2>1, <2>2 DEF Service!vars
<1> QED
  BY <1>2, <1>3, <1>4

LEMMA ShutdownRefines ==
    ASSUME ServiceInv, ServiceInv', ShutdownStep \/ UNCHANGED vars
    PROVE  [Service!Next]_(Service!vars)
<1>1. InFlight' = InFlight /\ UNCHANGED <<serving, response, closed>>
  BY ShutdownPlaces DEF requestVars
<1>2. [r \in Requests |-> Standing(r)]' = [r \in Requests |-> Standing(r)]
  BY <1>1, StayingPut
<1>3. CASE ShutdownCompletes
  <2>1. shutdown = "waitWorkers" /\ shutdown' = "done"
    BY <1>3 DEF ShutdownCompletes
  <2>2. closed /\ jobsWG = 0
    BY <2>1 DEF ServiceInv, ShutdownInv
  <2>3. queue = <<>> /\ Holding = {} /\ Accounting = {}
    BY <2>2, NothingHeldAtZero DEF ServiceInv, Holding, Accounting
  <2>4. InFlight = {}
    BY <2>3 DEF InFlight, Queued
  <2>5. Service!Owned = {}
    BY <2>4, OwnedIsInFlight
  <2>6. Service!Finish
    BY <1>1, <1>2, <2>1, <2>2, <2>5 DEF Service!Finish
  <2> QED
    BY <2>6 DEF Service!Next
<1>4. CASE ~ShutdownCompletes
  <2>1. (shutdown' = "done") = (shutdown = "done")
    BY <1>4 DEF ShutdownStep, ShutdownJobsDone, ShutdownCancels, vars, shutdownVars
  <2> QED
    BY <1>1, <1>2, <2>1 DEF Service!vars
<1> QED
  BY <1>3, <1>4

\* The goroutines of the handler, in any number and order, own at most QueueCap
\* + Workers requests, settle each that they own once, turn the others away, and
\* finish the shutdown only when they own none and can accept none.
THEOREM HandlerImplementsService == Spec => ImplementsService
<1>1. Init => Service!Init
  BY ServiceInit
<1>2. ServiceInv /\ ServiceInv' /\ [Next]_vars => [Service!Next]_(Service!vars)
  BY RequestRefines, WorkerRefines, CloserRefines, ShutdownRefines DEF Next
<1>3. Spec => []ServiceInv
  BY ServiceInvHolds
<1> QED
  BY <1>1, <1>2, <1>3, PTL DEF Spec, ImplementsService, Service!Spec

-----------------------------------------------------------------------------
(* What the end of a shutdown rests on besides fairness                    *)

\* Nobody leaves work behind that only he could do: workers stay until the context
\* is cancelled, a queue that outlives it has its drain, and a request that was
\* served without being turned down has opened its gate.
LeavingInv ==
    /\ \A w \in Workers : phase[w] = "exited" => rootDone
    /\ (rootDone /\ queue # <<>>) => \E c \in Closers : closer[c] \in {"draining", "accounting"}
    /\ \A r \in Requests :
         serving[r] = "served" => response[r] \in {"unavailable", "rejected"} \/ r \in started

LEMMA CancelledIsClosed == ASSUME ShutdownInv, OutcomeInv, rootDone PROVE closed
BY DEF ShutdownInv, OutcomeInv, ExpiredClosers

LEMMA LeavingInvInit == Init => LeavingInv
BY DEF Init, LeavingInv

LEMMA RequestKeepsLeaving ==
    ASSUME ServiceInv, LeavingInv, NEW r \in Requests, ServeRequest(r)
    PROVE  LeavingInv'
<1>1. UNCHANGED <<phase, rootDone, closer>>
  BY DEF ServeRequest, EnterOpen, EnterClosed, MarkVerified, Reject, BuildJob, Admit,
         RefuseAdmission, Respond, OpenGate,
         workerVars, shutdownVars
<1>2. TypeOK /\ (rootDone => closed)
  BY CancelledIsClosed DEF ServiceInv, WorkInv
<1>3. closed => queue' = queue
  BY DEF ServeRequest, EnterOpen, EnterClosed, MarkVerified, Reject, BuildJob, Admit,
         RefuseAdmission, Respond, OpenGate
<1>4. \A q \in Requests :
        serving'[q] = "served" => response'[q] \in {"unavailable", "rejected"} \/ q \in started'
  <2> USE <1>2 DEF TypeOK, LeavingInv, Answer
  <2>1. CASE EnterOpen(r) \/ BuildJob(r) \/ MarkVerified(r) \/ Admit(r)
    BY <2>1 DEF EnterOpen, BuildJob, MarkVerified, Admit
  <2>2. CASE EnterClosed(r) \/ Reject(r) \/ RefuseAdmission(r)
    BY <2>2 DEF EnterClosed, Reject, RefuseAdmission
  <2>3. CASE Respond(r) \/ OpenGate(r)
    BY <2>3 DEF Respond, OpenGate
  <2> QED  BY <2>1, <2>2, <2>3 DEF ServeRequest
<1> QED  BY <1>1, <1>2, <1>3, <1>4 DEF LeavingInv

LEMMA WorkerKeepsLeaving ==
    ASSUME ServiceInv, LeavingInv, NEW w \in Workers, WorkerStep(w)
    PROVE  LeavingInv'
<1>1. UNCHANGED <<serving, response, started, rootDone, closer>>
  BY DEF WorkerStep, WorkerOwnStep, ValidationReturns, HandoffReturns, TakeJob, WorkerExit,
         PassGate, AbandonAtGate, ValidationPasses, ValidationDenies, ValidationFails,
         IntentConfirmed, IntentFails, HandoffSucceeds, HandoffFails, Notify, FinishJob,
         requestVars, shutdownVars
<1>2. phase \in [Workers -> Phases]
  BY DEF ServiceInv, WorkInv, TypeOK
<1>3. queue' = queue \/ queue # <<>>
  BY DEF WorkerStep, WorkerOwnStep, ValidationReturns, HandoffReturns, TakeJob, WorkerExit,
         PassGate, AbandonAtGate, ValidationPasses, ValidationDenies, ValidationFails,
         IntentConfirmed, IntentFails, HandoffSucceeds, HandoffFails, Notify, FinishJob
<1>4. \A v \in Workers : phase'[v] = "exited" => rootDone
  <2>1. CASE WorkerExit(w)
    BY <1>2, <2>1 DEF WorkerExit, MoveTo, LeavingInv
  <2>2. CASE ~WorkerExit(w)
    <3>1. PICK p \in Phases \ {"exited"} : MoveTo(w, p)
      BY <2>2 DEF WorkerStep, WorkerOwnStep, ValidationReturns, HandoffReturns, TakeJob, WorkerExit,
         PassGate, AbandonAtGate, ValidationPasses, ValidationDenies, ValidationFails,
         IntentConfirmed, IntentFails, HandoffSucceeds, HandoffFails, Notify, FinishJob,
         ErrorPhase, Phases
    <3> QED  BY <1>2, <3>1 DEF MoveTo, LeavingInv
  <2> QED  BY <2>1, <2>2
<1> QED  BY <1>1, <1>3, <1>4 DEF LeavingInv

LEMMA CloserKeepsLeaving ==
    ASSUME ServiceInv, LeavingInv, NEW c \in Closers, CloserStep(c)
    PROVE  LeavingInv'
<1>1. UNCHANGED <<serving, response, started, phase>> /\ (rootDone => rootDone')
  BY DEF CloserStep, CloseCalled, CloseReturnsNil, CloseExpires, DrainOne, AccountDrained,
         CloseReturnsError,
         requestVars, workerVars
<1>2. closer \in [Closers -> CloserSteps]
  BY DEF ServiceInv, WorkInv, TypeOK
<1>3. CASE CloseExpires(c) \/ DrainOne(c) \/ AccountDrained(c)
  <2>1. closer'[c] \in {"draining", "accounting"}
    BY <1>2, <1>3 DEF CloseExpires, DrainOne, AccountDrained, CloserGoes
  <2> QED  BY <1>1, <2>1 DEF LeavingInv
<1>4. CASE CloseCalled(c) \/ CloseReturnsNil(c)
  <2>1. /\ UNCHANGED <<queue, rootDone>>
        /\ closer[c] \notin {"draining", "accounting"}
        /\ \A d \in Closers \ {c} : closer'[d] = closer[d]
    BY <1>2, <1>4 DEF CloseCalled, CloseReturnsNil, CloserGoes
  <2> QED  BY <1>1, <2>1 DEF LeavingInv
<1>5. CASE CloseReturnsError(c)
  BY <1>1, <1>5 DEF CloseReturnsError, LeavingInv
<1> QED  BY <1>3, <1>4, <1>5 DEF CloserStep

LEMMA ShutdownKeepsLeaving ==
    ASSUME ServiceInv, LeavingInv, ShutdownStep
    PROVE  LeavingInv'
<1>1. UNCHANGED <<serving, response, started, phase, queue, closer>> /\ (rootDone => rootDone')
  BY DEF ShutdownStep, ShutdownJobsDone, ShutdownCancels, ShutdownCompletes, requestVars,
         workerVars
<1>2. rootDone' = rootDone \/ queue = <<>>
  <2>1. CASE ShutdownCancels
    <3>1. jobsWG = 0
      BY <2>1 DEF ShutdownCancels, ServiceInv, ShutdownInv
    <3> QED  BY <3>1, NothingHeldAtZero DEF ServiceInv
  <2>2. CASE ShutdownJobsDone \/ ShutdownCompletes
    BY <2>2 DEF ShutdownJobsDone, ShutdownCompletes
  <2> QED  BY <2>1, <2>2 DEF ShutdownStep
<1> QED  BY <1>1, <1>2 DEF LeavingInv

LEMMA LeavingHolds == Spec => [](ServiceInv /\ LeavingInv)
<1>1. ASSUME ServiceInv, LeavingInv, [Next]_vars PROVE LeavingInv'
  <2>1. CASE UNCHANGED vars
    BY <1>1, <2>1 DEF vars, requestVars, workerVars, shutdownVars, LeavingInv
  <2> QED  BY <1>1, <2>1, RequestKeepsLeaving, WorkerKeepsLeaving, CloserKeepsLeaving,
              ShutdownKeepsLeaving DEF Next
<1> QED  BY <1>1, LeavingInvInit, ServiceInvHolds, PTL DEF Spec

\* A worker that holds a job can go on, or the goroutine that will open its gate.
LEMMA HoldersMove ==
    ASSUME ServiceInv, LeavingInv, NEW w \in Workers, phase[w] \in HoldingPhases
    PROVE  \/ WorkerCanMove(w)
           \/ ~rootDone /\ serving[job[w]] \in {"responding", "releasing"}
<1>1. CASE phase[w] # "gate"
  BY <1>1 DEF HoldingPhases, Phases, WorkerCanMove
<1>2. CASE phase[w] = "gate" /\ (job[w] \in started \/ rootDone)
  BY <1>2 DEF WorkerCanMove
<1>3. CASE job[w] \notin started /\ ~rootDone
  <2>1. job[w] \in Requests /\ job[w] \in InFlight
    BY DEF ServiceInv, WorkInv, JobsHeld, InFlight, Holding
  <2>2. /\ serving[job[w]] \in ServingSteps
        /\ serving[job[w]] \notin {"new", "deciding", "admitting"}
        /\ response[job[w]] \notin {"unavailable", "rejected"}
    BY <2>1 DEF ServiceInv, WorkInv, TypeOK, AnswerInv
  <2>3. serving[job[w]] # "served"
    BY <1>3, <2>1, <2>2 DEF LeavingInv
  <2> QED  BY <1>3, <2>2, <2>3 DEF ServingSteps
<1> QED  BY <1>1, <1>2, <1>3

\* A counted job has somebody who can go on with it.
LEMMA CountedMoves ==
    ASSUME ServiceInv, LeavingInv, jobsWG # 0
    PROVE  \/ \E w \in Workers : WorkerCanMove(w)
           \/ \E c \in Closers : closer[c] \in {"draining", "accounting"}
           \/ ~rootDone /\ \E r \in Requests : serving[r] \in {"responding", "releasing"}
<1>1. ASSUME NEW w \in Workers, phase[w] \in HoldingPhases
      PROVE  \/ WorkerCanMove(w)
             \/ ~rootDone /\ \E r \in Requests : serving[r] \in {"responding", "releasing"}
  <2>1. job[w] \in Requests
    BY <1>1 DEF ServiceInv, WorkInv, JobsHeld
  <2> QED  BY <1>1, <2>1, HoldersMove
<1>2. ASSUME \A w \in Workers : phase[w] \notin HoldingPhases,
             \A c \in Closers : closer[c] # "accounting"
      PROVE  queue # <<>>
  <2>1. Holding = {} /\ Accounting = {}
    BY <1>2 DEF Holding, Accounting
  <2>2. Cardinality(Holding) = 0 /\ Cardinality(Accounting) = 0
    BY <2>1, FS_EmptySet
  <2>3. Len(queue) = jobsWG
    BY <2>2, LenProperties DEF ServiceInv, WorkInv, TypeOK, WorkIsAccounted
  <2> QED  BY <2>3, EmptySeq
<1>3. ASSUME queue # <<>>, \A w \in Workers : phase[w] \notin HoldingPhases
      PROVE  \/ \E w \in Workers : WorkerCanMove(w)
             \/ \E c \in Closers : closer[c] \in {"draining", "accounting"}
  <2>1. PICK w \in Workers : TRUE
    BY WorkersAssumption
  <2>2. phase[w] \in {"select", "exited"}
    BY <1>3 DEF ServiceInv, WorkInv, TypeOK, HoldingPhases
  <2>3. CASE phase[w] = "select"
    BY <1>3, <2>3 DEF WorkerCanMove
  <2>4. CASE phase[w] = "exited"
    BY <1>3, <2>4 DEF LeavingInv
  <2> QED  BY <2>2, <2>3, <2>4
<1> QED  BY <1>1, <1>2, <1>3

\* From Close on somebody can go on until the shutdown is complete, whoever gave up
\* on it and drained the queue; once the context is cancelled no response writer is
\* needed for it.
THEOREM ShutdownIsNeverStuck == Spec => []ShutdownNeverBlocks
<1>1. ASSUME ServiceInv, LeavingInv PROVE ShutdownNeverBlocks
  <2> SUFFICES ASSUME closed, shutdown # "done", ~ShutdownCanMove
               PROVE  \/ \E w \in Workers : WorkerCanMove(w)
                      \/ \E c \in Closers : closer[c] \in {"draining", "accounting"}
                      \/ ~rootDone /\ \E r \in Requests : serving[r] \in {"responding", "releasing"}
    BY DEF ShutdownNeverBlocks
  <2>1. shutdown \in {"waitJobs", "waitWorkers"}
    BY <1>1 DEF ServiceInv, WorkInv, TypeOK, ShutdownInv, ShutdownCanMove
  <2>2. CASE shutdown = "waitJobs"
    BY <1>1, <2>2, CountedMoves DEF ShutdownCanMove
  <2>3. CASE shutdown = "waitWorkers"
    <3>1. PICK w \in Workers : phase[w] # "exited"
      BY <2>3 DEF ShutdownCanMove
    <3>2. rootDone /\ phase[w] \notin HoldingPhases
      BY <1>1, <2>3, NothingHeldAtZero DEF ServiceInv, ShutdownInv
    <3>3. phase[w] = "select"
      BY <1>1, <3>1, <3>2 DEF ServiceInv, WorkInv, TypeOK, HoldingPhases
    <3> QED  BY <3>2, <3>3 DEF WorkerCanMove
  <2> QED  BY <2>1, <2>2, <2>3
<1> QED  BY <1>1, LeavingHolds, PTL

\* A request comes nearer its answer, or is marked; the queue stays as it is.
LEMMA RequestShrinksWork ==
    ASSUME TypeOK, closed, NEW r \in Requests, ServeRequest(r)
    PROVE  closed' /\ LessIsLeft
<1>1. /\ UNCHANGED <<queue, phase, closer, shutdown, closed>>
      /\ ~EnterOpen(r) /\ ~Admit(r)
  BY DEF ServeRequest, EnterOpen, EnterClosed, MarkVerified, Reject, BuildJob, Admit,
         RefuseAdmission, Respond, OpenGate, workerVars, shutdownVars
<1>2. serving \in [Requests -> ServingSteps]
  BY DEF TypeOK
<1>3. CASE MarkVerified(r)
  <2>1. UNCHANGED serving /\ r \notin marked /\ marked' = marked \cup {r}
    BY <1>3 DEF MarkVerified
  <2> QED  BY <1>1, <2>1 DEF LessIsLeft
<1> DEFINE Nears(s) == /\ serving' = [serving EXCEPT ![r] = s] /\ marked' = marked
                       /\ ServingStepsLeft(s) < ServingStepsLeft(serving[r])
<1>4. ASSUME NEW s \in ServingSteps, Nears(s) PROVE LessIsLeft
  <2>1. serving'[r] = s /\ \A q \in Requests \ {r} : serving'[q] = serving[q]
    BY <1>2, <1>4
  <2> QED  BY <1>1, <1>4, <2>1 DEF LessIsLeft
<1>5. /\ ServingStepsLeft("new") = 5 /\ ServingStepsLeft("deciding") = 4
      /\ ServingStepsLeft("admitting") = 3 /\ ServingStepsLeft("responding") = 2
      /\ ServingStepsLeft("releasing") = 1 /\ ServingStepsLeft("served") = 0
  BY DEF ServingStepsLeft
<1>6. EnterClosed(r) => Nears("served")
  BY <1>5 DEF EnterClosed, Answer
<1>7. Reject(r) => Nears("served")
  BY <1>5 DEF Reject, Answer
<1>8. BuildJob(r) => Nears("admitting")
  BY <1>5 DEF BuildJob
<1>9. RefuseAdmission(r) => Nears("served")
  BY <1>5 DEF RefuseAdmission, Answer
<1>10. Respond(r) => Nears("releasing")
  BY <1>5 DEF Respond, Answer
<1>11. OpenGate(r) => Nears("served")
  BY <1>5 DEF OpenGate
<1> HIDE DEF Nears
<1>12. ~MarkVerified(r) => \E s \in ServingSteps : Nears(s)
  BY <1>1, <1>6, <1>7, <1>8, <1>9, <1>10, <1>11 DEF ServeRequest, ServingSteps
<1> QED  BY <1>1, <1>3, <1>4, <1>12

\* A job leaves the queue, or the worker comes nearer the end of the one it has.
LEMMA WorkerShrinksWork ==
    ASSUME TypeOK, closed, NEW w \in Workers, WorkerStep(w)
    PROVE  closed' /\ LessIsLeft
<1>1. UNCHANGED <<serving, marked, closer, shutdown, closed>>
  BY DEF WorkerStep, WorkerOwnStep, ValidationReturns, HandoffReturns, TakeJob, WorkerExit,
         PassGate, AbandonAtGate, ValidationPasses, ValidationDenies, ValidationFails,
         IntentConfirmed, IntentFails, HandoffSucceeds, HandoffFails, Notify, FinishJob,
         requestVars, shutdownVars
<1>2. phase \in [Workers -> Phases] /\ queue \in Seq(Requests)
  BY DEF TypeOK
<1>3. CASE TakeJob(w)
  <2>1. Len(queue') < Len(queue)
    BY <1>2, <1>3, HeadTailProperties, LenProperties DEF TakeJob
  <2> QED  BY <1>1, <2>1 DEF LessIsLeft
<1> DEFINE Nears(p) == /\ MoveTo(w, p) /\ queue' = queue
                       /\ WorkerStepsLeft(p) < WorkerStepsLeft(phase[w])
<1>4. ASSUME NEW p \in Phases, Nears(p) PROVE LessIsLeft
  <2>1. phase'[w] = p /\ \A v \in Workers \ {w} : phase'[v] = phase[v]
    BY <1>2, <1>4 DEF MoveTo
  <2> QED  BY <1>1, <1>4, <2>1 DEF LessIsLeft
<1>5. /\ WorkerStepsLeft("gate") = 7 /\ WorkerStepsLeft("validate") = 6
      /\ WorkerStepsLeft("intent") = 5 /\ WorkerStepsLeft("handoff") = 4
      /\ WorkerStepsLeft("notify") = 3 /\ WorkerStepsLeft("finish") = 2
      /\ WorkerStepsLeft("select") = 1 /\ WorkerStepsLeft("exited") = 0
  BY DEF WorkerStepsLeft
<1>6. WorkerExit(w) => Nears("exited")
  BY <1>5 DEF WorkerExit
<1>7. PassGate(w) => Nears("validate")
  BY <1>5 DEF PassGate
<1>8. AbandonAtGate(w) => Nears("finish")
  BY <1>5 DEF AbandonAtGate
<1>9. ValidationPasses(w) => Nears("handoff") \/ Nears("intent")
  BY <1>5 DEF ValidationPasses
<1>10. ValidationDenies(w) => Nears("notify")
  BY <1>5 DEF ValidationDenies
<1>11. ValidationFails(w) => Nears("notify") \/ Nears("finish")
  BY <1>5 DEF ValidationFails, ErrorPhase
<1>12. IntentConfirmed(w) => Nears("handoff")
  BY <1>5 DEF IntentConfirmed
<1>13. IntentFails(w) => Nears("finish")
  BY <1>5 DEF IntentFails
<1>14. HandoffSucceeds(w) => Nears("finish")
  BY <1>5 DEF HandoffSucceeds
<1>15. HandoffFails(w) => Nears("notify") \/ Nears("finish")
  BY <1>5 DEF HandoffFails, ErrorPhase
<1>16. Notify(w) => Nears("finish")
  BY <1>5 DEF Notify
<1>17. FinishJob(w) => Nears("select")
  BY <1>5 DEF FinishJob
<1> HIDE DEF Nears
<1>18. ~TakeJob(w) => \E p \in Phases : Nears(p)
  BY <1>6, <1>7, <1>8, <1>9, <1>10, <1>11, <1>12, <1>13,
     <1>14, <1>15, <1>16, <1>17
     DEF WorkerStep, WorkerOwnStep, ValidationReturns, HandoffReturns, Phases
<1> QED  BY <1>1, <1>3, <1>4, <1>18

\* A caller of Close takes a job out of the queue or comes nearer its return.
LEMMA CloserShrinksWork ==
    ASSUME TypeOK, ShutdownInv, closed, NEW c \in Closers, CloserStep(c)
    PROVE  closed' /\ LessIsLeft
<1>1. UNCHANGED <<serving, marked, phase, shutdown, closed>>
  BY DEF CloserStep, CloseCalled, CloseReturnsNil, CloseExpires, DrainOne, AccountDrained,
         CloseReturnsError, requestVars, workerVars, ShutdownInv
<1>2. closer \in [Closers -> CloserSteps] /\ queue \in Seq(Requests)
  BY DEF TypeOK
<1>3. CASE DrainOne(c)
  <2>1. Len(queue') < Len(queue)
    BY <1>2, <1>3, HeadTailProperties, LenProperties DEF DrainOne
  <2> QED  BY <1>1, <2>1 DEF LessIsLeft
<1>4. ASSUME NEW s, CloserGoes(c, s), queue' = queue,
             CloserStepsLeft(s) < CloserStepsLeft(closer[c])
      PROVE  LessIsLeft
  <2>1. closer'[c] = s /\ \A d \in Closers \ {c} : closer'[d] = closer[d]
    BY <1>2, <1>4 DEF CloserGoes
  <2> QED  BY <1>1, <1>4, <2>1 DEF LessIsLeft
<1>5. /\ CloserStepsLeft("idle") = 4 /\ CloserStepsLeft("waiting") = 3
      /\ CloserStepsLeft("accounting") = 2 /\ CloserStepsLeft("draining") = 1
      /\ CloserStepsLeft("nil") = 0 /\ CloserStepsLeft("expired") = 0
  BY DEF CloserStepsLeft
<1>6. CASE CloseCalled(c)
  BY <1>4, <1>5, <1>6 DEF CloseCalled
<1>7. CASE CloseReturnsNil(c)
  BY <1>4, <1>5, <1>7 DEF CloseReturnsNil
<1>8. CASE CloseExpires(c)
  BY <1>4, <1>5, <1>8 DEF CloseExpires
<1>9. CASE AccountDrained(c)
  BY <1>4, <1>5, <1>9 DEF AccountDrained
<1>10. CASE CloseReturnsError(c)
  BY <1>4, <1>5, <1>10 DEF CloseReturnsError
<1> QED  BY <1>1, <1>3, <1>6, <1>7, <1>8, <1>9, <1>10 DEF CloserStep

LEMMA ShutdownShrinksWork ==
    ASSUME closed, ShutdownStep
    PROVE  closed' /\ LessIsLeft
<1>1. UNCHANGED <<queue, serving, marked, phase, closer, closed>>
  BY DEF ShutdownStep, ShutdownJobsDone, ShutdownCancels, ShutdownCompletes, requestVars,
         workerVars
<1>2. /\ ShutdownStepsLeft("waitJobs") = 3 /\ ShutdownStepsLeft("cancel") = 2
      /\ ShutdownStepsLeft("waitWorkers") = 1 /\ ShutdownStepsLeft("done") = 0
  BY DEF ShutdownStepsLeft
<1>3. ShutdownStepsLeft(shutdown') < ShutdownStepsLeft(shutdown)
  <2>1. CASE ShutdownJobsDone
    BY <1>2, <2>1 DEF ShutdownJobsDone
  <2>2. CASE ShutdownCancels
    BY <1>2, <2>2 DEF ShutdownCancels
  <2>3. CASE ShutdownCompletes
    BY <1>2, <2>3 DEF ShutdownCompletes
  <2> QED  BY <2>1, <2>2, <2>3 DEF ShutdownStep
<1> QED  BY <1>1, <1>3 DEF LessIsLeft

\* From Close on every step of anybody leaves less to do: the requests that arrive
\* late, marks, drains and workers cannot keep each other busy for ever.
THEOREM ClosingShrinks == Spec => ClosingShrinksWork
<1>1. ASSUME WorkInv, ShutdownInv, [Next]_vars
      PROVE  [closed => closed' /\ LessIsLeft]_vars
  <2>1. TypeOK
    BY <1>1 DEF WorkInv
  <2>2. ASSUME closed, NEW r \in Requests, ServeRequest(r) PROVE closed' /\ LessIsLeft
    BY <2>1, <2>2, RequestShrinksWork
  <2>3. ASSUME closed, NEW w \in Workers, WorkerStep(w) PROVE closed' /\ LessIsLeft
    BY <2>1, <2>3, WorkerShrinksWork
  <2>4. ASSUME closed, NEW c \in Closers, CloserStep(c) PROVE closed' /\ LessIsLeft
    BY <1>1, <2>1, <2>4, CloserShrinksWork
  <2>5. ASSUME closed, ShutdownStep PROVE closed' /\ LessIsLeft
    BY <2>5, ShutdownShrinksWork
  <2> QED  BY <1>1, <2>2, <2>3, <2>4, <2>5 DEF Next
<1> QED  BY <1>1, InvariantsHold, PTL DEF Spec, ClosingShrinksWork

-----------------------------------------------------------------------------
(* Configuration, leases and bounded bodies                                *)

\* Whatever NewHandler accepts leaves it with at least one worker and a queue of
\* at least one, positive bounds and whole leases; accepting its own result again
\* changes nothing.
THEOREM AcceptedConfigIsUsable ==
    ASSUME NEW config \in Configs, Accepted(config)
    PROVE  LET c == WithDefaults(config)
           IN  /\ c \in Configs
               /\ \A field \in DOMAIN Defaults : c[field] >= 1
               /\ Accepted(c) /\ WithDefaults(c) = c
<1> DEFINE c == WithDefaults(config)
<1>1. DOMAIN Defaults = {"DefaultLease", "MaxLease", "VerificationTimeout", "MaxRequestBody",
                         "MaxCallbackBody", "VerificationWorkers", "VerificationQueue"}
  BY SMT DEF Defaults
<1>2. \A field \in DOMAIN Defaults : Defaults[field] \in Int64 /\ Defaults[field] >= 1
  BY <1>1, SMT DEF Defaults, Int64, MaxInt64, Second
<1>3. \A field \in DOMAIN Defaults : config[field] \in Int64 /\ config[field] >= 0
  BY <1>1 DEF Configs, Accepted
<1>4. \A field \in DOMAIN Defaults : c[field] \in Int64 /\ c[field] >= 1
  BY <1>2, <1>3, SMT DEF WithDefaults, Int64, MaxInt64
<1>5. c \in Configs
  BY <1>1, <1>4, SMT DEF Configs, WithDefaults
<1>6. WithDefaults(c) = c
  BY <1>4, SMT DEF WithDefaults
<1>7. Accepted(c)
  BY <1>4, <1>6 DEF Accepted, Int64
<1> QED  BY <1>4, <1>5, <1>6, <1>7

\* The bound in parseSubscription is tight enough: no lease that is let through
\* overflows time.Duration.  A subscriber is granted what it asked for, or MaxLease
\* if that is less; never nothing, and never more than it asked for.
THEOREM LeaseIsHonoured ==
    ASSUME NEW config \in Configs, Accepted(config), config = WithDefaults(config)
    PROVE  /\ \A s \in LeaseRequests :
                LET granted == EffectiveLeaseSeconds(config, s)
                IN  /\ Wrap(s * Second) = s * Second
                    /\ granted * Second <= config.MaxLease /\ 1 <= granted /\ granted <= s
                    /\ s * Second <= config.MaxLease => granted = s
           /\ EffectiveLeaseSeconds(config, 0) * Second = config.DefaultLease
<1>1. /\ config.DefaultLease \in Int64 /\ config.MaxLease \in Int64
      /\ WholeSeconds(config.DefaultLease) /\ WholeSeconds(config.MaxLease)
      /\ config.DefaultLease <= config.MaxLease
  BY DEF Configs, Accepted
<1>2. ASSUME NEW s \in LeaseRequests
      PROVE  LET granted == EffectiveLeaseSeconds(config, s)
             IN  /\ Wrap(s * Second) = s * Second
                 /\ granted * Second <= config.MaxLease /\ 1 <= granted /\ granted <= s
                 /\ s * Second <= config.MaxLease => granted = s
  <2>1. s \in Int /\ 1 <= s /\ s <= 9223372036
    BY SMT DEF LeaseRequests, MaxInt64, Second
  <2>2. Wrap(s * Second) = s * Second
    BY <2>1, SMT DEF Wrap, TwoTo64, MaxInt64, Second
  <2> QED  BY <1>1, <2>1, <2>2, SMT DEF EffectiveLeaseSeconds, WholeSeconds, Int64, MaxInt64, Second
<1>3. EffectiveLeaseSeconds(config, 0) * Second = config.DefaultLease
  BY <1>1, SMT DEF EffectiveLeaseSeconds, WholeSeconds, Int64, MaxInt64, Second
<1> QED  BY <1>2, <1>3

\* A body is returned whole or refused, never cut short, for every limit but the
\* largest int64: there limit + 1 wraps, and every body is returned as empty.
THEOREM BodyIsWholeOrRefused ==
    ASSUME NEW length \in Nat
    PROVE  /\ \A limit \in Nat \ {0} : limit < MaxInt64 =>
                ReadBounded(length, limit) = IF length <= limit THEN length ELSE -1
           /\ ReadBounded(length, MaxInt64) = 0
<1>1. ASSUME NEW limit \in Nat \ {0}, limit < MaxInt64
      PROVE  ReadBounded(length, limit) = IF length <= limit THEN length ELSE -1
  <2>1. limit + 1 \in Int /\ 0 <= limit + 1 /\ limit + 1 <= MaxInt64
    BY <1>1, SMT DEF MaxInt64
  <2>2. \A n \in Int : 0 <= n /\ n <= MaxInt64 => Wrap(n) = n
    BY SMT DEF Wrap, TwoTo64, MaxInt64
  <2>3. Wrap(limit + 1) = limit + 1
    BY <2>1, <2>2
  <2> QED  BY <1>1, <2>3, SMT DEF ReadBounded, ReadThrough, MaxInt64
<1>2. ReadBounded(length, MaxInt64) = 0
  BY SMT DEF ReadBounded, ReadThrough, Wrap, TwoTo64, MaxInt64
<1> QED  BY <1>1, <1>2
=============================================================================
