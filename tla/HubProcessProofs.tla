--------------------------- MODULE HubProcessProofs ---------------------------
(***************************************************************************)
(* What an exchange with a hub guarantees for every request, every result  *)
(* a callback may return and every refusal (the operators of Exchange over *)
(* the whole of their domains), and theorems about HubProcess for every    *)
(* number of requests, workers and publishers and every queue capacity.    *)
(* A process runs the Handler it mounts unchanged, so the theorems of      *)
(* HandlerProofs hold of it.                                               *)
(***************************************************************************)
EXTENDS HandlerProofs, HubProcessProperties

USE ExtensionAssumption, ProcessAssumption

-----------------------------------------------------------------------------
(* Exchanges                                                               *)

\* The two ends agree: each method of PublisherClient reaches the callback of its
\* own name, and content is content even with the media type of a form or with a
\* body that reads as a subscribe request.  The one exception is a form in another
\* charset, which Publish accepts and ServeHTTP refuses.
THEOREM OperationsReachTheirCallback ==
    ASSUME EnablePublisherExtension, NEW o \in Operations
    PROVE  Route(Encode(o)) =
             IF o.method = "content" /\ o.media = "foreign" THEN "badRequest" ELSE o.method
BY DEF Operations, Encode, Route, EventRoute, ContentRoute, FormRoute

\* A hub that did not enable the extension calls no publisher callback, whatever
\* headers, media type and modes a request carries.
THEOREM ExtensionIsOptIn ==
    ASSUME ~EnablePublisherExtension, NEW p \in Posts
    PROVE  Route(p) \notin PublisherCallbacks
BY DEF Posts, Modes, Route, EventRoute, ContentRoute, FormRoute, PublisherCallbacks

\* A request with an X-Go-Publisher header is never taken for a subscription, an
\* unsubscription or a registration, whatever its body says.
THEOREM HeaderDecides ==
    ASSUME NEW p \in Posts, p.header # "none"
    PROVE  Route(p) \in {"event", "content", "badRequest"}
BY DEF Posts, Modes, Route, EventRoute, ContentRoute, FormRoute

\* The client reports success exactly for the results that mean it: safe, a 2xx
\* status other than 204 or none, and no body of the application's own but the
\* accepted form.  Every error and panic of a callback is a failure to the client.
THEOREM VerdictMatchesResult ==
    /\ \A callback \in PublisherCallbacks, result \in Results :
          Verdict(PublisherAnswer(callback, result)) = "nil"
            <=> /\ result.safe
                /\ result.status = 0 \/ result.status \in 200..299 \ {204}
                /\ result.body \in {"nil", "accepted"}
    /\ \A a \in {DeniedAnswer, ClosedAnswer, BadRequestAnswer} : Verdict(a) = "error"
<1>1. ASSUME NEW callback \in PublisherCallbacks, NEW result \in Results
      PROVE  Verdict(PublisherAnswer(callback, result)) = "nil"
               <=> /\ result.safe
                   /\ result.status = 0 \/ result.status \in 200..299 \ {204}
                   /\ result.body \in {"nil", "accepted"}
  <2>1. /\ result.status \in 0..999 /\ result.safe \in BOOLEAN
        /\ result.body \in {"nil", "accepted", "other"}
    BY DEF Results
  <2>2. CASE Valid(result)
    BY <2>1, <2>2 DEF Valid, PublisherAnswer, Write, HTTPAnswer, Verdict
  <2>3. CASE ~Valid(result)
    BY <2>1, <2>3 DEF Valid, PublisherAnswer, HTTPAnswer, Verdict
  <2> QED  BY <2>2, <2>3
<1> QED  BY <1>1 DEF DeniedAnswer, ClosedAnswer, BadRequestAnswer, HTTPAnswer, Verdict

\* A subscriber who is turned down before a job exists is never told that it was
\* accepted: a result that is not an admission, a denial, a redirect, an error and
\* a panic are all answered with a redirect or an error status.
THEOREM TurnedDownIsTold ==
    /\ \A result \in Results : ~Admitted(result) => ResultAnswer(result).status \in 400..599
    /\ \A refusal \in Refusals : RefusalAnswer(refusal).status \in 300..599
<1>1. ASSUME NEW result \in Results, ~Admitted(result)
      PROVE  ResultAnswer(result).status \in 400..599
  <2>1. result.status \in 0..999
    BY DEF Results
  <2>2. CASE TurnedDown(result)
    BY <2>1, <2>2 DEF TurnedDown, ResultAnswer, Write, HTTPAnswer
  <2>3. CASE ~TurnedDown(result)
    BY <2>3 DEF ResultAnswer, HTTPAnswer
  <2> QED  BY <2>2, <2>3
<1>2. ASSUME NEW refusal \in Refusals
      PROVE  RefusalAnswer(refusal).status \in 300..599
  <2>1. CASE refusal.kind = "redirect" /\ refusal.status \in {307, 308} /\ refusal.location
    BY <2>1 DEF RefusalAnswer, HTTPAnswer
  <2>2. CASE ~(refusal.kind = "redirect" /\ refusal.status \in {307, 308} /\ refusal.location)
    BY <2>2 DEF RefusalAnswer, HTTPAnswer
  <2> QED  BY <2>1, <2>2
<1> QED  BY <1>1, <1>2

-----------------------------------------------------------------------------
(* The process is a Handler with an environment.                           *)

LEMMA MainKeepsHandler == MainStep => [Next]_vars
<1> SUFFICES ASSUME MainStep PROVE [Next]_vars
  OBVIOUS
<1>1. ASSUME NEW c \in Closers, CloseHandler(c) PROVE Next
  BY <1>1 DEF CloseHandler, Next, CloserStep
<1>2. CASE \E c \in Closers : CloseHandler(c)
  BY <1>1, <1>2
<1>3. CASE ~\E c \in Closers : CloseHandler(c)
  BY <1>3 DEF MainStep, StartFails, StartApplication, BeginServing, WakeUp, WakeBySignal,
     WakeByServer, WakeByFailure, ShutdownDrains, ShutdownExpires, HandlerClosed,
     AppCloseReturns, AppCloseExpires
<1> QED  BY <1>2, <1>3

LEMMA PublisherKeepsHandler ==
    ASSUME NEW p \in Publishers, PublisherStep(p)
    PROVE  UNCHANGED vars
BY DEF PublisherStep, Send, TurnPublisherAway, EnterCallback, CallbackApplies, CallbackDenies,
   CallbackUnavailable, CallbackEnds, Learn, GiveUp

LEMMA HubStepKeepsHandler == [HubNext]_hubVars => [Next]_vars
<1> SUFFICES ASSUME [HubNext]_hubVars PROVE [Next]_vars
  OBVIOUS
<1>1. CASE MainStep
  BY <1>1, MainKeepsHandler
<1>2. CASE DeadlineExpires \/ Signal \/ ListenerFails \/ ReportFatal \/ AppEnds
  BY <1>2 DEF DeadlineExpires, Signal, ListenerFails, ReportFatal, AppEnds
<1>3. ASSUME NEW r \in Requests, RequestArrives(r) \/ ServeArrived(r) PROVE [Next]_vars
  BY <1>3 DEF RequestArrives, ServeArrived, Next
<1>4. ASSUME NEW w \in Workers, WorkerRuns(w) PROVE Next
  BY <1>4 DEF WorkerRuns, Next
<1>5. CASE ShutdownRuns
  BY <1>5 DEF ShutdownRuns, Next
<1>6. ASSUME NEW p \in Publishers, PublisherStep(p) PROVE UNCHANGED vars
  BY <1>6, PublisherKeepsHandler
<1>7. CASE UNCHANGED hubVars
  BY <1>7 DEF hubVars
<1> QED  BY <1>1, <1>2, <1>3, <1>4, <1>5, <1>6, <1>7 DEF HubNext

\* Whatever main, the server and the publishers do, the Handler inside a process
\* behaves as Handler says.
THEOREM ProcessRunsHandler == HubSpec => Spec
<1>1. HubInit => Init
  BY DEF HubInit
<1> QED  BY <1>1, HubStepKeepsHandler, PTL DEF HubSpec, Spec

-----------------------------------------------------------------------------
(* The shutdown.                                                           *)

\* The server that is quiet serves nobody; a shutdown that has not failed makes it
\* quiet before it closes the handler, and has every worker gone before it closes
\* the application; a consolidator has nobody to serve.
ProcessInv ==
    /\ main = "starting" => listener = "closed"
    /\ main \in {"starting", "serving"} => ~late /\ ~Closing
    /\ Closing => main \in {"closingApp", "exited"}
    /\ main = "closingHandler" => program # "consolidator"
    /\ listener = "quiet" => BeingServed = {}
    /\ main \in {"closingHandler", "closingApp"} => failed \/ listener = "quiet"
    /\ Closing => failed \/ program = "consolidator" \/ \A w \in Workers : phase[w] = "exited"
    /\ program = "consolidator" =>
          /\ arrived = {} /\ queue = <<>>
          /\ \A w \in Workers : phase[w] \in {"select", "exited"}
          /\ \A p \in Publishers : step[p] = "idle"
    /\ late => failed

\* What a step of the handler's goroutines can do to a process.
LEMMA ServedStaysServed ==
    ASSUME TypeOK, NEW q \in Requests, ServeRequest(q),
           NEW r \in Requests, serving[r] = "served"
    PROVE  serving'[r] = "served"
BY DEF TypeOK, ServeRequest, EnterOpen, EnterClosed, MarkVerified, Reject, BuildJob, Admit,
   RefuseAdmission, Respond, OpenGate, Answer

LEMMA ExitedStaysExited ==
    ASSUME TypeOK, NEW v \in Workers, WorkerStep(v),
           NEW w \in Workers, phase[w] = "exited"
    PROVE  phase'[w] = "exited"
BY DEF TypeOK, WorkerStep, WorkerOwnStep, ValidationReturns, HandoffReturns, TakeJob, WorkerExit,
   PassGate, AbandonAtGate, ValidationPasses, ValidationDenies, ValidationFails, IntentConfirmed,
   IntentFails, HandoffSucceeds, HandoffFails, Notify, FinishJob, MoveTo

LEMMA MainKeepsProcess ==
    ASSUME WorkInv, ShutdownInv, ProcessInv, MainStep
    PROVE  ProcessInv'
<1> USE DEF ProcessInv, Closing, BeingServed
<1>1. CASE StartFails \/ StartApplication \/ BeginServing
  BY <1>1 DEF StartFails, StartApplication, BeginServing, vars, requestVars, workerVars, outsideVars, publisherVars
<1>2. CASE WakeBySignal \/ WakeByServer \/ WakeByFailure
  BY <1>2 DEF WakeBySignal, WakeByServer, WakeByFailure, WakeUp, vars, requestVars, workerVars, publisherVars
<1>3. CASE ShutdownDrains \/ ShutdownExpires
  BY <1>3 DEF ShutdownDrains, ShutdownExpires, AfterShutdown, CallApplicationClose, vars,
     requestVars, workerVars, outsideVars, publisherVars
<1>4. ASSUME NEW c \in Closers, CloseHandler(c) PROVE ProcessInv'
  <2>1. UNCHANGED <<serving, phase>>
    BY <1>4 DEF CloseHandler, CloseCalled, CloseReturnsNil, CloseExpires, DrainOne, AccountDrained,
       CloseReturnsError, requestVars, workerVars
  <2> QED  BY <1>4, <2>1 DEF CloseHandler, mainVars, outsideVars, publisherVars
<1>5. CASE HandlerClosed
  <2>1. PICK c \in Closers : closer[c] \in {"nil", "expired"}
    <3>1. Closers # {}
      BY FS_EmptySet
    <3> QED  BY <3>1, <1>5 DEF HandlerClosed
  <2>2. closer[c] = "nil" => \A w \in Workers : phase[w] = "exited"
    BY DEF ShutdownInv
  <2> QED  BY <1>5, <2>1, <2>2 DEF HandlerClosed, CallApplicationClose, vars, requestVars,
           workerVars, outsideVars, publisherVars
<1>6. CASE AppCloseReturns \/ AppCloseExpires
  BY <1>6 DEF AppCloseReturns, AppCloseExpires, vars, requestVars, workerVars, outsideVars, publisherVars
<1> QED  BY <1>1, <1>2, <1>3, <1>4, <1>5, <1>6 DEF MainStep

LEMMA OutsideKeepsProcess ==
    ASSUME ProcessInv,
           \/ DeadlineExpires \/ Signal \/ ListenerFails \/ ReportFatal \/ AppEnds
           \/ \E r \in Requests : RequestArrives(r)
    PROVE  ProcessInv'
BY DEF ProcessInv, Closing, BeingServed, DeadlineExpires, Signal, ListenerFails, ReportFatal,
   AppEnds, RequestArrives, Reachable, vars, requestVars, workerVars, mainVars, outsideVars,
   publisherVars

LEMMA HandlerKeepsProcess ==
    ASSUME WorkInv, ProcessInv,
           \/ \E r \in Requests : ServeArrived(r)
           \/ \E w \in Workers : WorkerRuns(w)
           \/ ShutdownRuns
    PROVE  ProcessInv'
<1> USE DEF ProcessInv, Closing, BeingServed
<1>0. TypeOK
  BY DEF WorkInv
<1>1. ASSUME NEW q \in Requests, ServeArrived(q) PROVE ProcessInv'
  <2>1. /\ UNCHANGED phase /\ arrived # {}
        /\ \A r \in Requests : serving[r] = "served" => serving'[r] = "served"
    BY <1>0, <1>1, ServedStaysServed DEF ServeArrived, ServeRequest, EnterOpen, EnterClosed,
       MarkVerified, Reject, BuildJob, Admit, RefuseAdmission, Respond, OpenGate, workerVars
  <2> QED  BY <1>1, <2>1 DEF ServeArrived, mainVars, outsideVars, publisherVars
<1>2. ASSUME NEW v \in Workers, WorkerRuns(v) PROVE ProcessInv'
  <2>1. \A w \in Workers : phase[w] = "exited" => phase'[w] = "exited"
    BY <1>0, <1>2, ExitedStaysExited DEF WorkerRuns
  <2>2. UNCHANGED serving
    BY <1>2 DEF WorkerRuns, WorkerStep, WorkerOwnStep, ValidationReturns, HandoffReturns, TakeJob,
       WorkerExit, PassGate, AbandonAtGate, ValidationPasses, ValidationDenies, ValidationFails,
       IntentConfirmed, IntentFails, HandoffSucceeds, HandoffFails, Notify, FinishJob, requestVars
  <2>3. program = "consolidator" =>
          queue' = <<>> /\ \A w \in Workers : phase'[w] \in {"select", "exited"}
    BY <1>0, <1>2 DEF TypeOK, WorkerRuns, WorkerStep, WorkerOwnStep, ValidationReturns,
       HandoffReturns, TakeJob, WorkerExit, PassGate, AbandonAtGate, ValidationPasses,
       ValidationDenies, ValidationFails, IntentConfirmed, IntentFails, HandoffSucceeds,
       HandoffFails, Notify, FinishJob, MoveTo
  <2>4. InCallback(v) /\ Closing => failed
    BY DEF InCallback
  <2> QED  BY <1>2, <2>1, <2>2, <2>3, <2>4 DEF WorkerRuns, mainVars, outsideVars, publisherVars
<1>3. CASE ShutdownRuns
  BY <1>3 DEF ShutdownRuns, ShutdownStep, ShutdownJobsDone, ShutdownCancels, ShutdownCompletes,
     requestVars, workerVars, mainVars, outsideVars, publisherVars
<1> QED  BY <1>1, <1>2, <1>3

LEMMA PublisherKeepsProcess ==
    ASSUME ProcessInv, HubTypeOK, NEW p \in Publishers, PublisherStep(p)
    PROVE  ProcessInv'
<1> USE DEF ProcessInv, Closing, BeingServed
<1>1. UNCHANGED <<program, main, failed, listener, app, arrived, serving, queue, phase>>
  BY DEF PublisherStep, Send, TurnPublisherAway, EnterCallback, CallbackApplies, CallbackDenies,
     CallbackUnavailable, CallbackEnds, Learn, GiveUp, mainVars, outsideVars, vars, requestVars,
     workerVars
<1>2. CASE Send(p)
  BY <1>1, <1>2 DEF Send, Reachable
<1>3. CASE TurnPublisherAway(p) \/ EnterCallback(p)
  <2>1. step[p] = "arrived" /\ late' = late
           /\ \A q \in Publishers : step'[q] \in {"arrived", "calling"} => step[q] \in {"arrived", "calling"}
    BY <1>3 DEF HubTypeOK, TurnPublisherAway, EnterCallback, Answered
  <2>2. \A q \in Publishers : step[q] = "idle" => step'[q] = "idle"
    BY <1>3 DEF HubTypeOK, TurnPublisherAway, EnterCallback, Answered
  <2> QED  BY <1>1, <2>1, <2>2
<1>4. CASE CallbackApplies(p) \/ CallbackDenies(p) \/ CallbackUnavailable(p)
  <2>1. /\ step[p] = "calling" /\ late' = (late \/ Closing)
        /\ \A q \in Publishers : step'[q] \in {"arrived", "calling"} => step[q] \in {"arrived", "calling"}
        /\ \A q \in Publishers : step[q] = "idle" => step'[q] = "idle"
        /\ Running
    BY <1>4 DEF HubTypeOK, CallbackApplies, CallbackDenies, CallbackUnavailable, CallbackEnds, Answered
  <2>2. Closing => failed
    BY <2>1 DEF Running
  <2> QED  BY <1>1, <2>1, <2>2
<1>5. CASE Learn(p) \/ GiveUp(p)
  BY <1>1, <1>5 DEF Learn, GiveUp
<1> QED  BY <1>2, <1>3, <1>4, <1>5 DEF PublisherStep

-----------------------------------------------------------------------------
(* The answers.                                                            *)

LEMMA AnswersAreWellFormed ==
    /\ \A o \in Operations : Route(Encode(o)) \in PublisherCallbacks => Route(Encode(o)) = o.method
    /\ {DeniedAnswer, BadRequestAnswer, ClosedAnswer} \in SUBSET Answers
    /\ \A a \in {DeniedAnswer, BadRequestAnswer, ClosedAnswer} : Verdict(a) = "error"
    /\ \A callback \in PublisherCallbacks, status \in {0, 503}, body \in {"nil", "other"} :
          LET a == PublisherAnswer(callback, [status |-> status, body |-> body, safe |-> TRUE])
          IN  /\ a \in Answers
              /\ status = 503 => Verdict(a) = "error"
<1>1. \A o \in Operations : Route(Encode(o)) \in PublisherCallbacks => Route(Encode(o)) = o.method
  BY DEF Operations, Route, Encode, PublisherCallbacks, EventRoute, ContentRoute, FormRoute
<1>2. ASSUME NEW callback \in PublisherCallbacks, NEW status \in {0, 503}, NEW body \in {"nil", "other"}
      PROVE  LET a == PublisherAnswer(callback, [status |-> status, body |-> body, safe |-> TRUE])
             IN  /\ a \in Answers
                 /\ status = 503 => Verdict(a) = "error"
  BY DEF PublisherAnswer, Valid, Write, HTTPAnswer, Answers, Verdict, PublisherCallbacks
<1>3. ASSUME NEW status \in {400, 503}
      PROVE  HTTPAnswer(status, "other") \in Answers /\ Verdict(HTTPAnswer(status, "other")) = "error"
  BY DEF HTTPAnswer, Answers, Verdict
<1>4. \A a \in {DeniedAnswer, BadRequestAnswer, ClosedAnswer} : a \in Answers /\ Verdict(a) = "error"
  BY <1>3 DEF DeniedAnswer, BadRequestAnswer, ClosedAnswer
<1> QED  BY <1>1, <1>2, <1>3, <1>4

\* Only a callback that took effect is answered with what the client accepts.
PublisherInv ==
    \A p \in Publishers :
        /\ step[p] = "calling" => Callback(p) \in PublisherCallbacks
        /\ step[p] = "answered" /\ Verdict(answer[p]) = "nil" =>
              applied[p] = Callback(p) /\ Callback(p) \in PublisherCallbacks
        /\ verdict[p] = "nil" => step[p] = "answered" /\ Verdict(answer[p]) = "nil"

\* A publisher's step changes only its own row, and only as these lines say.
LEMMA PublisherRow ==
    ASSUME HubTypeOK, PublisherInv, NEW p \in Publishers, PublisherStep(p)
    PROVE  /\ op' = op
           /\ \A q \in Publishers \ {p} : /\ step'[q] = step[q] /\ applied'[q] = applied[q]
                                         /\ answer'[q] = answer[q] /\ verdict'[q] = verdict[q]
           /\ step' \in [Publishers -> {"idle", "arrived", "calling", "answered"}]
           /\ applied' \in [Publishers -> PublisherCallbacks \cup {"none"}]
           /\ answer' \in [Publishers -> Answers \cup {NoAnswer}]
           /\ verdict' \in [Publishers -> {"none", "nil", "error"}]
<1> USE DEF HubTypeOK, PublisherInv
<1>1. CASE Send(p) \/ EnterCallback(p)
  BY <1>1 DEF Send, EnterCallback
<1>2. CASE TurnPublisherAway(p)
  BY <1>2, AnswersAreWellFormed DEF TurnPublisherAway, Answered
<1>3. ASSUME NEW effect \in BOOLEAN, NEW a \in Answers, CallbackEnds(p, effect, a)
      PROVE  /\ op' = op /\ verdict' = verdict
             /\ \A q \in Publishers \ {p} : /\ step'[q] = step[q] /\ applied'[q] = applied[q]
                                           /\ answer'[q] = answer[q]
             /\ step' \in [Publishers -> {"idle", "arrived", "calling", "answered"}]
             /\ applied' \in [Publishers -> PublisherCallbacks \cup {"none"}]
             /\ answer' \in [Publishers -> Answers \cup {NoAnswer}]
  BY <1>3 DEF CallbackEnds, Answered
<1>4. CASE CallbackApplies(p) \/ CallbackUnavailable(p)
  <2>1. Callback(p) \in PublisherCallbacks
    BY <1>4 DEF CallbackApplies, CallbackUnavailable, CallbackEnds
  <2>2. PublisherAnswer(Callback(p), [status |-> 0, body |-> "nil", safe |-> TRUE]) \in Answers
    BY <2>1, AnswersAreWellFormed
  <2>3. PublisherAnswer(Callback(p), [status |-> 503, body |-> "other", safe |-> TRUE]) \in Answers
    BY <2>1, AnswersAreWellFormed
  <2>4. \E effect \in BOOLEAN, a \in Answers : CallbackEnds(p, effect, a)
    BY <1>4, <2>2, <2>3, Zenon DEF CallbackApplies, CallbackUnavailable
  <2> QED  BY <1>3, <2>4
<1>5. CASE CallbackDenies(p)
  BY <1>3, <1>5, AnswersAreWellFormed DEF CallbackDenies
<1>6. CASE Learn(p) \/ GiveUp(p)
  BY <1>6 DEF Learn, GiveUp, Verdict
<1> QED  BY <1>1, <1>2, <1>4, <1>5, <1>6 DEF PublisherStep

LEMMA PublisherKeepsAnswers ==
    ASSUME HubTypeOK, PublisherInv, NEW p \in Publishers, PublisherStep(p)
    PROVE  PublisherInv'
<1>1. /\ \A q \in Publishers : Callback(q)' = Callback(q)
      /\ \A q \in Publishers \ {p} : /\ step'[q] = step[q] /\ applied'[q] = applied[q]
                                    /\ answer'[q] = answer[q] /\ verdict'[q] = verdict[q]
  BY PublisherRow DEF Callback
<1>2. SUFFICES
          /\ step'[p] = "calling" => Callback(p) \in PublisherCallbacks
          /\ step'[p] = "answered" /\ Verdict(answer'[p]) = "nil" =>
                applied'[p] = Callback(p) /\ Callback(p) \in PublisherCallbacks
          /\ verdict'[p] = "nil" => step'[p] = "answered" /\ Verdict(answer'[p]) = "nil"
  BY <1>1 DEF PublisherInv
<1> USE DEF HubTypeOK, PublisherInv
<1>3. CASE Send(p) \/ EnterCallback(p)
  BY <1>3 DEF Send, EnterCallback
<1>4. CASE TurnPublisherAway(p)
  BY <1>4, AnswersAreWellFormed DEF TurnPublisherAway, Answered
<1>5. CASE CallbackApplies(p)
  BY <1>5 DEF CallbackApplies, CallbackEnds, Answered
<1>6. CASE CallbackDenies(p)
  BY <1>6, AnswersAreWellFormed DEF CallbackDenies, CallbackEnds, Answered
<1>7. CASE CallbackUnavailable(p)
  <2>1. Verdict(PublisherAnswer(Callback(p), [status |-> 503, body |-> "other", safe |-> TRUE])) = "error"
    BY <1>7, AnswersAreWellFormed DEF CallbackUnavailable, CallbackEnds
  <2> QED  BY <1>7, <2>1 DEF CallbackUnavailable, CallbackEnds, Answered
<1>8. CASE Learn(p) \/ GiveUp(p)
  BY <1>8 DEF Learn, GiveUp
<1> QED  BY <1>3, <1>4, <1>5, <1>6, <1>7, <1>8 DEF PublisherStep

-----------------------------------------------------------------------------
(* The invariant of a process.                                             *)

HubInv == HubTypeOK /\ ProcessInv /\ PublisherInv

LEMMA HubInitInv == HubInit => HubInv
<1> SUFFICES ASSUME HubInit PROVE HubInv
  OBVIOUS
<1>1. HubTypeOK
  BY DEF HubInit, HubTypeOK
<1>2. ProcessInv
  BY DEF HubInit, Init, ProcessInv, Closing, BeingServed
<1>3. PublisherInv
  BY DEF HubInit, PublisherInv
<1> QED  BY <1>1, <1>2, <1>3 DEF HubInv

LEMMA HubStepInv == WorkInv /\ ShutdownInv /\ HubInv /\ [HubNext]_hubVars => HubInv'
<1> SUFFICES ASSUME WorkInv, ShutdownInv, HubInv, [HubNext]_hubVars PROVE HubInv'
  OBVIOUS
<1> USE DEF HubInv
<1>1. ASSUME NEW p \in Publishers, PublisherStep(p) PROVE HubInv'
  <2>1. ProcessInv' /\ PublisherInv'
    BY <1>1, PublisherKeepsProcess, PublisherKeepsAnswers
  <2>2. UNCHANGED <<program, main, failed, listener, expired, app, signalled, reported, arrived>>
    BY <1>1 DEF PublisherStep, Send, TurnPublisherAway, EnterCallback, CallbackApplies,
       CallbackDenies, CallbackUnavailable, CallbackEnds, Learn, GiveUp, mainVars, outsideVars
  <2>3. late' \in BOOLEAN
    BY <1>1 DEF HubTypeOK, Closing, PublisherStep, Send, TurnPublisherAway, EnterCallback,
       CallbackApplies, CallbackDenies, CallbackUnavailable, CallbackEnds, Learn, GiveUp
  <2> QED  BY <1>1, <2>1, <2>2, <2>3, PublisherRow DEF HubTypeOK
<1>2. CASE \/ MainStep
           \/ DeadlineExpires \/ Signal \/ ListenerFails \/ ReportFatal \/ AppEnds
           \/ \E r \in Requests : RequestArrives(r) \/ ServeArrived(r)
           \/ \E w \in Workers : WorkerRuns(w)
           \/ ShutdownRuns
  <2>1. ProcessInv'
    BY <1>2, MainKeepsProcess, OutsideKeepsProcess, HandlerKeepsProcess
  <2>2. UNCHANGED publisherVars
    BY <1>2 DEF MainStep, StartFails, StartApplication, BeginServing, WakeBySignal, WakeByServer,
       WakeByFailure, WakeUp, ShutdownDrains, ShutdownExpires, CloseHandler, HandlerClosed,
       AppCloseReturns, AppCloseExpires, DeadlineExpires, Signal, ListenerFails, ReportFatal,
       AppEnds, RequestArrives, ServeArrived, WorkerRuns, ShutdownRuns
  <2>3. PublisherInv'
    BY <2>2 DEF PublisherInv, Callback, publisherVars
  <2>4. HubTypeOK'
    <3>1. CASE StartFails \/ StartApplication \/ BeginServing \/ AppCloseReturns \/ AppCloseExpires
      <4>1. CASE StartFails
        BY <2>2, <4>1 DEF HubTypeOK, publisherVars, StartFails, outsideVars
      <4>2. CASE StartApplication
        BY <2>2, <4>2 DEF HubTypeOK, publisherVars, StartApplication, outsideVars
      <4>3. CASE BeginServing
        BY <2>2, <4>3 DEF HubTypeOK, publisherVars, BeginServing, outsideVars
      <4>4. CASE AppCloseReturns
        BY <2>2, <4>4 DEF HubTypeOK, publisherVars, AppCloseReturns, outsideVars
      <4>5. CASE AppCloseExpires
        BY <2>2, <4>5 DEF HubTypeOK, publisherVars, AppCloseExpires, outsideVars
      <4> QED  BY <3>1, <4>1, <4>2, <4>3, <4>4, <4>5
    <3>2. CASE WakeBySignal \/ WakeByServer \/ WakeByFailure
      <4>1. ASSUME NEW asError \in BOOLEAN, WakeUp(asError), reported' \in BOOLEAN,
                   signalled' = signalled
            PROVE  HubTypeOK'
        BY <4>1, <2>2 DEF HubTypeOK, publisherVars, WakeUp
      <4>2. \E asError \in BOOLEAN : WakeUp(asError)
        BY <3>2 DEF WakeBySignal, WakeByServer, WakeByFailure
      <4>3. reported' \in BOOLEAN
        BY <3>2 DEF HubTypeOK, WakeBySignal, WakeByServer, WakeByFailure
      <4>4. signalled' = signalled
        BY <3>2 DEF WakeBySignal, WakeByServer, WakeByFailure, WakeUp
      <4> QED  BY <4>1, <4>2, <4>3, <4>4
    <3>3. CASE ShutdownDrains \/ ShutdownExpires \/ HandlerClosed
      <4>1. failed' \in BOOLEAN
        <5>1. failed \in BOOLEAN
          BY DEF HubTypeOK
        <5>2. CASE ShutdownDrains
          BY <5>1, <5>2 DEF ShutdownDrains
        <5>3. CASE ShutdownExpires
          BY <5>3 DEF ShutdownExpires
        <5>4. CASE HandlerClosed
          BY <5>1, <5>4 DEF HandlerClosed
        <5> QED  BY <3>3, <5>2, <5>3, <5>4
      <4> QED  BY <2>2, <3>3, <4>1 DEF HubTypeOK, publisherVars, ShutdownDrains, ShutdownExpires,
               AfterShutdown, CallApplicationClose, HandlerClosed, outsideVars
    <3>4. CASE DeadlineExpires \/ Signal \/ ListenerFails \/ ReportFatal \/ AppEnds
      <4>1. CASE DeadlineExpires
        BY <2>2, <4>1 DEF HubTypeOK, publisherVars, DeadlineExpires, outsideVars
      <4>2. CASE ListenerFails
        BY <2>2, <4>2 DEF HubTypeOK, publisherVars, ListenerFails, outsideVars
      <4>3. CASE AppEnds
        BY <2>2, <4>3 DEF HubTypeOK, publisherVars, AppEnds, outsideVars
      <4>4. CASE Signal
        BY <2>2, <4>4 DEF HubTypeOK, publisherVars, Signal, mainVars
      <4>5. CASE ReportFatal
        BY <2>2, <4>5 DEF HubTypeOK, publisherVars, ReportFatal, mainVars
      <4> QED  BY <3>4, <4>1, <4>2, <4>3, <4>4, <4>5
    <3>5. CASE \E c \in Closers : CloseHandler(c)
      BY <2>2, <3>5 DEF HubTypeOK, publisherVars, CloseHandler, mainVars, outsideVars
    <3>6. CASE (\E r \in Requests : RequestArrives(r) \/ ServeArrived(r)) \/ ShutdownRuns
      BY <2>2, <3>6 DEF HubTypeOK, publisherVars, RequestArrives, ServeArrived, ShutdownRuns,
         mainVars, outsideVars
    <3>7. CASE \E w \in Workers : WorkerRuns(w)
      <4>1. late' \in BOOLEAN
        BY <3>7 DEF WorkerRuns
      <4> QED  BY <2>2, <3>7, <4>1 DEF HubTypeOK, publisherVars, WorkerRuns, mainVars, outsideVars
    <3> QED  BY <1>2, <3>1, <3>2, <3>3, <3>4, <3>5, <3>6, <3>7 DEF MainStep
  <2> QED  BY <2>1, <2>3, <2>4
<1>3. CASE UNCHANGED hubVars
  BY <1>3 DEF hubVars, vars, requestVars, workerVars, mainVars, outsideVars, publisherVars,
     HubTypeOK, ProcessInv, PublisherInv, Closing, BeingServed, Callback
<1> QED  BY <1>1, <1>2, <1>3 DEF HubNext

LEMMA HubAlways == HubSpec => []HubInv
<1>1. HubSpec => []WorkInv /\ []ShutdownInv
  BY ProcessRunsHandler, InvariantsHold, PTL
<1> QED  BY <1>1, HubInitInv, HubStepInv, PTL DEF HubSpec

\* The variables of a process have their types.
THEOREM ProcessTypes == HubSpec => []HubTypeOK
BY HubAlways, PTL DEF HubInv

\* No callback outlives the call of application.Close but in a shutdown that ran
\* out of time and says so.
THEOREM ApplicationClosesLast == HubSpec => []ClosedApplicationIsNotCalled
BY HubAlways, PTL DEF HubInv, ProcessInv, ClosedApplicationIsNotCalled

\* nil from PublisherClient means that the callback of that operation took effect.
THEOREM VerdictsAreTruthful == HubSpec => []VerdictIsTruthful
<1>1. HubInv => VerdictIsTruthful
  BY AnswersAreWellFormed DEF HubInv, HubTypeOK, PublisherInv, VerdictIsTruthful, Callback
<1> QED  BY <1>1, HubAlways, PTL

-----------------------------------------------------------------------------
(* The exit code.                                                          *)

\* What a shutdown that has not failed has behind it.
CleanInv ==
    /\ ~failed => main \in {"starting", "serving"} \/ signalled
    /\ (main = "exited" /\ ~failed) => app = "done" /\ listener = "quiet"
    /\ (main \in {"closingApp", "exited"} /\ ~failed /\ program # "consolidator") =>
           \A c \in Closers : closer[c] = "nil"
    /\ program = "consolidator" => arrived = {}
    /\ \A r \in Requests : r \notin arrived => serving[r] = "new"

LEMMA CleanInit == HubInit => CleanInv
BY DEF HubInit, Init, CleanInv

LEMMA CleanStep == WorkInv /\ HubInv /\ CleanInv /\ [HubNext]_hubVars => CleanInv'
<1> SUFFICES ASSUME WorkInv, HubInv, CleanInv, [HubNext]_hubVars PROVE CleanInv'
  OBVIOUS
<1> USE DEF CleanInv
<1>0. TypeOK /\ HubTypeOK /\ ProcessInv
  BY DEF WorkInv, HubInv
<1>1. CASE StartFails \/ StartApplication \/ BeginServing
  BY <1>1 DEF StartFails, StartApplication, BeginServing, vars, requestVars, shutdownVars,
     outsideVars
<1>2. CASE WakeBySignal \/ WakeByServer \/ WakeByFailure
  BY <1>2 DEF WakeBySignal, WakeByServer, WakeByFailure, WakeUp, vars, requestVars, shutdownVars
<1>3. CASE ShutdownDrains \/ ShutdownExpires
  BY <1>3 DEF ShutdownDrains, ShutdownExpires, AfterShutdown, CallApplicationClose, vars,
     requestVars, shutdownVars, outsideVars
<1>4. ASSUME NEW c \in Closers, CloseHandler(c) PROVE CleanInv'
  <2>1. UNCHANGED serving
    BY <1>4 DEF CloseHandler, CloseCalled, CloseReturnsNil, CloseExpires, DrainOne, AccountDrained,
       CloseReturnsError, requestVars
  <2> QED
    BY <1>4, <2>1 DEF CloseHandler, mainVars, outsideVars
<1>5. CASE HandlerClosed
  <2>1. ~failed' => ~failed /\ \A c \in Closers : closer[c] = "nil"
    BY <1>5 DEF HandlerClosed
  <2> QED
    BY <1>5, <2>1 DEF HandlerClosed, CallApplicationClose, vars, requestVars, shutdownVars,
       outsideVars
<1>6. CASE AppCloseReturns \/ AppCloseExpires
  <2>1. CASE AppCloseReturns
    BY <1>0, <2>1 DEF AppCloseReturns, ProcessInv, vars, requestVars, shutdownVars, outsideVars
  <2>2. CASE AppCloseExpires
    BY <2>2 DEF AppCloseExpires, vars, requestVars, shutdownVars, outsideVars
  <2> QED
    BY <1>6, <2>1, <2>2
<1>7. CASE DeadlineExpires \/ Signal \/ ListenerFails \/ ReportFatal
  BY <1>7 DEF DeadlineExpires, Signal, ListenerFails, ReportFatal, Running, vars, requestVars,
     shutdownVars, mainVars, outsideVars
<1>8. CASE AppEnds
  BY <1>8 DEF AppEnds, Running, vars, requestVars, shutdownVars, outsideVars
<1>9. ASSUME NEW r \in Requests, RequestArrives(r) PROVE CleanInv'
  BY <1>9 DEF RequestArrives, Reachable, vars, requestVars, shutdownVars, mainVars
<1>10. ASSUME NEW r \in Requests, ServeArrived(r) PROVE CleanInv'
  <2>1. UNCHANGED closer /\ r \in arrived /\ \A q \in Requests \ {r} : serving'[q] = serving[q]
    BY <1>0, <1>10 DEF TypeOK, ServeArrived, ServeRequest, EnterOpen, EnterClosed, MarkVerified,
       Reject, BuildJob, Admit, RefuseAdmission, Respond, OpenGate, Answer, shutdownVars
  <2> QED
    BY <1>10, <2>1 DEF ServeArrived, mainVars, outsideVars
<1>11. ASSUME NEW w \in Workers, WorkerRuns(w) PROVE CleanInv'
  <2>1. UNCHANGED <<closer, serving>>
    BY <1>11 DEF WorkerRuns, WorkerStep, WorkerOwnStep, ValidationReturns, HandoffReturns, TakeJob,
       WorkerExit, PassGate, AbandonAtGate, ValidationPasses, ValidationDenies, ValidationFails,
       IntentConfirmed, IntentFails, HandoffSucceeds, HandoffFails, Notify, FinishJob,
       requestVars, shutdownVars
  <2> QED
    BY <1>11, <2>1 DEF WorkerRuns, mainVars, outsideVars
<1>12. CASE ShutdownRuns
  BY <1>12 DEF ShutdownRuns, ShutdownStep, ShutdownJobsDone, ShutdownCancels, ShutdownCompletes,
     requestVars, mainVars, outsideVars
<1>13. ASSUME NEW p \in Publishers, PublisherStep(p) PROVE CleanInv'
  <2>1. UNCHANGED <<vars, mainVars, outsideVars>>
    BY <1>13 DEF PublisherStep, Send, TurnPublisherAway, EnterCallback, CallbackApplies,
       CallbackDenies, CallbackUnavailable, CallbackEnds, Learn, GiveUp
  <2> QED
    BY <2>1 DEF vars, requestVars, shutdownVars, mainVars, outsideVars
<1>14. CASE UNCHANGED hubVars
  BY <1>14 DEF hubVars, vars, requestVars, shutdownVars, mainVars, outsideVars
<1> QED
  BY <1>1, <1>2, <1>3, <1>4, <1>5, <1>6, <1>7, <1>8, <1>9, <1>10, <1>11, <1>12, <1>13, <1>14
  DEF HubNext, MainStep

LEMMA CleanFromInv ==
    ASSUME ServiceInv, HubInv, CleanInv
    PROVE  CleanExitHonoursAccepted
<1> SUFFICES ASSUME main = "exited", ~failed
             PROVE  /\ signalled /\ app = "done" /\ BeingServed = {}
                    /\ \A r \in Requests : response[r] = "accepted" => outcome[r] \in RanToEnd
  BY DEF CleanExitHonoursAccepted
<1>1. signalled /\ app = "done" /\ BeingServed = {}
  BY DEF CleanInv, HubInv, ProcessInv
<1>2. CASE program = "consolidator"
  <2>1. \A r \in Requests : response[r] = "none"
    BY <1>2 DEF CleanInv, ServiceInv, AnswerInv
  <2> QED
    BY <1>1, <2>1
<1>3. CASE program # "consolidator"
  <2>1. \A c \in Closers : closer[c] = "nil"
    BY <1>3 DEF CleanInv
  <2>2. ExpiredClosers = {}
    BY <2>1 DEF ExpiredClosers
  <2>3. PICK c \in Closers : closer[c] = "nil"
    BY <2>1, FS_EmptySet, ProcessAssumption
  <2>4. shutdown = "done"
    BY <2>3 DEF ServiceInv, ShutdownInv
  <2> QED
    BY <1>1, <2>2, <2>4, HonouredFromInv DEF GracefulShutdownHonoursAccepted
<1> QED
  BY <1>2, <1>3

\* Exit code 0 is earned: somebody asked for the exit, the application finished,
\* nobody is still being served and every 202 was honoured.
THEOREM CleanExits == HubSpec => []CleanExitHonoursAccepted
<1>1. HubSpec => []WorkInv /\ []ServiceInv
  BY ProcessRunsHandler, InvariantsHold, ServiceInvHolds, PTL
<1>2. HubSpec => []CleanInv
  BY <1>1, HubAlways, CleanInit, CleanStep, PTL DEF HubSpec
<1> QED
  BY <1>1, <1>2, HubAlways, CleanFromInv, PTL

-----------------------------------------------------------------------------
(* The way to the exit.                                                    *)

LEMMA MainNearer ==
    ASSUME TypeOK, HubTypeOK, ProcessInv, MainStep
    PROVE  MainComesNearer
<1>1. CASE StartFails
  BY <1>1 DEF StartFails, MainComesNearer, MainStepsLeft, HubTypeOK
<1>2. CASE StartApplication
  BY <1>2 DEF StartApplication, MainComesNearer, MainStepsLeft
<1>3. CASE BeginServing
  BY <1>3 DEF BeginServing, MainComesNearer, MainStepsLeft
<1>4. CASE WakeBySignal \/ WakeByServer \/ WakeByFailure
  BY <1>4 DEF WakeBySignal, WakeByServer, WakeByFailure, WakeUp, MainComesNearer, MainStepsLeft
<1>5. CASE ShutdownDrains \/ ShutdownExpires
  <2>1. main = "shutting" /\ main' \in {"closingHandler", "closingApp"}
    BY <1>5 DEF ShutdownDrains, ShutdownExpires, AfterShutdown, CallApplicationClose
  <2> QED  BY <2>1 DEF MainComesNearer, MainStepsLeft
<1>6. ASSUME NEW c \in Closers, CloseHandler(c) PROVE MainComesNearer
  <2>1. main' = main /\ closer \in [Closers -> CloserSteps] /\ queue \in Seq(Requests)
    BY <1>6 DEF CloseHandler, mainVars, TypeOK
  <2>2. CASE CloseCalled(c)
    BY <2>1, <2>2 DEF CloseCalled, CloserGoes, MainComesNearer, CloseStepsLeft
  <2>3. CASE CloseReturnsNil(c)
    BY <2>1, <2>3 DEF CloseReturnsNil, CloserGoes, MainComesNearer, CloseStepsLeft
  <2>4. CASE CloseExpires(c)
    BY <2>1, <2>4 DEF CloseExpires, CloserGoes, MainComesNearer, CloseStepsLeft
  <2>5. CASE DrainOne(c)
    <3>1. closer[c] = "draining" /\ closer'[c] = "accounting" /\ queue # <<>> /\ queue' = Tail(queue)
      BY <2>1, <2>5 DEF DrainOne, CloserGoes
    <3>2. Len(queue') < Len(queue)
      BY <2>1, <3>1, HeadTailProperties, LenProperties
    <3> QED  BY <2>1, <3>1, <3>2 DEF MainComesNearer
  <2>6. CASE AccountDrained(c)
    BY <2>1, <2>6 DEF AccountDrained, CloserGoes, MainComesNearer
  <2>7. CASE CloseReturnsError(c)
    BY <2>1, <2>7 DEF CloseReturnsError, CloserGoes, MainComesNearer, CloseStepsLeft
  <2> QED  BY <1>6, <2>2, <2>3, <2>4, <2>5, <2>6, <2>7 DEF CloseHandler
<1>7. CASE HandlerClosed
  BY <1>7 DEF HandlerClosed, CallApplicationClose, MainComesNearer, MainStepsLeft
<1>8. CASE AppCloseReturns \/ AppCloseExpires
  BY <1>8 DEF AppCloseReturns, AppCloseExpires, MainComesNearer, MainStepsLeft
<1> QED  BY <1>1, <1>2, <1>3, <1>4, <1>5, <1>6, <1>7, <1>8 DEF MainStep

\* A step of anybody else.
LEMMA OthersKeepMain ==
    ASSUME HubTypeOK, ProcessInv, [HubNext]_hubVars, ~MainStep
    PROVE  /\ main' = main /\ closer' = closer
           /\ app' = app \/ (main = "closingApp" /\ app' \in {"closing", "done"})
           /\ Reason => Reason'
<1>1. CASE DeadlineExpires \/ Signal \/ ListenerFails \/ ReportFatal
  BY <1>1 DEF DeadlineExpires, Signal, ListenerFails, ReportFatal, Reason, mainVars, outsideVars,
     vars, shutdownVars
<1>2. CASE AppEnds
  BY <1>2 DEF AppEnds, Running, ProcessInv, Closing, Reason, outsideVars, vars, shutdownVars
<1>3. ASSUME NEW r \in Requests, RequestArrives(r) PROVE UNCHANGED <<mainVars, signalled, reported, closer>>
  BY <1>3 DEF RequestArrives, vars, shutdownVars
<1>4. ASSUME NEW r \in Requests, ServeArrived(r) PROVE UNCHANGED <<mainVars, signalled, reported, closer>>
  BY <1>4 DEF ServeArrived, ServeRequest, EnterOpen, EnterClosed, MarkVerified, Reject, BuildJob,
     Admit, RefuseAdmission, Respond, OpenGate, outsideVars, shutdownVars
<1>5. ASSUME NEW w \in Workers, WorkerRuns(w) PROVE UNCHANGED <<mainVars, signalled, reported, closer>>
  BY <1>5 DEF WorkerRuns, WorkerStep, WorkerOwnStep, ValidationReturns, HandoffReturns, TakeJob,
     WorkerExit, PassGate, AbandonAtGate, ValidationPasses, ValidationDenies, ValidationFails,
     IntentConfirmed, IntentFails, HandoffSucceeds, HandoffFails, Notify, FinishJob, outsideVars,
     shutdownVars
<1>6. CASE ShutdownRuns
  BY <1>6 DEF ShutdownRuns, ShutdownStep, ShutdownJobsDone, ShutdownCancels, ShutdownCompletes,
     Reason, mainVars, outsideVars
<1>7. ASSUME NEW p \in Publishers, PublisherStep(p) PROVE UNCHANGED <<mainVars, signalled, reported, closer>>
  BY <1>7 DEF PublisherStep, Send, TurnPublisherAway, EnterCallback, CallbackApplies, CallbackDenies,
     CallbackUnavailable, CallbackEnds, Learn, GiveUp, outsideVars, vars, shutdownVars
<1>8. CASE UNCHANGED hubVars
  BY <1>8 DEF hubVars, mainVars, outsideVars, vars, shutdownVars, Reason
<1>9. ASSUME UNCHANGED <<mainVars, signalled, reported, closer>>
      PROVE  /\ main' = main /\ closer' = closer /\ app' = app
             /\ Reason => Reason'
  BY <1>9 DEF mainVars, Reason
<1>10. CASE \E r \in Requests : RequestArrives(r) \/ ServeArrived(r)
  BY <1>3, <1>4, <1>9, <1>10
<1>11. CASE (\E w \in Workers : WorkerRuns(w)) \/ (\E p \in Publishers : PublisherStep(p))
  BY <1>5, <1>7, <1>9, <1>11
<1> QED  BY <1>1, <1>2, <1>6, <1>8, <1>10, <1>11, Zenon DEF HubNext

\* A reason to stop is not lost, every step of main brings it nearer to the exit and
\* no step of anybody else takes it back.
THEOREM StoppingOnlyAdvances == HubSpec => StoppingAdvances
<1> DEFINE Advance == /\ (Reason /\ main \in {"starting", "serving"}) =>
                            (Reason' \/ main' = "shutting" \/ main' = "exited")
                      /\ IF MainStep THEN MainComesNearer ELSE MainIsAsNear
<1>1. ASSUME ServiceInv, HubInv, HubNext PROVE Advance
  <2>1. TypeOK /\ WorkInv /\ HubTypeOK /\ ProcessInv /\ [Next]_vars
    BY <1>1, HubStepKeepsHandler DEF ServiceInv, WorkInv, HubInv
  <2>2. CASE MainStep
    <3>1. MainComesNearer
      BY <2>1, <2>2, MainNearer
    <3>2. ASSUME Reason, main \in {"starting", "serving"}
          PROVE  Reason' \/ main' = "shutting" \/ main' = "exited"
      <4>1. CASE StartApplication \/ BeginServing
        BY <2>1, <3>2, <4>1 DEF StartApplication, BeginServing, ProcessInv, Reason, outsideVars
      <4>2. CASE StartFails \/ WakeBySignal \/ WakeByServer \/ WakeByFailure
        BY <4>2 DEF StartFails, WakeBySignal, WakeByServer, WakeByFailure, WakeUp
      <4>3. CASE \/ ShutdownDrains \/ ShutdownExpires
                 \/ (\E c \in Closers : CloseHandler(c)) \/ HandlerClosed
                 \/ AppCloseReturns \/ AppCloseExpires
        BY <3>2, <4>3 DEF ShutdownDrains, ShutdownExpires, CloseHandler, HandlerClosed,
           AppCloseReturns, AppCloseExpires
      <4> QED  BY <2>2, <4>1, <4>2, <4>3 DEF MainStep
    <3> QED  BY <2>2, <3>1, <3>2
  <2>3. CASE ~MainStep
    <3>1. /\ main' = main /\ closer' = closer
          /\ app' = app \/ (main = "closingApp" /\ app' \in {"closing", "done"})
          /\ Reason => Reason'
      BY <1>1, <2>1, <2>3, OthersKeepMain
    <3>2. MainStepsLeft(main', app') = MainStepsLeft(main, app)
      BY <3>1 DEF MainStepsLeft
    <3>3. (\E c \in Closers : closer[c] # "idle") => Len(queue') <= Len(queue)
      BY <1>1, <2>1, ClosedStep DEF ServiceInv, OutcomeInv
    <3> QED  BY <2>3, <3>1, <3>2, <3>3 DEF MainIsAsNear
  <2> QED  BY <2>2, <2>3
<1>2. HubSpec => []ServiceInv
  BY ProcessRunsHandler, ServiceInvHolds, PTL
<1>3. ServiceInv /\ HubInv /\ [HubNext]_hubVars => [Advance]_hubVars
  BY <1>1
<1> QED  BY <1>2, <1>3, HubAlways, PTL DEF HubSpec, StoppingAdvances

\* Once main has a reason to stop it waits for nothing but its deadline: once that
\* has passed no request, callback, worker, job or application goroutine holds it.
THEOREM OnlyTimeHolds == HubSpec => []OnlyTimeHoldsMain
<1>1. TypeOK /\ HubTypeOK => OnlyTimeHoldsMain
  <2> SUFFICES ASSUME TypeOK, HubTypeOK, Running, main = "serving" => Reason,
                      main \in {"shutting", "closingHandler", "closingApp"} => expired
               PROVE  MainCanMove
    BY DEF OnlyTimeHoldsMain
  <2>1. \A c \in Closers : main = "closingHandler" => CloseCanMove(c)
    BY DEF TypeOK, CloserSteps, CloseCanMove
  <2> QED  BY <2>1 DEF HubTypeOK, Running, MainCanMove
<1>2. HubSpec => []TypeOK
  BY ProcessRunsHandler, HandlerTypes, PTL
<1> QED  BY <1>1, <1>2, ProcessTypes, PTL
=============================================================================
