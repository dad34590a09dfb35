------------------------------ MODULE HubProcess ------------------------------
(***************************************************************************)
(* One process of the repository: the in-memory hub, the Kafka hub or the  *)
(* consolidator, from main to its exit (the three run functions), with its *)
(* http.Server, the Handler mounted on it and the publishers that call it. *)
(*                                                                         *)
(* The handler's goroutines are those of Handler; what they do here they   *)
(* do only while the process lives, and a request is served only after it  *)
(* arrived at the server.  http.Server is external: Shutdown stops the     *)
(* listener and returns nil only when no request is being served and no    *)
(* connection is left on which another could come.                         *)
(***************************************************************************)
EXTENDS Handler, Exchange

CONSTANT Publishers     \* one PublisherClient call each

\* The mains' configuration, and the one caller of handler.Close they have.
ASSUME ProcessAssumption ==
    /\ IsFiniteSet(Publishers)
    /\ Cardinality(Closers) = 1
    /\ ~AllowExternalVerification
    /\ EnablePublisherExtension

VARIABLES
    program,    \* which main runs
    main,       \* the step it is at
    failed,     \* what run returns is an error: the exit code is 1
    signalled,  \* rootContext is done: an interrupt or a SIGTERM
    listener,   \* the http.Server
    reported,   \* the buffered channel application.Errors() holds an error
    expired,    \* shutdownContext is done
    app,        \* the application object
    arrived,    \* subscribe and unsubscribe requests that reached the server
    late,       \* a callback ended after application.Close was called
    op,         \* op[p]: the operation p asks for
    step,       \* step[p]: where its request is
    applied,    \* applied[p]: the callback that took effect for it
    answer,     \* answer[p]: what the server answered
    verdict     \* verdict[p]: what the client's method returned

mainVars      == <<program, main, failed, listener, expired, app>>
outsideVars   == <<signalled, reported, arrived>>
publisherVars == <<op, step, applied, answer, verdict>>
hubVars       == <<vars, mainVars, outsideVars, late, publisherVars>>

NoAnswer == HTTPAnswer(0, "none")

HubTypeOK ==
    /\ program \in {"memory", "kafka", "consolidator"}
    /\ main \in {"starting", "serving", "shutting", "closingHandler", "closingApp", "exited"}
    /\ failed \in BOOLEAN /\ signalled \in BOOLEAN
    /\ listener \in {"closed", "open", "failed", "draining", "quiet"}
    /\ reported \in BOOLEAN /\ expired \in BOOLEAN /\ late \in BOOLEAN
    /\ app \in {"none", "open", "closing", "done"}
    /\ arrived \in SUBSET Requests
    /\ op \in [Publishers -> Operations]
    /\ step \in [Publishers -> {"idle", "arrived", "calling", "answered"}]
    /\ applied \in [Publishers -> PublisherCallbacks \cup {"none"}]
    /\ answer \in [Publishers -> Answers \cup {NoAnswer}]
    /\ verdict \in [Publishers -> {"none", "nil", "error"}]

HubInit ==
    /\ Init
    /\ program \in {"memory", "kafka", "consolidator"}
    /\ main = "starting"
    /\ failed = FALSE /\ signalled = FALSE
    /\ listener = "closed"
    /\ reported = FALSE /\ expired = FALSE /\ late = FALSE
    /\ app = "none"
    /\ arrived = {}
    /\ op \in [Publishers -> Operations]
    /\ step = [p \in Publishers |-> "idle"]
    /\ applied = [p \in Publishers |-> "none"]
    /\ answer = [p \in Publishers |-> NoAnswer]
    /\ verdict = [p \in Publishers |-> "none"]

Running == main # "exited"

\* application.Close was called.
Closing == app \in {"closing", "done"}

-----------------------------------------------------------------------------
(* Around the process.                                                     *)

Signal ==
    /\ main \notin {"starting", "exited"}
    /\ ~signalled
    /\ signalled' = TRUE
    /\ UNCHANGED <<vars, mainVars, reported, arrived, late, publisherVars>>

\* ListenAndServe returns an error; connections it accepted are still served.
ListenerFails ==
    /\ Running
    /\ listener = "open"
    /\ listener' = "failed"
    /\ UNCHANGED <<vars, program, main, failed, expired, app, outsideVars, late, publisherVars>>

\* The consumer of the state events fails, perhaps before main selects; publishing
\* goes on.  A second error finds the buffer full and is dropped.
ReportFatal ==
    /\ Running
    /\ program # "memory"
    /\ app = "open"
    /\ ~reported
    /\ reported' = TRUE
    /\ UNCHANGED <<vars, mainVars, signalled, arrived, late, publisherVars>>

\* The 15 seconds that Shutdown and both Closes share are over.
DeadlineExpires ==
    /\ main \in {"shutting", "closingHandler", "closingApp"}
    /\ ~expired
    /\ expired' = TRUE
    /\ UNCHANGED <<vars, program, main, failed, listener, app, outsideVars, late, publisherVars>>

\* The server reads a request; one that is being connected may still come in
\* after Shutdown gave up, none after it returned nil.
Reachable == Running /\ program # "consolidator" /\ listener \in {"open", "failed", "draining"}

RequestArrives(r) ==
    /\ Reachable
    /\ r \notin arrived
    /\ arrived' = arrived \cup {r}
    /\ UNCHANGED <<vars, mainVars, signalled, reported, late, publisherVars>>

Send(p) ==
    /\ Reachable
    /\ step[p] = "idle"
    /\ verdict[p] = "none"
    /\ step' = [step EXCEPT ![p] = "arrived"]
    /\ UNCHANGED <<vars, mainVars, outsideVars, late, op, applied, answer, verdict>>

-----------------------------------------------------------------------------
(* main                                                                    *)

\* Configuration, the broker, the snapshot, the replay or NewHandler fails.
StartFails ==
    /\ main = "starting"
    /\ main' = "exited"
    /\ failed' = TRUE
    /\ UNCHANGED <<vars, program, listener, expired, app, outsideVars, late, publisherVars>>

\* newMemoryHub, kafkahub.New or consolidator.New.
StartApplication ==
    /\ main = "starting"
    /\ app = "none"
    /\ app' = "open"
    /\ UNCHANGED <<vars, program, main, failed, listener, expired, outsideVars, late, publisherVars>>

BeginServing ==
    /\ main = "starting"
    /\ app = "open"
    /\ main' = "serving"
    /\ listener' = "open"
    /\ UNCHANGED <<vars, program, failed, expired, app, outsideVars, late, publisherVars>>

\* The select on rootContext, serverResult and application.Errors(), which picks
\* any that is ready, and the call of Shutdown.
WakeUp(asError) ==
    /\ main = "serving"
    /\ main' = "shutting"
    /\ listener' = "draining"
    /\ failed' = asError
    /\ UNCHANGED <<vars, program, expired, app, signalled, arrived, late, publisherVars>>

WakeBySignal  == signalled /\ WakeUp(FALSE) /\ UNCHANGED reported
WakeByServer  == listener = "failed" /\ WakeUp(TRUE) /\ UNCHANGED reported
WakeByFailure == reported /\ WakeUp(TRUE) /\ reported' = FALSE

\* application.Close: the memory hub refuses updates, the others cancel their
\* context and close the broker's client.
CallApplicationClose == main' = "closingApp" /\ app' = "closing"

\* server.Shutdown returned; the consolidator has no handler to close.
AfterShutdown ==
    IF program = "consolidator" THEN CallApplicationClose
    ELSE main' = "closingHandler" /\ UNCHANGED app

BeingServed ==
    {r \in Requests : r \in arrived /\ serving[r] # "served"}
        \cup {p \in Publishers : step[p] \in {"arrived", "calling"}}

\* Mutant of ShutdownDrains: requests that are being served are not waited for.
ShutdownCloses ==
    /\ main = "shutting"
    /\ AfterShutdown
    /\ listener' = "quiet"
    /\ UNCHANGED <<vars, program, failed, expired, outsideVars, late, publisherVars>>

ShutdownDrains ==
    /\ main = "shutting"
    /\ BeingServed = {}
    /\ AfterShutdown
    /\ listener' = "quiet"
    /\ UNCHANGED <<vars, program, failed, expired, outsideVars, late, publisherVars>>

ShutdownExpires ==
    /\ main = "shutting"
    /\ expired
    /\ AfterShutdown
    /\ failed' = TRUE
    /\ UNCHANGED <<vars, program, listener, expired, outsideVars, late, publisherVars>>

\* handler.Close, called and run by main.
CloseHandler(c) ==
    /\ main = "closingHandler"
    /\ \/ CloseCalled(c) \/ CloseReturnsNil(c)
       \/ expired /\ CloseExpires(c)
       \/ DrainOne(c) \/ AccountDrained(c) \/ CloseReturnsError(c)
    /\ UNCHANGED <<mainVars, outsideVars, late, publisherVars>>

\* Mutant of HandlerClosed: its error is not joined.
HandlerClosedQuietly ==
    /\ main = "closingHandler"
    /\ \A c \in Closers : closer[c] \in {"nil", "expired"}
    /\ CallApplicationClose
    /\ UNCHANGED <<vars, program, failed, listener, expired, outsideVars, late, publisherVars>>

HandlerClosed ==
    /\ main = "closingHandler"
    /\ \A c \in Closers : closer[c] \in {"nil", "expired"}
    /\ CallApplicationClose
    /\ failed' = (failed \/ \E c \in Closers : closer[c] = "expired")
    /\ UNCHANGED <<vars, program, listener, expired, outsideVars, late, publisherVars>>

AppCloseReturns ==
    /\ main = "closingApp"
    /\ app = "done"
    /\ main' = "exited"
    /\ UNCHANGED <<vars, program, failed, listener, expired, app, outsideVars, late, publisherVars>>

\* Mutant of AppCloseExpires: the application is closed with no deadline.
AppCloseWaits ==
    /\ main = "closingApp" /\ expired /\ app = "done"
    /\ main' = "exited"
    /\ failed' = TRUE
    /\ UNCHANGED <<vars, program, listener, expired, app, outsideVars, late, publisherVars>>

AppCloseExpires ==
    /\ main = "closingApp"
    /\ expired
    /\ main' = "exited"
    /\ failed' = TRUE
    /\ UNCHANGED <<vars, program, listener, expired, app, outsideVars, late, publisherVars>>

MainStep ==
    \/ StartFails \/ StartApplication \/ BeginServing
    \/ WakeBySignal \/ WakeByServer \/ WakeByFailure
    \/ ShutdownDrains \/ ShutdownExpires
    \/ (\E c \in Closers : CloseHandler(c)) \/ HandlerClosed
    \/ AppCloseReturns \/ AppCloseExpires

\* The application's goroutines have ended.
AppEnds ==
    /\ Running
    /\ app = "closing"
    /\ app' = "done"
    /\ UNCHANGED <<vars, program, main, failed, listener, expired, outsideVars, late, publisherVars>>

-----------------------------------------------------------------------------
(* The handler's goroutines.                                               *)

ServeArrived(r) ==
    /\ Running
    /\ r \in arrived
    /\ ServeRequest(r)
    /\ UNCHANGED <<mainVars, outsideVars, late, publisherVars>>

InCallback(w) == phase[w] \in {"validate", "handoff"}

\* The Kafka hub cannot publish a verified subscription once its client is closed.
WorkerRuns(w) ==
    /\ Running
    /\ WorkerStep(w)
    /\ late' = (late \/ (InCallback(w) /\ Closing))
    /\ (program = "kafka" /\ Closing /\ phase[w] = "handoff")
           => outcome'[job[w]] = "verifiedFailed"
    /\ UNCHANGED <<mainVars, outsideVars, publisherVars>>

ShutdownRuns ==
    /\ Running
    /\ ShutdownStep
    /\ UNCHANGED <<mainVars, outsideVars, late, publisherVars>>

-----------------------------------------------------------------------------
(* The request of publisher p, on its ServeHTTP goroutine.                 *)

Callback(p) == Route(Encode(op[p]))

\* Moves the request of p to its end with the answer a.
Answered(p, a) ==
    /\ step' = [step EXCEPT ![p] = "answered"]
    /\ answer' = [answer EXCEPT ![p] = a]

\* The handler is closed, the body is too large or cut, or no callback serves it.
TurnPublisherAway(p) ==
    /\ Running
    /\ step[p] = "arrived"
    /\ \E a \in {BadRequestAnswer} \cup (IF closed THEN {ClosedAnswer} ELSE {}) : Answered(p, a)
    /\ UNCHANGED <<vars, mainVars, outsideVars, late, op, applied, verdict>>

\* Past isClosed; the body is read and the callback called without looking again.
EnterCallback(p) ==
    /\ Running
    /\ step[p] = "arrived"
    /\ ~closed
    /\ Callback(p) \in PublisherCallbacks
    /\ step' = [step EXCEPT ![p] = "calling"]
    /\ UNCHANGED <<vars, mainVars, outsideVars, late, op, applied, answer, verdict>>

\* The callback of p ends with the answer a, having had its effect or not.
CallbackEnds(p, effect, a) ==
    /\ Running
    /\ step[p] = "calling"
    /\ Answered(p, a)
    /\ applied' = IF effect THEN [applied EXCEPT ![p] = Callback(p)] ELSE applied
    /\ late' = (late \/ Closing)
    /\ UNCHANGED <<vars, mainVars, outsideVars, op, verdict>>

\* A memory hub that is closing still changes its topics; every other effect is a
\* send on a channel or a record, possible only while the application is open.
EffectPossible(p) ==
    ~Closing \/ (program = "memory" /\ Callback(p) \in {"register", "deregister"})

CallbackApplies(p) ==
    /\ EffectPossible(p)
    /\ CallbackEnds(p, TRUE, PublisherAnswer(Callback(p), [status |-> 0, body |-> "nil", safe |-> TRUE]))

\* Denied, failed or panicked; a record may have been written by then.
CallbackDenies(p) ==
    \E effect \in BOOLEAN :
        /\ effect => program = "kafka" /\ EffectPossible(p)
        /\ CallbackEnds(p, effect, DeniedAnswer)

\* unavailable: the memory hub is closing, or its queue of updates is full.
CallbackUnavailable(p) ==
    /\ program = "memory"
    /\ Callback(p) \in {"event", "content"}
    /\ CallbackEnds(p, FALSE, PublisherAnswer(Callback(p), [status |-> 503, body |-> "other", safe |-> TRUE]))

-----------------------------------------------------------------------------
(* The client's side.                                                      *)

\* The answer arrives.
Learn(p) ==
    /\ step[p] = "answered"
    /\ verdict[p] = "none"
    /\ verdict' = [verdict EXCEPT ![p] = Verdict(answer[p])]
    /\ UNCHANGED <<vars, mainVars, outsideVars, late, op, step, applied, answer>>

\* The connection fails, the answer is lost or too large, or the client's
\* timeout or context ends: nothing is tried again.
GiveUp(p) ==
    /\ verdict[p] = "none"
    /\ verdict' = [verdict EXCEPT ![p] = "error"]
    /\ UNCHANGED <<vars, mainVars, outsideVars, late, op, step, applied, answer>>

PublisherStep(p) ==
    \/ Send(p) \/ TurnPublisherAway(p) \/ EnterCallback(p)
    \/ CallbackApplies(p) \/ CallbackDenies(p) \/ CallbackUnavailable(p)
    \/ Learn(p) \/ GiveUp(p)

HubNext ==
    \/ MainStep \/ DeadlineExpires
    \/ Signal \/ ListenerFails \/ ReportFatal \/ AppEnds
    \/ \E r \in Requests : RequestArrives(r) \/ ServeArrived(r)
    \/ \E w \in Workers : WorkerRuns(w)
    \/ ShutdownRuns
    \/ \E p \in Publishers : PublisherStep(p)

HubSpec == HubInit /\ [][HubNext]_hubVars

\* main's goroutine runs and time passes; nobody else is assumed to move.
MainRuns == WF_hubVars(MainStep) /\ WF_hubVars(DeadlineExpires)
=============================================================================
