------------------------- MODULE HubProcessProperties -------------------------
(***************************************************************************)
(* What a process of the repository promises its operator, its subscribers *)
(* and its publishers.                                                     *)
(***************************************************************************)
EXTENDS HubProcess, HandlerProperties

\* Exit code 0 means that somebody asked for it and that nothing was cut off:
\* every subscriber that was answered 202 had its verification run to an end,
\* every publisher was answered, and the application finished its own work.
\* The three errors of the shutdown and the order of its three calls decide it.
CleanExitHonoursAccepted ==
    (main = "exited" /\ ~failed) =>
        /\ signalled
        /\ app = "done"
        /\ \A r \in Requests : response[r] = "accepted" => outcome[r] \in RanToEnd
        /\ BeingServed = {}

\* No callback is running any more when application.Close is called, although
\* the handler counts only verification jobs and not the publishers' requests,
\* unless the shutdown ran out of time, which the exit code tells.
ClosedApplicationIsNotCalled == late => failed

\* A method of PublisherClient returns nil only when the callback of that very
\* operation took effect at the hub, whatever was lost, refused, denied or
\* overtaken by the shutdown on the way.
VerdictIsTruthful ==
    \A p \in Publishers : verdict[p] = "nil" => applied[p] = op[p].method

-----------------------------------------------------------------------------
(* What stopping rests on besides fairness                                 *)

\* What the select of run waits for.
Reason == signalled \/ listener = "failed" \/ reported

\* Where main can go on: the guards of its actions.
CloseCanMove(c) ==
    \/ closer[c] \in {"idle", "draining", "accounting", "nil", "expired"}
    \/ closer[c] = "waiting" /\ (shutdown = "done" \/ expired)

MainCanMove ==
    \/ main = "starting"
    \/ main = "serving" /\ Reason
    \/ main = "shutting" /\ (BeingServed = {} \/ expired)
    \/ main = "closingHandler" /\ \A c \in Closers : CloseCanMove(c)
    \/ main = "closingApp" /\ (app = "done" \/ expired)

\* Only time holds main once it has a reason to stop: with the deadline passed it
\* can go on wherever it is, whoever is being served, runs a callback or ends.
OnlyTimeHoldsMain ==
    (Running /\ (main = "serving" => Reason)) =>
        \/ MainCanMove
        \/ main \in {"shutting", "closingHandler", "closingApp"} /\ ~expired

MainStepsLeft(m, a) ==
    CASE m = "starting" /\ a = "none" -> 6 [] m = "starting" /\ a # "none" -> 5
      [] m = "serving" -> 4 [] m = "shutting" -> 3 [] m = "closingHandler" -> 2
      [] m = "closingApp" -> 1 [] m = "exited" -> 0
CloseStepsLeft(s) ==
    CASE s = "idle" -> 3 [] s = "waiting" -> 2
      [] s \in {"draining", "accounting"} -> 1 [] s \in {"nil", "expired"} -> 0

\* main makes a step of run, or one of handler.Close, whose loop drains the queue.
MainComesNearer ==
    \/ MainStepsLeft(main', app') < MainStepsLeft(main, app)
    \/ /\ main' = main
       /\ \E c \in Closers :
            \/ CloseStepsLeft(closer'[c]) < CloseStepsLeft(closer[c])
            \/ /\ closer[c] = "draining" /\ closer'[c] = "accounting"
               /\ Len(queue') < Len(queue)
            \/ closer[c] = "accounting" /\ closer'[c] = "draining" /\ queue' = queue

\* Whoever else moves takes no step of main back and gives it nothing more to drain.
MainIsAsNear ==
    /\ MainStepsLeft(main', app') = MainStepsLeft(main, app)
    /\ closer' = closer
    /\ (\E c \in Closers : closer[c] # "idle") => Len(queue') <= Len(queue)

\* A reason to stop that came before main is waiting for it is not lost, and from
\* start to exit main only advances: no request, worker, application goroutine or
\* publisher prolongs what it has to do.
StoppingAdvances ==
    [][/\ (Reason /\ main \in {"starting", "serving"}) => (Reason' \/ main' = "shutting" \/ main' = "exited")
       /\ IF MainStep THEN MainComesNearer ELSE MainIsAsNear]_hubVars

-----------------------------------------------------------------------------
(* Liveness                                                                *)

\* Once there is a reason to stop the process stops: no subscriber, publisher,
\* callback, worker or application goroutine can hold it, and a failure that is
\* reported before main waits for it is not lost.
StopsInTime ==
    MainRuns => (Reason ~> main = "exited")
=============================================================================
