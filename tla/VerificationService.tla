------------------------- MODULE VerificationService -------------------------
(***************************************************************************)
(* What a websubhub.Handler promises the requests it serves, without its   *)
(* goroutines: a request is answered 202 and owned by the handler, or it   *)
(* is turned away; what is owned is settled once, is never more than       *)
(* Capacity, and Close reports completion only when nothing is owned.      *)
(* Handler.tla is shown to implement this module.                          *)
(***************************************************************************)
EXTENDS Naturals, FiniteSets

CONSTANTS
    Requests,   \* subscribe and unsubscribe requests
    Capacity    \* most requests the handler ever owns at once

VARIABLES
    open,       \* new requests may still be admitted
    standing,   \* standing[r]: where request r stands with the service
    finished    \* shutdown has completed

vars == <<open, standing, finished>>

Owned == {r \in Requests : standing[r] = "owned"}

Init ==
    /\ open = TRUE
    /\ standing = [r \in Requests |-> "outside"]
    /\ finished = FALSE

\* The handler takes responsibility for r.
Accept(r) ==
    /\ open
    /\ standing[r] = "outside"
    /\ Cardinality(Owned) < Capacity
    /\ standing' = [standing EXCEPT ![r] = "owned"]
    /\ UNCHANGED <<open, finished>>

\* r is answered with an error: closed, full, or rejected by the application.
TurnAway(r) ==
    /\ standing[r] = "outside"
    /\ standing' = [standing EXCEPT ![r] = "turnedAway"]
    /\ UNCHANGED <<open, finished>>

\* The work of r ended: verified, failed, abandoned or drained by shutdown.
Settle(r) ==
    /\ standing[r] = "owned"
    /\ standing' = [standing EXCEPT ![r] = "settled"]
    /\ UNCHANGED <<open, finished>>

StopAdmission ==
    /\ open
    /\ open' = FALSE
    /\ UNCHANGED <<standing, finished>>

Finish ==
    /\ ~open
    /\ ~finished
    /\ Owned = {}
    /\ finished' = TRUE
    /\ UNCHANGED <<open, standing>>

Next ==
    \/ \E r \in Requests : Accept(r) \/ TurnAway(r) \/ Settle(r)
    \/ StopAdmission
    \/ Finish

Spec == Init /\ [][Next]_vars

\* What the service owes: what it owns is settled, and a service that takes
\* nothing more and owns nothing finishes.
Fairness ==
    /\ \A r \in Requests : WF_vars(Settle(r))
    /\ WF_vars(Finish)
=============================================================================
