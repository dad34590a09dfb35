\* Liveness, refinement included; each property names the fairness it needs, so
\* that callbacks and writers hang in some behaviours.  External verification.
SPECIFICATION Spec
CONSTANTS
    Requests = {r1, r2}
    Workers = {w1, w2}
    Closers = {c1}
    QueueCap = 1
    AllowExternalVerification = TRUE
    EnableHubErrorCallback = TRUE
    NoJob = NoJob
INVARIANTS
    HandoffIsAuthorised
PROPERTIES
    CloseReturns
    ExpiredCloseRecovers
    ImplementsLiveService
CHECK_DEADLOCK FALSE
