\* Safety and action properties; symmetric goroutines.
SPECIFICATION Spec
CONSTANTS
    Requests = {r1, r2, r3}
    Workers = {w1, w2}
    Closers = {c1, c2}
    QueueCap = 1
    AllowExternalVerification = FALSE
    EnableHubErrorCallback = TRUE
    NoJob = NoJob
SYMMETRY HandlerSymmetry
INVARIANTS
    TypeOK
    WorkIsAccounted
    OwnedOnceOrNever
    WorkFollowsResponse
    GracefulShutdownHonoursAccepted
    ShutdownIsQuiescent
PROPERTIES
    NilMeansSilence
    ImplementsService
CHECK_DEADLOCK FALSE
