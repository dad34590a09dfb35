\* The three programs, one subscriber and one publisher.
SPECIFICATION HubSpec
CONSTANTS
    Requests = {r1}
    Workers = {w1}
    Closers = {main}
    QueueCap = 1
    AllowExternalVerification = FALSE
    EnableHubErrorCallback = FALSE
    NoJob = NoJob
    EnablePublisherExtension = TRUE
    Publishers = {p1}
INVARIANTS
    HubTypeOK
    CleanExitHonoursAccepted
    ClosedApplicationIsNotCalled
    VerdictIsTruthful
PROPERTIES
    StopsInTime
CONSTRAINT Explored
CHECK_DEADLOCK FALSE
