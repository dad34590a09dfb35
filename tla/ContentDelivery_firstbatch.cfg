\* The first batch of a group fails before anything is committed.
SPECIFICATION Spec
CONSTANTS
    DeliveryAttempts = 2
    MaxContentBatchRecords = 3
    NoOffset = NoOffset
    MaxContent = 5
    MaxFailures = 5
INVARIANTS
    NothingSkipped
CHECK_DEADLOCK FALSE
