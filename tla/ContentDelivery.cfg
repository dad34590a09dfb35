\* Batches of one to three records, two attempts per record.
SPECIFICATION LiveSpec
CONSTANTS
    DeliveryAttempts = 2
    MaxContentBatchRecords = 3
    NoOffset = NoOffset
    MaxContent = 5
    MaxFailures = 5
INVARIANTS
    TypeOK
PROPERTIES
    ImplementsFeed
    FeedProgresses
CHECK_DEADLOCK FALSE
