\* One topic, two subscribers, renewals and removals against deliveries.
SPECIFICATION Spec
CONSTANTS
    Topics = {t1}
    Callbacks = {c1, c2}
    Flows = {f1, f2}
    Publishers = {p1}
    Deliverers = {d1, d2}
    Closers = {k1}
    UpdateQueue = 1
    DeliveryQueue = 1
    MaxVersion = 2
    MaxUpdates = 2
    None = None
CONSTRAINT Explored
SYMMETRY HubSymmetry
INVARIANTS
    TypeOK
    SubscriptionsHaveTopics
    DeliveredAtMostOnce
    GracefulCloseDelivers
PROPERTIES
    RemovalIsJustified
    NoSendAfterClose
CHECK_DEADLOCK FALSE
