\* Two hubs, one subscriber, two leases.
SPECIFICATION Spec
CONSTANTS
    Topics = {t1}
    Callbacks = {c1}
    Servers = {s1, s2}
    Leases = {l1, l2}
    NoSub = NoSub
    None = None
    MaxLog = 6
    MaxGen = 4
    MaxFailures = 1
INVARIANTS
    TypeOK
    OneConsumerPerGroup
    ConsumersFollowTheProjection
    NoSilentSubscription
PROPERTIES
    ImplementsReplicatedView
    OnlyLagMisleads
CONSTRAINT Explored
SYMMETRY KafkaSymmetry
CHECK_DEADLOCK FALSE
