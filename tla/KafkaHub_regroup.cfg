\* A subscriber comes back between its unsubscription and the projection of it.
SPECIFICATION Spec
CONSTANTS
    Topics = {t1}
    Callbacks = {c1}
    Servers = {s1}
    Leases = {l1, l2}
    NoSub = NoSub
    None = None
    MaxLog = 5
    MaxGen = 3
    MaxFailures = 1
PROPERTIES
    NewSubscriptionNewGroup
CHECK_DEADLOCK FALSE
