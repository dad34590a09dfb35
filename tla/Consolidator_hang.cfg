\* Retention has dropped every state event of a log that is not empty.
SPECIFICATION LiveSpec
CONSTANTS
    Topics = {t1}
    Callbacks = {c1}
    Servers = {s1}
    Leases = {l1}
    NoSub = NoSub
    Deployments = {"pruned"}
    MaxLog = 3
    MaxFailures = 2
PROPERTIES
    StartupReachesServing
CHECK_DEADLOCK FALSE
