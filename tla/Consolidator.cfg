\* The log kept for good with any snapshot loaded, or pruned with the newest one.
SPECIFICATION LiveSpec
CONSTANTS
    Topics = {t1}
    Callbacks = {c1}
    Servers = {s1}
    Leases = {l1}
    NoSub = NoSub
    Deployments = {"complete", "pruned"}
    MaxLog = 3
    MaxFailures = 2
INVARIANTS
    TypeOK
    EverySnapshotRecovers
PROPERTIES
    ImplementsReplicatedView
    RevisionsGrow
    StartupCompletes
CHECK_DEADLOCK FALSE
