\* All logs of up to four events over one subscriber, two leases, two servers.
SPECIFICATION Spec
CONSTANTS
    Topics = {t1}
    Callbacks = {c1}
    Servers = {s1, s2}
    Leases = {l1, l2}
    NoSub = NoSub
    MaxLog = 4
INVARIANTS
    ReplayConverges
CHECK_DEADLOCK FALSE
