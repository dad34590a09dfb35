\* Queues of one place, fair dispatcher and worker; three updates block a send.
SPECIFICATION LiveSpec
CONSTANTS
    Topics = {t1}
    Callbacks = {c1}
    Flows = {f1}
    Publishers = {p1}
    Deliverers = {d1}
    Closers = {k1}
    UpdateQueue = 1
    DeliveryQueue = 1
    MaxVersion = 1
    MaxUpdates = 3
    None = None
PROPERTIES
    CloseCompletes
    UpdatesAreDispatched
CHECK_DEADLOCK FALSE
