CONSTANTS
    Worker = {w1, w2, w3}
    NoWorker = noworker
    NumJobs = 5
    MaxJobQueue = 2
    SyncModes = {TRUE, FALSE}
SPECIFICATION Spec
INVARIANTS
    TypeOK
    OnlyListenersOffered
    SyncIsSerial
PROPERTIES
    ImplementsRelay
    EveryJobRuns
CHECK_DEADLOCK FALSE
