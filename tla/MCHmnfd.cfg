CONSTANTS
    Instance = {i1}
    x1 = x1
    x2 = x2
    XName = {x1, x2}
    Component = {x1, x2}
    NodeComp = {x2}
    cfs = cfs
    Agent = {cfs}
    NoAgent = noagent
    on = on
    off = off
    Attr = {on, off}
    Enbl = enbl
    u1 = u1
    nourl = nourl
    NoUrl = nourl
    Url = {u1, nourl}
    Gone = {off}
    WcAll = wcall
    WcAllNodes = wcallnodes
    Nodes <- MCNodes
    None = none
    Req = {r1, r2}
    Ops <- FanOps
    Downable = {x1, x2}
    ChanCap = 2
    Batches <- DownUp
    Occurs <- ExactOccurs
    Worker = {w1}
    QCap = 1
    RetryValues <- Two
    NoJob = nojob
    MaxBatches = 2
    MaxFaults = 0
    StartQueue <- NoQueue
    MayCrash = {i1}
SPECIFICATION NfdSafety
INVARIANTS
    FanTypeOK
    NoSendToDown
PROPERTIES
    ImplementsSubscriptions
CHECK_DEADLOCK FALSE
