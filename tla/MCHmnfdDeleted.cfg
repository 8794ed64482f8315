CONSTANTS
    Instance = {i1}
    x1 = x1
    x2 = x2
    XName = {x1, x2}
    Component = {x1, x2}
    NodeComp = {x2}
    cfs = cfs
    Agent = {cfs}
    NoAgent = noagent
    on = on
    off = off
    Attr = {on, off}
    Enbl = enbl
    u1 = u1
    nourl = nourl
    NoUrl = nourl
    Url = {u1, nourl}
    Gone = {off}
    WcAll = wcall
    WcAllNodes = wcallnodes
    Nodes <- MCNodes
    None = none
    Req = {r1, r2}
    Ops <- AgentOps
    Downable = {x1, x2}
    ChanCap = 2
    Batches <- JustUp
    Occurs <- ExactOccurs
    Worker = {w1}
    QCap = 1
    RetryValues <- Two
    NoJob = nojob
    MaxBatches = 1
    MaxFaults = 0
    StartQueue <- NoQueue
    MayCrash = {}
SPECIFICATION NfdSafety
PROPERTIES
    DeletedNotSent
CHECK_DEADLOCK FALSE
