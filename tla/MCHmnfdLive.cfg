CONSTANTS
    Instance = {i1}
    x1 = x1
    x2 = x2
    XName = {x2}
    Component = {x1, x2}
    NodeComp = {x2}
    cfs = cfs
    Agent = {cfs}
    NoAgent = noagent
    on = on
    off = off
    Attr = {on}
    Enbl = enbl
    u1 = u1
    nourl = nourl
    NoUrl = nourl
    Url = {u1, nourl}
    Gone = {}
    WcAll = wcall
    WcAllNodes = wcallnodes
    Nodes <- MCNodes
    None = none
    Req = {r1, r2}
    Ops <- LiveOps
    Downable = {x2}
    ChanCap = 1
    Batches <- JustUp
    Occurs <- ExactOccurs
    Worker = {w1}
    QCap = 1
    RetryValues <- OneOrTwo
    NoJob = nojob
    MaxBatches = 1
    MaxFaults = 1
    StartQueue <- NoQueue
    MayCrash = {}
SPECIFICATION NfdSpec
INVARIANTS
    AnsweredNotDropped
PROPERTIES
    FanoutDrains
    MarkedIsPruned
CHECK_DEADLOCK FALSE
