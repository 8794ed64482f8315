CONSTANTS
    off = off
    worker = worker
    x1 = x1
    cfs = cfs
    u1 = u1
    anyNodes = anyNodes
    Attr = {off, worker}
    Mandatory <- MandatoryReq
    Requests <- PostRequests
    ChanCap = 1
    NosmValues = {TRUE, FALSE}
    MaxPosts = 2
    MaxFaults = 1
    MaxRestarts = 1
    Self = self
    XName = {x1}
    Agent = {cfs}
    NoAgent = noagent
    Enbl = enbl
    NoUrl = nourl
    Url = {u1, nourl}
    Nodes = {anyNodes}
    None = none
    Req = {r1, r2}
    Ops <- MixedOps
    MaxKvFaults = 0
SPECIFICATION CovSpec
INVARIANTS
    TypeOK
    NoRedundantPost
    AckedTracked
    StoredIsAsked
PROPERTIES
    MandatoryRetried
    AnsweredUnlessStuck
    EveryPostCovered
CHECK_DEADLOCK FALSE
