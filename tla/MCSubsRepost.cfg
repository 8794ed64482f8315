CONSTANTS
    Instance = {i1}
    x1 = x1
    x2 = x2
    XName = {x1}
    cfs = cfs
    Agent = {cfs}
    NoAgent = noagent
    on = on
    off = off
    Attr = {on}
    Enbl = enbl
    u1 = u1
    u2 = u2
    nourl = nourl
    NoUrl = nourl
    Url = {u1, u2, nourl}
    anyNodes = anyNodes
    Nodes = {anyNodes}
    None = none
    Req = {r1, r2, r3}
    Ops <- RepostOps
    Downable = {}
    ChanCap = 2
    MaxFaults = 0
    StartQueue <- NoQueue
    MayCrash = {}
SPECIFICATION SafetySpec
INVARIANTS
    NewPostStands
CHECK_DEADLOCK FALSE
