CONSTANTS
    off = off
    worker = worker
    storage = storage
    Attr = {off, worker, storage}
    Mandatory <- MandatoryReq
    Requests <- EnabledRequests
    ChanCap = 5
    NosmValues <- SmOn
    MaxPosts = 2
    MaxFaults = 1
    MaxRestarts = 0
SPECIFICATION Spec
PROPERTIES
    MandatorySubscribed
CHECK_DEADLOCK FALSE
