CONSTANTS
    Handlers = {h1, h2, h3}
    Timer = timer
    Free = free
    c1 = c1
    c2 = c2
    Component = {c1, c2}
    ready = ready
    off = off
    Attr = {ready, off}
    NoAttr = noattr
    s0 = s0
    s1 = s1
    SubRole = {s0}
    NoSubRole = s0
    Scns <- EnabledScns
    MaxCaches <- OnlyThree
    QCap = 2
SPECIFICATION SafetySpec
INVARIANTS
    DisabledOnlyIfReported
