CONSTANTS
    PatchReq = {r1, r2}
    Use_telemetry = use
    Telemetry_host = host
    Field = {use, host}
    BadHosts = {1}
    Unset = unset
    Value = {0, 1}
    Bodies <- MCBodies
    StartParams <- MCStart
    NoParams = noparams
    MaxKvFaults = 1
    Off = 0
    KqCap = 1
    MaxTries = 2
    Probe = {p1}
    Budgets <- MCBudgets
SPECIFICATION SvcSpec
INVARIANTS
    SvcTypeOK
    AckedInForce
    BusInOrder
    ClosedIsTransient
    NotReadyHasCause
PROPERTIES
    ConnectionFollows
    TelemetryDrains
CHECK_DEADLOCK FALSE
