SPECIFICATION RecoverySpec
CONSTANTS
    s1 = s1
    r1 = r1
    r2 = r2
    r3 = r3
    r4 = r4
    q1 = q1
    q2 = q2
    w1 = w1
    w2 = w2
    Scan = {s1}
    Run = {r1}
    ScanOf <- MCScanOf
    RoundOf <- MCOneRound
    Request = {q1}
    Target <- MCTarget
    Worker = {w1}
    Workspace = {acme}
    Month = {aug}
    MaxChecks = 2
    MaxLimit = 3
    MaxConcurrency = 1
    MaxMessages = 2
    MaxCrashes = 1
    Expiry = FALSE
    SlowWorkers = FALSE
    NoRow = NoRow
CHECK_DEADLOCK FALSE
PROPERTIES
    RecoveryFinishes
