SPECIFICATION Spec
CONSTANTS
    s1 = s1
    r1 = r1
    r2 = r2
    r3 = r3
    r4 = r4
    q1 = q1
    q2 = q2
    w1 = w1
    w2 = w2
    Scan = {s1}
    Run = {r1, r2}
    ScanOf <- MCScanOf
    RoundOf <- MCOneRound
    Request = {q1, q2}
    Target <- MCTarget
    Worker = {w1, w2}
    Workspace = {acme}
    Month = {aug}
    MaxChecks = 2
    MaxLimit = 3
    MaxConcurrency = 2
    MaxMessages = 2
    MaxCrashes = 1
    Expiry = TRUE
    SlowWorkers = TRUE
    NoRow = NoRow
CHECK_DEADLOCK FALSE
SYMMETRY MCSymmetry
INVARIANTS
    TypeOK
    TerminalScanAccurate
    CallAtMostOnce
    UsageIsEvidence
    TerminalScanReleased
    ChargeMatchesRuns
PROPERTIES
    TerminalIsFinal
