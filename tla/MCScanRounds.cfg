SPECIFICATION Spec
CONSTANTS
    s1 = s1
    r1 = r1
    r2 = r2
    r3 = r3
    r4 = r4
    q1 = q1
    q2 = q2
    w1 = w1
    w2 = w2
    Scan = {s1}
    Run = {r1, r2, r3, r4}
    ScanOf <- MCScanOf
    RoundOf <- MCTwoRounds
    Request = {q1}
    Target <- MCTarget
    Worker = {w1}
    Workspace = {acme}
    Month = {aug}
    MaxChecks = 4
    MaxLimit = 4
    MaxConcurrency = 2
    MaxMessages = 2
    MaxCrashes = 1
    Expiry = TRUE
    SlowWorkers = FALSE
    NoRow = NoRow
CHECK_DEADLOCK FALSE
SYMMETRY MCSymmetry
INVARIANTS
    EvidencedRunNotWrittenOff
    RoundsInOrder
PROPERTIES
    NoTaskAfterStop
