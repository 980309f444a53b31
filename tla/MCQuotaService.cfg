SPECIFICATION Spec
CONSTANTS
    Workspace = {acme}
    Month <- MCMonth
    k1 = k1
    k2 = k2
    s1 = s1
    s2 = s2
    u1 = u1
    u2 = u2
    Key = {k1, k2}
    UsageKey = {u1, u2}
    MaxChecks = 2
    MaxLimit = 2
    NoRow = NoRow
    Session = {s1, s2}
    Cleaner = {s1, s2}
SYMMETRY MCSymmetry
INVARIANTS
    TypeOK
    NoWaitCycle
    ReplyTruthful
PROPERTIES
    ImplementsLedger
