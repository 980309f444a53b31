SPECIFICATION Spec
CONSTANTS
    Workspace = {acme}
    Month = {aug, sep}
    k1 = k1
    k2 = k2
    k3 = k3
    Key = {k1, k2, k3}
    UsageKey = {u1, u2}
    MaxChecks = 2
    MaxLimit = 4
    NoRow = NoRow
SYMMETRY MCSymmetry
CHECK_DEADLOCK FALSE
INVARIANTS
    TypeOK
    UsedExact
    HeldCovered
    NoOversell
    EventsMatch
    StatusMatchesChecks
PROPERTIES
    ReservationIsFinal
