SPECIFICATION CountingSpec
SYMMETRY Symmetry
CONSTANTS
    Proc = {p1, p2}
    Key = {k1, k2, k3}
    Tenant = {t1}
    Name = {n1, n2, n3}
    MaxActive = 1
    Interval = 0
    MaxTime = 0
    MaxSecret = 3
    NoRow = NoRow
    NoKey = NoKey
    Never = Never
INVARIANT ActiveBounded
PROPERTY KeyLedgerImplemented
CHECK_DEADLOCK FALSE
