SPECIFICATION Spec
SYMMETRY Symmetry
CONSTANTS
    Proc = {p1, p2}
    Key = {k1}
    Tenant = {t1, t2}
    Name = {n1}
    MaxActive = 1
    Interval = 0
    MaxTime = 1
    MaxSecret = 2
    NoRow = NoRow
    NoKey = NoKey
    Never = Never
INVARIANT TypeOK
PROPERTY RetiredStays
PROPERTY SupersededStays
PROPERTY KeyLedgerImplemented
CHECK_DEADLOCK FALSE
