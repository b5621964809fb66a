SPECIFICATION Spec
SYMMETRY Symmetry
CONSTANTS
    Proc = {p1, p2}
    Key = {k1, k2}
    Tenant = {t1}
    Name = {n1, n2}
    MaxActive = 1
    Interval = 0
    MaxTime = 0
    MaxSecret = 2
    NoRow = NoRow
    NoKey = NoKey
    Never = Never
INVARIANT LimitKept
CHECK_DEADLOCK FALSE
