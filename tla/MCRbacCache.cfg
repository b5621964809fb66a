SPECIFICATION Spec
SYMMETRY Symmetry
CONSTANTS
    Proc = {p1, p2}
    Replica = {g1, g2}
    User = {u1}
    Role = {r1, r2}
    SystemRole = {r1}
    Name = {n1}
    Perm = {w1}
    NoRow = NoRow
    NoEntry = NoEntry
INVARIANT TypeOK
INVARIANT InvalidationComplete
PROPERTY RemovedStays
CHECK_DEADLOCK FALSE
