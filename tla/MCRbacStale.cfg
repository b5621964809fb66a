SPECIFICATION FairSpec
CONSTANTS
    Proc = {p1, p2}
    Replica = {g1, g2}
    User = {u1}
    Role = {r1}
    SystemRole = {}
    Name = {n1}
    Perm = {}
    NoRow = NoRow
    NoEntry = NoEntry
PROPERTY StaleEnds
CHECK_DEADLOCK FALSE
