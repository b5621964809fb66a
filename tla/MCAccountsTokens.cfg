SPECIFICATION Spec
SYMMETRY Symmetry
CONSTANTS
    Proc = {p1, p2}
    User = {u1}
    Token = {t1, t2, t3}
    Email = {e1}
    Ttl = 1
    MaxTime = 0
    MaxHash = 2
    NoRow = NoRow
    NoUser = NoUser
    NoToken = NoToken
INVARIANT LiveTokensBounded
CHECK_DEADLOCK FALSE
