SPECIFICATION Spec
SYMMETRY Symmetry
CONSTANTS
    Proc = {p1, p2}
    User = {u1}
    Token = {t1}
    Email = {e1}
    Ttl = 1
    MaxTime = 1
    MaxHash = 3
    NoRow = NoRow
    NoUser = NoUser
    NoToken = NoToken
INVARIANT TokenResetsOnce
CHECK_DEADLOCK FALSE
