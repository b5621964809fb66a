SPECIFICATION Spec
SYMMETRY Symmetry
CONSTRAINT OneInFocus
CONSTANTS
    Proc = {p1, p2}
    Replica = {g1}
    Tenant = {t1, t2}
    Slug = {s1, s2}
    NoRow = NoRow
    NoEntry = NoEntry
INVARIANT TypeOK
INVARIANT OneTenantPerSlug
INVARIANT RolesComplete
PROPERTY StatusHolds
CHECK_DEADLOCK FALSE
