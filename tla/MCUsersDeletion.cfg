SPECIFICATION FairSpec
CONSTANTS
    Proc = {p1, p2}
    Replica = {g1}
    User = {u1}
    Life = 2
    NoRow = NoRow
    NoEntry = NoEntry
INVARIANT TypeOK
INVARIANT EventsMatchRows
INVARIANT DeletionsOnRecord
PROPERTY GoneForGood
PROPERTY CachesConverge
PROPERTY SessionsEnd
CHECK_DEADLOCK FALSE
