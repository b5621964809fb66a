SPECIFICATION Spec
CONSTANTS
    Proc = {p1, p2}
    Webhook = {w1}
    MaxRetries = 2
    MaxTriggers = 2
    NoRow = NoRow
INVARIANT TypeOK
INVARIANT PostsBounded
INVARIANT CountsAreReal
PROPERTY DeactivatedIsSilent
PROPERTY RequestsEnd
CHECK_DEADLOCK FALSE
