\* Redis, which expires, and PostgreSQL; a segment may hold the copies of both
\* for one registration; one crash or restart.
SPECIFICATION Spec
CONSTANTS
    Ids = {svc}
    Values = {v}
    Durable = {2, 3}
    Expiring = {2}
    Requests = {r}
    None = None
    SegmentSize = 2
    MaxRestarts = 1
INVARIANTS
    TypeOK
    NothingForgotten
    DuplicateRefused
PROPERTY Drains
CHECK_DEADLOCK FALSE
