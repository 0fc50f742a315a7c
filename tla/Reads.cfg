\* PostgreSQL behind the memory store; a registration and a completion, or two of
\* either, at once; one restart.  The quota is one completion.
SPECIFICATION Spec
CONSTANTS
    Backends = {20}
    Tabular = {20}
    Requests = {r1, r2}
    Threshold = 1
    Quota = 1
    MaxContracts = 2
    MaxCounted = 2
    MaxRestarts = 1
INVARIANTS
    TypeOK
    BehindIsLogged
    QuotaBound
    StrandedByMiss
SYMMETRY Symmetry
CHECK_DEADLOCK FALSE
