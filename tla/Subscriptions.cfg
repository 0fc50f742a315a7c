SPECIFICATION Spec
CONSTANTS
    Plans = {"starter", "default-ai-plan", "pro"}
    Services = {AI, Other}
    AI = AI
    Other = Other
    Requests = {r1, r2}
    Sessions = {s1}
    None = None
    Demo = None
    Contracts <- ContractBodies
    Sold = {"pro"}
    Fired = {"cancel", "reactivate"}
    Registrations <- RegistrationBodies
    MaxRestarts = 1
SYMMETRY Symmetry
INVARIANTS
    TypeOK
    StoreFollows
    PlanStands
    LedgerMatches
    RefundTakesAccess
CHECK_DEADLOCK FALSE
