\* Liveness, so no symmetry, and nobody calls Stop.  One event more than the bound
\* on loss: one in the channel, one in the worker, one to spill.
CONSTANTS
    redis = redis
    postgres = postgres
    Backends <- OneBackend
    Priority <- OnePriority
    Events = {e1, e2, e3}
    Unnamed = {}
    NoEvent = NoEvent
    Producers = {p1, p2}
    ChannelSize = 1
    Threshold = 1
    MayStop = FALSE
    MaxPrunes = 0
    MaxUnnamed = 0
SPECIFICATION Spec
INVARIANT BoundedLoss
PROPERTY ImplementsEventDelivery
