\* The fan-out to Redis and Postgres in their order, each failing on its own.
CONSTANTS
    redis = redis
    postgres = postgres
    Backends <- TwoBackends
    Priority <- TwoPriority
    Events = {e1, e2}
    Unnamed = {}
    NoEvent = NoEvent
    Producers = {p1}
    ChannelSize = 1
    Threshold = 1
    MayStop = FALSE
    MaxPrunes = 0
    MaxUnnamed = 0
SPECIFICATION Spec
INVARIANT NeverDropped
PROPERTY ImplementsEventDeliverySafe
SYMMETRY Symmetry
