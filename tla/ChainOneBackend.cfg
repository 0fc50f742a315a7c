\* One backend, two callers, an event with an ID and the empty ID, which both
\* callers may present at once: the one-place channel is full for the second event,
\* the breaker trips on the second failure, an event is pruned and recorded again,
\* and Stop interrupts any of it.  Any append to the log may be refused.
CONSTANTS
    redis = redis
    postgres = postgres
    Backends <- OneBackend
    Priority <- OnePriority
    Events = {e1, noID}
    Unnamed = {noID}
    NoEvent = NoEvent
    Producers = {p1, p2}
    ChannelSize = 1
    Threshold = 2
    MayStop = TRUE
    MaxPrunes = 1
    MaxUnnamed = 1
SPECIFICATION Spec
INVARIANT NeverDropped
INVARIANT StopDrains
INVARIANT CountedOnce
SYMMETRY Symmetry
