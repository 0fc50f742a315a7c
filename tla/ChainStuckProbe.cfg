\* One caller: its Allow() takes the probe, and its event meets a half-open breaker.
CONSTANTS
    redis = redis
    postgres = postgres
    Backends <- OneBackend
    Priority <- OnePriority
    Events = {e1, e2}
    Unnamed = {}
    NoEvent = NoEvent
    Producers = {p1}
    ChannelSize = 1
    Threshold = 1
    MayStop = FALSE
    MaxPrunes = 0
    MaxUnnamed = 0
SPECIFICATION Spec
PROPERTY HalfOpenResolves
