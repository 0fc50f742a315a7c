\* One incarnation of the process.  Two entries fill a segment, so that the
\* three entries give segments of one and of two entries, sealed by size, by
\* age and by Stop.  The process may really stop: no deadlock check.
CONSTANTS
    Entries = {e1, e2, e3}
    SegmentSize = 2
    MaxSegment = 4
    MaxRestarts = 0
SPECIFICATION Spec
CHECK_DEADLOCK FALSE
INVARIANT NothingLost
INVARIANT OldestFirst
PROPERTY ImplementsDurableLog
PROPERTY SealedDrains
