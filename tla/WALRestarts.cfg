\* One entry a segment and two restarts: after the first one the counter can
\* fall behind the file names, before the second one a pass can meet them.
CONSTANTS
    Entries = {e1, e2, e3}
    SegmentSize = 1
    MaxSegment = 4
    MaxRestarts = 2
SPECIFICATION Spec
CHECK_DEADLOCK FALSE
INVARIANT LostOnlyByReuse
INVARIANT ActiveNotReplayed
SYMMETRY EntrySymmetry
