\* Two connections, one session ID and two keys; an answer of two words and its end
\* fill the channel twice.  Liveness, so no symmetry.
SPECIFICATION Spec
CONSTANTS
    Keys = {k1, k2}
    SessionIds = {s1}
    None = None
    Requests = {r1, r2}
    Lengths = {2}
    Buffer = 1
    MaxRetries = 1
    MaxTurns = 2
INVARIANTS
    TypeOK
    IndexMatches
    WholeTurns
    UsageOfAnswers
    NoFailedAnswerKept
    Remembers
CHECK_DEADLOCK FALSE
PROPERTY StreamsEnd
