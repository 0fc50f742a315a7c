\* Three concurrent callers, three failures to trip: a stale success and a
\* stale failure can both arrive while the breaker is half open.
CONSTANTS
    Callers = {c1, c2, c3}
    Threshold = 3
SPECIFICATION Spec
INVARIANT ProbeInFlight
INVARIANT OneProbeWhenQuick
PROPERTY TripsOnlyOnStreak
PROPERTY ProbeDecides
PROPERTY HalfOpenResolves
