\* Three threads and two retrievals: a leader, one that joins and one that comes
\* late; keys that expire while they are retrieved, cached or waited for.
SPECIFICATION FairSpec
CONSTANTS
    Callers = {c1, c2, c3}
    MaxFlights = 2
    MaxClock = 2
    MaxAge = 1
INVARIANTS
    TypeOK
    OneRetrieval
    CacheWithinLifetime
    NoFallback
PROPERTIES
    CacheMovesForward
    FlightsEnd
    WaitersReturn
CHECK_DEADLOCK FALSE
