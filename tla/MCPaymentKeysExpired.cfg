\* The docstring's promise about expired keys, on the smallest instance on
\* which a caller comes between the answer to a retrieval and its publication.
SPECIFICATION Spec
CONSTANTS
    Callers = {c1, c2}
    MaxFlights = 1
    MaxClock = 2
    MaxAge = 1
INVARIANT
    ExpiredKeysNeverReused
CHECK_DEADLOCK FALSE
