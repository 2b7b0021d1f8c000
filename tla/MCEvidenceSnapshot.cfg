\* Two requests: one retrieves, the other joins it before or after its headers, or
\* comes later and finds its keys fresh or stale.
SPECIFICATION FairSpec
CONSTANTS
    good = good
    brief = brief
    cheap = cheap
    weak = weak
    primary = primary
    rotated = rotated
    pk = pk
    rk = rk
    Requests = {r1, r2}
    Tokens = {good, brief, cheap, weak}
    Content <- MCContent
    Route <- MCRoute
    KeySets <- MCKeySets
    Timeout = 2
    MaxClock = 5
    MaxAge = 2
    MinAtomic = 1
    MaxAtomic = 1000
    MaxLeeway = 30
    Invalid = Invalid
    None = None
INVARIANTS
    TypeOK
    ServedInTime
PROPERTY
    EveryRequestAnswered
CHECK_DEADLOCK FALSE
