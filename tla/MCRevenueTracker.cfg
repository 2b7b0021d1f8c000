\* Two requests, any two of five tokens (or none), an origin that serves or
\* refuses with the lowest status that does, and settlements below, equal to and
\* above what was authorized.
SPECIFICATION FairSpec
CONSTANTS
    r1 = r1
    r2 = r2
    exact = exact
    upto = upto
    cheap = cheap
    forged = forged
    garbled = garbled
    Requests = {r1, r2}
    AudienceOf <- MCAudienceOf
    Tokens = {exact, upto, cheap, forged, garbled}
    Claims <- MCClaims
    Statuses = {200, 400}
    Reports = {1, 2, 3}
    MinAtomic = 2
    MaxAtomic = 3
    None = None
    Malformed = Malformed
INVARIANTS
    TypeOK
    CountsOnlyAttested
    FailuresCountNothing
PROPERTY
    RecordingEnds
CHECK_DEADLOCK FALSE
