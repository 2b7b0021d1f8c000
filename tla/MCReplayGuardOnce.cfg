\* Two validations alike are enough for one to overtake the other.
SPECIFICATION Spec
CONSTANTS
    t1 = t1
    t2 = t2
    t3 = t3
    t4 = t4
    jti = jti
    v1 = v1
    v2 = v2
    v3 = v3
    Validations = {v1, v2}
    Expected <- MCAlike
    TrustedKeys <- MCTrustedKeys
    Tokens = {t1, t2, t3, t4}
    Content <- MCContent
    Jtis = {jti}
    MaxEntries = 2
    MaxClock = 3
    MinAtomic = 1
    MaxAtomic = 1000
    MaxLeeway = 30
    Invalid = Invalid
    None = None
    primary = primary
    rotated = rotated
    untrusted = untrusted
    pk = pk
    rk = rk
    unknown = unknown
PROPERTY
    AcceptedOnce
CHECK_DEADLOCK FALSE
