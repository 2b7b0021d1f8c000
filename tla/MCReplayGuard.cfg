\* Three validations overlap, one of them with a larger leeway, on a guard with
\* room for one entry less than there are keys.
SPECIFICATION Spec
CONSTANTS
    t1 = t1
    t2 = t2
    t3 = t3
    t4 = t4
    jti = jti
    v1 = v1
    v2 = v2
    v3 = v3
    Validations = {v1, v2, v3}
    Expected <- MCExpected
    TrustedKeys <- MCTrustedKeys
    Tokens = {t1, t2, t3, t4}
    Content <- MCContent
    Jtis = {jti}
    MaxEntries = 2
    MaxClock = 3
    MinAtomic = 1
    MaxAtomic = 1000
    MaxLeeway = 30
    Invalid = Invalid
    None = None
    primary = primary
    rotated = rotated
    untrusted = untrusted
    pk = pk
    rk = rk
    unknown = unknown
INVARIANTS
    TypeOK
    RemembersAccepted
    WithinCapacity
PROPERTY
    SecondAcceptanceExplained
SYMMETRY Alike
CHECK_DEADLOCK FALSE
