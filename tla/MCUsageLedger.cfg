\* Two events and two tenants that use the same request id: a retry, a
\* conflict, a replay and two independent bills are all possible.
SPECIFICATION Spec
CONSTANTS
    EventIds = {e1, e2}
    Tenants = {t1, t2}
    RequestIds = {r1}
    Bodies = {b1}
    Numbers <- MCNumbers
    Cap = 2
    None = None
    NotInt = NotInt
    Absent = Absent
INVARIANTS
    TypeOK
    OneEventPerRequest
    DigestsBindRecords
    AmountsWithinQuote
    RetriesNeverCharge
    RevenueWithinCap
PROPERTY
    ImplementsBilling
CHECK_DEADLOCK FALSE
