\* A receipt flagged mocked:false that verify.sh refuses.
SPECIFICATION Spec
CONSTANTS
    Hashes = {h1, h2}
    MaxSteps = 1
    MaxEdits = 0
    Invalid = Invalid
    QuotedFalse = QuotedFalse
    Missing = Missing
    Unknown = Unknown
SYMMETRY HashSymmetry
INVARIANTS
    GenuineReceiptConfirmed
CHECK_DEADLOCK FALSE
