\* An edit of a record that verify_run does not notice.
SPECIFICATION Spec
CONSTANTS
    Hashes = {h1, h2}
    MaxSteps = 2
    MaxEdits = 1
    Invalid = Invalid
    QuotedFalse = QuotedFalse
    Missing = Missing
    Unknown = Unknown
SYMMETRY HashSymmetry
INVARIANTS
    AnyEditDetected
CHECK_DEADLOCK FALSE
