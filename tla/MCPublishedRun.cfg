\* Runs of up to three steps over two states, one edit at any moment, with the
\* script or two starts of the compiler beside it.
SPECIFICATION RunSpec
CONSTANTS
    Hashes = {h1, h2}
    MaxSteps = 3
    MaxEdits = 1
    Invalid = Invalid
    QuotedFalse = QuotedFalse
    Missing = Missing
    Unknown = Unknown
    None = None
    Torn = Torn
    MaxStarts = 2
    Audiences = {{"buyer"}, {"compiler"}}
SYMMETRY HashSymmetry
INVARIANTS
    RunTypeOK
    PublishedRunVerifies
    OneEditKeepsBound
    NeverVouchesForMocked
    OneEditKeepsPath
    MatchingBundleIsOneGraph
CHECK_DEADLOCK FALSE
