\* GitHub's list and one of Hugging Face, up to three pages of two and one
\* item more, with two changes during each walk.
SPECIFICATION FairSpec
CONSTANTS
    Scopes <- MCScopes
    Domains = {"a-11-oy.com"}
    Tokens = {"github"}
    PageSize = 2
    MaxPages = 3
    MaxItems = 7
    MaxChanges = 2
INVARIANTS
    TypeOK
    FaithfulUnderChanges
    QuietWalkVerdict
PROPERTY
    InventoryEnds
CHECK_DEADLOCK FALSE
