\* Three blocks and two rows, a conflict, missing records, an upload and two
\* precommits that are dispatched one to a cycle, and an interrupted cycle.
CONSTANTS
    Heights = {1, 2, 3}
    Rows = {1, 2}
    ShownRows <- Feeds
    UploadIds = {1}
    PrecommitIds = {2, 3}
    PageSize = 1
    MaxDisputes = 1
    MaxCrashes = 1
SPECIFICATION Spec
CHECK_DEADLOCK FALSE
INVARIANTS
    ReconciledIsApplied
PROPERTIES
    ReplayProgress
    RowProgress
    ExpiredOfferIsReleased
