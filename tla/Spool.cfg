\* Captures that share chunks, beside the collection and the export of the spool.
CONSTANTS
    c1 = c1
    c2 = c2
    Captures = {c1, c2}
    Refs <- Shared
    MaxCrashes = 2
SPECIFICATION Spec
CHECK_DEADLOCK FALSE
INVARIANTS
    ArchivesAreWhole
    SnapshotIsComplete
PROPERTIES
    SavedIsRecorded
