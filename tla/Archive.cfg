\* Shared chunks, late and conflicting captures, conversion, backups and expiry.
CONSTANTS
    c0 = c0
    c1 = c1
    c2 = c2
    c3 = c3
    d1 = d1
    g2 = g2
    f2 = f2
    Height <- MCHeight
    Block <- MCBlock
    Previous <- MCPrevious
    Digest <- MCDigest
    Refs <- MCRefs
    Captures = {c0, c1, c2, c3, d1, g2, f2}
    Complete = {c0, c1, c2, c3, d1, g2}
    Compact = {c0, c3, d1, g2}
    Provable = {d1}
    Cited = {c0}
    Top = 3
    RoundLength = 2
    CapRounds = 2
    MarginRounds = 1
    MaxMissing = 1
    AfterHeight = 1
    Lag = 2
SPECIFICATION Spec
CHECK_DEADLOCK FALSE
INVARIANTS
    ObservedIsWhole
    CitedIsEvident
    ContiguousIsSound
    FloorIsCredited
