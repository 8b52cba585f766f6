\* Two reservations of a member with one slot, from request to TIG outcome, one
\* coordinator, which keeps running.
CONSTANTS
    m1 = m1
    r1 = r1
    r2 = r2
    f1 = f1
    w1 = w1
    w2 = w2
    NoBenchmark = NoBenchmark
    Members = {m1}
    Reservations = {r1, r2}
    Workers = {w1}
    Foreign = {}
    Rounds = {1}
    MemberOf <- Owner
    CreationRound <- Round
    Base <- Free
    FeeLimit <- Free
    Scale = 1
    Multipliers = {1}
    MaxSlots = 1
    InitialAvailable <- Funds
    InitialFees = 0
    MatchKey <- OneKey
    Confirming = {r1}
    MaxBlocks = 3
SPECIFICATION FairSpec
CHECK_DEADLOCK FALSE
PROPERTIES
    UnsentWorkExpires
    PostedOnce
INVARIANTS
    OutcomeIsTrue
    ReleasedIsAbsent
    QueuedIsLive
    WorkIsLimited
