\* DESIGN.md:493, an expired benchmark that was never handed over.
CONSTANTS
    m1 = m1
    r1 = r1
    r2 = r2
    f1 = f1
    w1 = w1
    w2 = w2
    NoBenchmark = NoBenchmark
    Members = {m1}
    Reservations = {r1}
    Workers = {w1}
    Foreign = {}
    Rounds = {1}
    MemberOf <- Owner
    CreationRound <- Round
    Base <- Free
    FeeLimit <- Free
    Scale = 1
    Multipliers = {1}
    MaxSlots = 2
    InitialAvailable <- Funds
    InitialFees = 0
    MatchKey <- OneKey
    Confirming = {r1}
    MaxBlocks = 2
SPECIFICATION FairSpec
CHECK_DEADLOCK FALSE
PROPERTY
    UnhandedWorkExpires
