\* Two look-alike precommits, a foreign one, a duplicate coordinator.
CONSTANTS
    m1 = m1
    r1 = r1
    r2 = r2
    f1 = f1
    w1 = w1
    w2 = w2
    NoBenchmark = NoBenchmark
    Members = {m1}
    Reservations = {r1, r2}
    Workers = {w1, w2}
    Foreign = {f1}
    Rounds = {1}
    MemberOf <- Owner
    CreationRound <- Round
    Base <- Free
    FeeLimit <- Free
    Scale = 1
    Multipliers = {1}
    MaxSlots = 2
    InitialAvailable <- Funds
    InitialFees = 0
    MatchKey <- OneKey
    Confirming = {}
    MaxBlocks = 2
SPECIFICATION Spec
CHECK_DEADLOCK FALSE
SYMMETRY BothSymmetry
INVARIANTS
    OwnBenchmark
CONSTRAINT
    Focus
