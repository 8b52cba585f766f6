\* One member asks for more than its slots and money; the multiplier changes.
CONSTANTS
    m1 = m1
    m2 = m2
    r1 = r1
    r2 = r2
    b1 = b1
    Members = {m1, m2}
    Reservations = {r1, r2}
    Rounds = {1, 2}
    BenchmarkIds = {b1}
    NoBenchmark = NoBenchmark
    MemberOf <- MoneyMember
    CreationRound <- MoneyRound
    Base <- MoneyBase
    FeeLimit <- MoneyFee
    Scale = 2
    Multipliers = {0, 1, 2}
    MaxSlots = 1
    InitialAvailable <- MoneyFunds
    InitialFees = 2
SPECIFICATION Spec
CHECK_DEADLOCK FALSE
INVARIANTS
    TypeOK
    Lifecycle
    SlotLimit
    ForfeitOnlyIfResponsible
    MoneyIsAccounted
PROPERTIES
    RecordedIsFinal
    ImplementsCollateral
