\* A member withdraws twice; every outcome of every attempt.
CONSTANTS
    m1 = m1
    op = op
    w1 = w1
    w2 = w2
    p1 = p1
    d1 = d1
    g1 = g1
    c1 = c1
    c2 = c2
    Members = {m1}
    Operator = op
    Withdrawals = {w1, w2}
    Topups = {}
    OwnerOf <- OneOwner
    Amount <- SameAmount
    FeeLimit = 1
    Fees = {1}
    Reserve = 0
    Receipts = {}
    Asset <- Empty
    Value <- Empty
    Callers = {c1, c2}
    Cursors = {0}
    MaxNonce = 2
    Cooldown = 1
    MaxTime = 1
    InitialAvailable <- Plenty
    InitialOperator = 0
    InitialNative = 3
SPECIFICATION Spec
CHECK_DEADLOCK FALSE
INVARIANTS
    OutcomeIsChain
    CooldownHolds
PROPERTIES
    ImplementsPayouts
