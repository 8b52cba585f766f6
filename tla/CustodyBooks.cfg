\* An operator withdrawal, a top-up, receipts, fees above the limit, the observer.
CONSTANTS
    m1 = m1
    op = op
    w1 = w1
    w2 = w2
    p1 = p1
    d1 = d1
    g1 = g1
    c1 = c1
    c2 = c2
    Members = {}
    Operator = op
    Withdrawals = {w1}
    Topups = {p1}
    OwnerOf <- OperatorOnly
    Amount <- TwoSends
    FeeLimit = 1
    Fees = {2}
    Reserve = 1
    Receipts = {d1, g1}
    Asset <- Coins
    Value <- Coming
    Callers = {c1}
    Cursors = {0, 1}
    MaxNonce = 1
    Cooldown = 1
    MaxTime = 0
    InitialAvailable <- Empty
    InitialOperator = 4
    InitialNative = 3
SPECIFICATION Spec
CHECK_DEADLOCK FALSE
INVARIANTS
    BooksAreChain
    HealthyIsReconciled
PROPERTIES
    BeginsReconciled
