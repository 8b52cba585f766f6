\* A round with at most one receipt, a cost and a hold; a missing block is
\* recovered while two callers settle it.
CONSTANTS
    m1 = m1
    m2 = m2
    t1 = t1
    r1 = r1
    c1 = c1
    c2 = c2
    Members = {m1, m2}
    Before <- ById
    Waived = {}
    Heights = {1, 2}
    Credit <- TwoHeights
    Limits <- Stricter
    Transfers = {t1}
    Value <- Payments
    Reservations = {r1}
    MemberOf <- OneOwner
    Held <- OneHold
    Expected = {0, 20}
    Withheld = {0, 1}
    OperatorFunds = 1
    MaxSeals = 1
    Calls = {c1, c2}
SPECIFICATION Spec
CHECK_DEADLOCK FALSE
INVARIANTS
    MoneyIsConserved
    PotIsFunding
    SharesAreFair
    ReviewedIsComplete
PROPERTIES
    SettledOnce
