\* The same instance, and what the expiry of captures keeps.
CONSTANTS
    b1 = b1
    Benchmarks = {b1}
    Creation = 1
    Reporting <- Next1
    Period = 2
    RoundLength = 2
    First = 6
    Top = 9
    Age = 2
    CapRounds = 3
    MarginRounds = 3
    Rounds = {2}
    Disputable = {9}
    MaxFaults = 1
SPECIFICATION Spec
CHECK_DEADLOCK FALSE
INVARIANTS
    LatestIsKept
