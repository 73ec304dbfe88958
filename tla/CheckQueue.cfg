CONSTANTS
    Workers = {w1, w2}
    Master = m
    Checks = {c1, c2, c3, c4}
    BatchSize = 2
SPECIFICATION Spec
INVARIANTS
    NoCheckLost
    WaitIsExact
PROPERTY WaitReturns
