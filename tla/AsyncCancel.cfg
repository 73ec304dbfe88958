CONSTANTS
    Ops = {o1, o2}
    NoOp = NoOp
    Workers = {w1, w2}
    Endings = {"close"}
SPECIFICATION Spec
CHECK_DEADLOCK FALSE
INVARIANT CancelledDidNotRun
