\* A request at a time, two background tasks and a worker, for one case.
SPECIFICATION LiveSpec
CONSTANTS
    Requests = {q1}
    Runs = {r1, r2}
    Workers = {w1}
    Operator = operator
    Cases = {c1}
    NoOne = NoOne
PROPERTIES
    ImplementsReadersWriter
    LocksAreReleased
CHECK_DEADLOCK FALSE
