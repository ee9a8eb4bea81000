\* A late worker of a run that a recovery has replaced.
SPECIFICATION Spec
CONSTANTS
    p1 = p1
    p2 = p2
    r1 = r1
    r2 = r2
    Processes = {p1}
    Runs = {r1, r2}
    Home <- OneProcess
SYMMETRY Symmetry
INVARIANT ClosedCaseHoldsNothing
CHECK_DEADLOCK FALSE
