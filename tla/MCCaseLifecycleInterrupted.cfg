\* A run that is gone before the case is approved.
SPECIFICATION Spec
CONSTANTS
    p1 = p1
    p2 = p2
    r1 = r1
    r2 = r2
    Processes = {p1}
    Runs = {r1, r2}
    Home <- OneProcess
SYMMETRY Symmetry
INVARIANT InterruptedRunCanContinue
CHECK_DEADLOCK FALSE
