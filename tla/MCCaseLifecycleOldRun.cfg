\* Two API processes that resume the same case.
SPECIFICATION Spec
CONSTANTS
    p1 = p1
    p2 = p2
    r1 = r1
    r2 = r2
    Processes = {p1, p2}
    Runs = {r1, r2}
    Home <- TwoProcesses
SYMMETRY Symmetry
PROPERTY OldRunNeverFreezes
CHECK_DEADLOCK FALSE
