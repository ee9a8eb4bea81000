\* Two places for runs in one API process, with fairness;
\* the case is prepared once.
SPECIFICATION LiveSpecOfOnce
CONSTANTS
    p1 = p1
    p2 = p2
    r1 = r1
    r2 = r2
    Processes = {p1}
    Runs = {r1, r2}
    Home <- OneProcess
PROPERTIES
    EveryRunEnds
    DoubtEnds
CHECK_DEADLOCK FALSE
