\* Two API processes with a place each: runs that do not see each other.
SPECIFICATION Spec
CONSTANTS
    p1 = p1
    p2 = p2
    r1 = r1
    r2 = r2
    Processes = {p1, p2}
    Runs = {r1, r2}
    Home <- TwoProcesses
SYMMETRY Symmetry
INVARIANTS
    EffectsFollowApproval
    OutcomeIsTrue
    TasksFitTheCase
    InDoubtIsResumable
PROPERTIES
    EffectsOnlyInTheirPhase
    OldRunsDoNotWrite
CHECK_DEADLOCK FALSE
