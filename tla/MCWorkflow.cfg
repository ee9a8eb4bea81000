\* One topic at a time: a case, stage tasks, or an input of the rules.
SPECIFICATION SpecOfAll
CONSTANTS
    Requests = {q1, q2, q3}
    NoOne = NoOne
    Modes <- BothModes
    Findings <- OneOfEach
    Scale = 4
    L1Max = 2
    L2Max = 4
    ScoreAuto = 90
    ScoreMin = 60
    Tasks = {t1, t2}
    Executions = {e1, e2}
    Fitting <- EvenVersions
    MaxVersion = 2
    MaxAttempts = 3
    NoTask = NoTask
SYMMETRY Symmetric
INVARIANTS
    SamplesAreTrue
    WaitingCanBeDecided
    SettlingSettles
PROPERTIES
    ImplementsCaseVerdict
    PastIsStable
    RiskNeverFalls
    ImplementsTaskBook
CHECK_DEADLOCK FALSE
