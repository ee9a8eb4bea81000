\* Two stages for one Worker, each command sent up to twice, one death or lapse;
\* or two people, two requests, two approval forms and one restart; three such
\* turns in a behaviour.
SPECIFICATION SpecOfBoth
CONSTANTS
    Runs = {r1, r2}
    MaxNudges = 1
    MaxCalls = 2
    MaxEvents = 1
    Nobody = Nobody
    Requests = {q1, q2}
    Persons = {ann, bob}
    MaxForms = 2
    MaxLogins = 2
    MaxDeployments = 1
    MaxTurns = 3
SYMMETRY Symmetric
INVARIANTS
    OneEffectPerTask
    ActsAreProven
CHECK_DEADLOCK FALSE
