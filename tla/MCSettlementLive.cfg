\* One case about an order nobody has paid, with fairness.
SPECIFICATION FairSpec
CONSTANTS
    c1 = c1
    c2 = c2
    c3 = c3
    base = base
    bonus = bonus
    extra = extra
    Cases = {c1}
    Components = {base, bonus, extra}
    Applied = {base, bonus}
    Entitled <- PolicyAmounts
    Prior <- NoRows
    Faulty = {c1}
    Deviation = 1
    MaxRecordings = 2
INVARIANTS
    SettledIsEntitled
PROPERTIES
    ApprovedComesToRest
CHECK_DEADLOCK FALSE
