\* An order that was paid a component it is not entitled to.
SPECIFICATION Spec
CONSTANTS
    c1 = c1
    c2 = c2
    c3 = c3
    base = base
    bonus = bonus
    extra = extra
    Cases = {c1}
    Components = {base, bonus}
    Applied = {base}
    Entitled <- PolicyAmounts
    Prior <- WrongComponent
    Faulty = {}
    Deviation = 1
    MaxRecordings = 0
INVARIANTS
    CorrectAdjustmentPasses
CHECK_DEADLOCK FALSE
