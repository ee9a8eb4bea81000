\* Three cases that ask for the same missing amount.
SPECIFICATION Spec
CONSTANTS
    c1 = c1
    c2 = c2
    c3 = c3
    base = base
    bonus = bonus
    extra = extra
    Cases = {c1, c2, c3}
    Components = {base, bonus}
    Applied = {base, bonus}
    Entitled <- PolicyAmounts
    Prior <- BaseMissing
    Faulty = {}
    Deviation = 1
    MaxRecordings = 0
SYMMETRY Interchangeable
INVARIANTS
    SettledIsEntitled
CHECK_DEADLOCK FALSE
