\* Two cases about an order that nobody has paid, with a component that does not
\* apply: one may find what the other has posted wrong.
SPECIFICATION Spec
CONSTANTS
    c1 = c1
    c2 = c2
    c3 = c3
    base = base
    bonus = bonus
    extra = extra
    Cases = {c1, c2}
    Components = {base, bonus, extra}
    Applied = {base, bonus}
    Entitled <- PolicyAmounts
    Prior <- NoRows
    Faulty = {c1}
    Deviation = 1
    MaxRecordings = 1
INVARIANTS
    AuthorityIsBounded
    NothingUnverifiedStays
    ReversalIsVerified
    CorrectAdjustmentPasses
CHECK_DEADLOCK FALSE
