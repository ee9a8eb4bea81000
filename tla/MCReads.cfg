\* One topic at a time: the evidence of a case, or the list of cases.
SPECIFICATION SpecOfBoth
CONSTANTS
    Sources = {"ORDER", "CONTRACT", "REFUND_RECORD", "COMMISSION_LEDGER"}
    MaxReturns = 2
    Partners = {"p1", "p2"}
    CasePartner = "p1"
    PageSize = 1
    MaxPages = 3
    MaxAttempts = 2
    MaxChanges = 1
    MaxEvents = 1
    Nobody = "nobody"
    Cases <- TwoCases
    Readers = {r1}
    Probers = {r2}
    MaxLag = 1
    MaxBytes = 1
    Interval = 2
    CallTime = 2
    Limit = 1
    MaxTime = 7
    MaxCommits = 3
INVARIANTS
    UntouchedRefundsCountOnce
    ReferencesAgree
    ReplicaReadsAreRecent
    SettledCasesAreListedOnce
CHECK_DEADLOCK FALSE
