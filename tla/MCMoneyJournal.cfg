\* Two calls in two processes, two cases on one channel, one re-preparation each.
SPECIFICATION SpecOfPairs
CONSTANTS
    Calls = {e1, e2}
    Processes = {p1, p2}
    c1 = c1
    c2 = c2
    ch = ch
    k1 = k1
    k2 = k2
    d1 = d1
    d2 = d2
    Cases = {c1, c2}
    Channels = {ch}
    Digests = {d1, d2}
    BaseKeys = {k1, k2}
    Requests <- ThreeRequests
    MaxEpoch = 1
SYMMETRY Symmetry
INVARIANTS
    LedgerMatchesJournal
    UnresolvedIsReconcilable
    FencedCallNeverPosts
    AnswersAreTrue
PROPERTIES
    ImplementsPromise
CHECK_DEADLOCK FALSE
