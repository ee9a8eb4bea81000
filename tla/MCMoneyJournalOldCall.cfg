\* A late report of an old call against a recovered operation.
SPECIFICATION Spec
CONSTANTS
    Calls = {e1, e2}
    Processes = {p1}
    c1 = c1
    c2 = c2
    ch = ch
    k1 = k1
    k2 = k2
    d1 = d1
    d2 = d2
    Cases = {c1, c2}
    Channels = {ch}
    Digests = {d1, d2}
    BaseKeys = {k1, k2}
    Requests <- OneRequest
    MaxEpoch = 0
SYMMETRY Symmetry
PROPERTIES
    OldCallNeverFreezesNewRun
CHECK_DEADLOCK FALSE
