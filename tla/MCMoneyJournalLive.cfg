\* Two calls for one operation, an approver who keeps answering.
SPECIFICATION LiveSpec
CONSTANTS
    Calls = {e1, e2}
    Processes = {p1}
    c1 = c1
    c2 = c2
    ch = ch
    k1 = k1
    k2 = k2
    d1 = d1
    d2 = d2
    Cases = {c1, c2}
    Channels = {ch}
    Digests = {d1, d2}
    BaseKeys = {k1, k2}
    Requests <- OneRequest
    MaxEpoch = 1
PROPERTIES
    EveryCallReturns
    RecoveriesClear
CHECK_DEADLOCK FALSE
