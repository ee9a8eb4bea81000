\* One transaction of the money journal and two calls of store.audit.
SPECIFICATION Spec
CONSTANTS
    Writers = {w1, w2, w3}
    Guarded = {w1}
    MaxSeq = 4
    Nobody = Nobody
INVARIANTS
    ChainVerifies
CHECK_DEADLOCK FALSE
