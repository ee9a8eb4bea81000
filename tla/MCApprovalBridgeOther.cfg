\* A reply to a request that is not recorded yet, while another is open.
SPECIFICATION Spec
CONSTANTS
    Cases = {c1, c2}
    WebUI = WebUI
    Decisions = {yes, no}
    Plain = Plain
    Nobody = Nobody
    MaxRecordings = 1
    MaxApprovals = 2
    MaxMessages = 2
    MaxTurns = 4
SYMMETRY Symmetry
INVARIANTS
    RepliesDecideTheirRequest
CHECK_DEADLOCK FALSE
