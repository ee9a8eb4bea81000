\* Two approvals, of two cases or of one that is prepared again, and two decisions in the room.
SPECIFICATION SpecOfTurns
CONSTANTS
    Cases = {c1, c2}
    WebUI = WebUI
    Decisions = {yes, no}
    Plain = Plain
    Nobody = Nobody
    MaxRecordings = 1
    MaxApprovals = 2
    MaxMessages = 2
    MaxTurns = 4
SYMMETRY Symmetry
INVARIANTS
    AnswersAreTrue
    RoomDecisionsAreMeant
PROPERTIES
    ImplementsApprovalGate
    TimelyRepliesCount
CHECK_DEADLOCK FALSE
