\* A new API before its acceptance, with a reply in the room.
SPECIFICATION Spec
CONSTANTS
    Requests = {q1}
    Runs = {r1}
    Workers = {w1}
    Operator = operator
    Cases = {c1}
    NoOne = NoOne
INVARIANTS
    MaintenanceIsQuiet
CHECK_DEADLOCK FALSE
