---------------------------- MODULE CaseVerdict ----------------------------
(***************************************************************************)
(* What a case means to the people who read it: a plan is granted by an    *)
(* approver, posts at most once and only while nothing has been concluded, *)
(* and every conclusion describes the ledger as the case left it.          *)
(***************************************************************************)
CONSTANT Plans

VARIABLES
    granted,   \* the plans an approver has granted
    posted,    \* the plans in the ledger
    undone,    \* the plans that were reversed
    verdict    \* what the case says of itself

vars == <<granted, posted, undone, verdict>>

Init ==
    /\ granted = {}
    /\ posted = {}
    /\ undone = {}
    /\ verdict = "none"

Grant(p) ==
    /\ verdict = "none"
    /\ posted = {}
    /\ granted' = granted \cup {p}
    /\ UNCHANGED <<posted, undone, verdict>>

Post(p) ==
    /\ verdict = "none"
    /\ p \in granted
    /\ posted = {}
    /\ posted' = {p}
    /\ UNCHANGED <<granted, undone, verdict>>

Undo ==
    /\ verdict = "none"
    /\ posted \ undone # {}
    /\ undone' = posted
    /\ UNCHANGED <<granted, posted, verdict>>

\* "unclear" promises nothing; it may follow a conclusion whose archive failed.
Conclude(v) ==
    /\ \/ verdict = "none" /\ v = "settled" /\ posted # {} /\ undone = {}
       \/ verdict = "none" /\ v = "undone" /\ undone # {}
       \/ verdict = "none" /\ v = "untouched" /\ posted = {}
       \/ verdict \in {"none", "settled", "untouched"} /\ v = "unclear"
    /\ verdict' = v
    /\ UNCHANGED <<granted, posted, undone>>

Next ==
    \/ \E p \in Plans : Grant(p) \/ Post(p)
    \/ Undo
    \/ \E v \in {"settled", "undone", "untouched", "unclear"} : Conclude(v)

Spec == Init /\ [][Next]_vars
=============================================================================
