---------------------------- MODULE ApprovalGate ----------------------------
(***************************************************************************)
(* What the approval of a settlement promises: a request is asked once, and *)
(* one decision of one person settles it for good, whichever way it comes.  *)
(***************************************************************************)
CONSTANTS Approvals, Decisions, Deciders, Nobody

VARIABLES
  approval,  \* the state of each approval
  by         \* whose decision it was

Init ==
  /\ approval = [a \in Approvals |-> "NONE"]
  /\ by = [a \in Approvals |-> Nobody]

Ask(a) ==
  /\ approval[a] = "NONE"
  /\ approval' = [approval EXCEPT ![a] = "PENDING"]
  /\ UNCHANGED by

Decide(a, d, p) ==
  /\ approval[a] = "PENDING"
  /\ approval' = [approval EXCEPT ![a] = d]
  /\ by' = [by EXCEPT ![a] = p]

Next == \E a \in Approvals :
  \/ Ask(a)
  \/ \E d \in Decisions, p \in Deciders : Decide(a, d, p)

Spec == Init /\ [][Next]_<<approval, by>>
=============================================================================
