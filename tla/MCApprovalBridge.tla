-------------------------- MODULE MCApprovalBridge --------------------------
(***************************************************************************)
(* Small instances of ApprovalBridge for TLC.                              *)
(***************************************************************************)
EXTENDS ApprovalBridge, TLC

CONSTANT MaxTurns   \* bound: approvals, messages, re-preparations and
                    \* forms that lapse, together

ASSUME TurnsAssumption == MaxTurns \in Nat

Turns ==
    Cardinality({a \in Approvals : approval[a] # "NONE"}) + Len(room)
      + Cardinality({c \in Cases : row[c].rec > 0}) + Cardinality(expired)

SpecOfTurns == Init /\ [][Next /\ Turns' <= MaxTurns]_vars

Symmetry == Permutations(Cases) \cup Permutations(Decisions)
=============================================================================
