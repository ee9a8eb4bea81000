--------------------------- MODULE MCCaseLifecycle ---------------------------
(***************************************************************************)
(* Small instances of CaseLifecycle for TLC.                               *)
(***************************************************************************)
EXTENDS CaseInvariant, TLC

CONSTANTS r1, r2, p1, p2

OneProcess   == [r \in Runs |-> p1]
TwoProcesses == [r \in Runs |-> IF r = r1 THEN p1 ELSE p2]

\* Places are alike: the second is taken when the first is not free.
InOrder == pc[r2] = "idle" /\ pc'[r2] # "idle" => ~Free(r1)

\* A case that is prepared again is quiet, and starts over as it started,
\* except that the journal may know of its channel.
LiveSpecOfOnce ==
    /\ Init
    /\ [][/\ Next
          /\ InOrder
          /\ status' = "CREATED" => status = "CREATED"]_vars
    /\ WF_vars(\E r \in Runs : Resume(r))
    /\ \A r \in Runs : WF_vars(RunStep(r)) /\ WF_vars(WorkReturns(r) \/ WorkerDies(r))

Symmetry == Permutations(Runs)
=============================================================================
