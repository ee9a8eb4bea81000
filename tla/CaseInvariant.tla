---------------------------- MODULE CaseInvariant ----------------------------
(***************************************************************************)
(* Why the safety properties of CaseLifecycle hold: its inductive          *)
(* invariant, in parts.  Each part says what one actor's step may rely on  *)
(* after any number of steps of all others.                                *)
(***************************************************************************)
EXTENDS CaseLifecycle

Early == {"CREATED", "NORMALIZING", "EVIDENCE_COLLECTING", "WAITING_FOR_EVIDENCE",
          "POLICY_MATCHING", "CALCULATING", "ROOT_CAUSE_ANALYZING", "RISK_REVIEW"}
Settling == {"Adjust", "Verify", "Reverse", "PostRollback"}

\* What the row and its projections say about the money.
RowIsSound ==
    /\ status \in Early => approval = "NONE" /\ verification = "NONE"
    /\ status = "WAITING_FOR_APPROVAL" => approval = "PENDING" /\ verification = "NONE"
    /\ status = "REJECTED" => approval = "REJECTED" /\ verification = "NONE"
    /\ status \in MoneyPath =>
          \/ risk = "L1" /\ approval = "NONE"
          \/ risk = "L2" /\ approval = "APPROVED"
    /\ status \in {"READY_TO_EXECUTE", "EXECUTING", "VERIFYING"} => verification = "NONE"
    /\ status = "READY_TO_EXECUTE" => settle = "ABSENT"
    /\ status = "VERIFYING" => settle = "POSTED"
    /\ status = "ROLLBACK_REQUIRED" => verification = "FAILED"
    /\ status = "RECOVERY_REQUIRED" => verification \in {"NONE", "FAILED"}
    /\ status = "ROLLED_BACK" => reverse = "POSTED"
    /\ status \in {"RESOLVED", "KNOWLEDGE_ARCHIVED", "CLOSED"} /\ approval = "APPROVED"
       => verification = "PASSED"
    /\ approval # "NONE" => risk = "L2"

MoneyIsSound ==
    /\ settle # "ABSENT" => approval = "APPROVED"
    /\ verification \in {"PASSED", "FAILED"} => settle = "POSTED"
    /\ reverse # "ABSENT" => verification = "FAILED"
    /\ settle = "OPEN" => status \in {"EXECUTING", "RECOVERY_REQUIRED"}
    /\ reverse = "OPEN" => status \in {"ROLLBACK_REQUIRED", "RECOVERY_REQUIRED"}
    /\ verification = "FAILED" /\ reverse # "POSTED"
       => status \in {"ROLLBACK_REQUIRED", "RECOVERY_REQUIRED"}

\* An execution is under way or has been reported.
ProgressIsSound ==
    status \in {"READY_TO_EXECUTE", "EXECUTING", "VERIFYING"} /\ approval = "APPROVED"
    => runStatus \in Active \cup {"FAILED"}

\* A snapshot that may be written is of the present version and generation.
ViewIsSound(r) ==
    /\ revisionOk[r] => versionOk[r]
    /\ revisionOk[r] /\ pc[r] # "idle" => generationOk[r]

\* Which Skills a run of each kind comes to, at which step, and what its
\* approval is; this holds even when the snapshot of the run is out of date.
PlaceIsSound(r) ==
    /\ pc[r] = "idle" <=> job[r] = "NONE"
    /\ job[r] = "INVESTIGATION" =>
          \/ stage[r] \in Investigation \cup {"Archive"}
          \/ stage[r] \in {"Permission", "Draft"} /\ pc[r] \in {"failing", "unwinding", "reporting"}
    /\ job[r] = "DRAFTING" =>
          \/ stage[r] \in {"Permission", "Draft"} /\ pc[r] \notin {"entering", "closing"}
          \/ stage[r] = "Archive" /\ pc[r] # "entering"
          \/ stage[r] = "Risk" /\ pc[r] = "entering"
    /\ job[r] \in {"EXECUTION", "REPLAY"} =>
          \/ stage[r] = "Permission"
          \/ stage[r] \in Settling \cup {"Archive"} /\ pc[r] \notin {"dispatch", "queued", "starting"}
    /\ job[r] = "ROLLBACK" =>
          \/ stage[r] = "Reverse"
          \/ stage[r] \in {"PostRollback", "Archive"}
             /\ pc[r] \notin {"dispatch", "queued", "starting", "saved"}
    /\ job[r] = "FINALIZE" => stage[r] = "Archive" /\ approval = "REJECTED"
    /\ job[r] \in {"EXECUTION", "REPLAY", "ROLLBACK"} => approval = "APPROVED"
    /\ pc[r] = "dispatch" => job[r] \in {"EXECUTION", "ROLLBACK"}
    /\ pc[r] \in {"queued", "starting"} => job[r] \in {"INVESTIGATION", "EXECUTION", "ROLLBACK"}
    /\ pc[r] \in {"handshake", "cancelling", "failing"} => job[r] = "INVESTIGATION"
    /\ pc[r] = "entering" => job[r] = "DRAFTING"
    /\ pc[r] = "archiving" => stage[r] = "Archive"

\* The case is where its coordinator has brought it.
InStep(r) ==
    /\ SkillFits(stage[r], status)
    /\ stage[r] = "Permission" /\ job[r] = "REPLAY" => status = "EXECUTING"
    /\ stage[r] = "Permission" /\ job[r] # "REPLAY" => status = "READY_TO_EXECUTE"
    /\ stage[r] = "Draft" => status = "EXECUTING"

\* What a coordinator has come to is so as long as its snapshot is of the
\* present version of the case.
RunIsSound(r) ==
    versionOk[r] =>
        /\ pc[r] \in {"ready", "announced", "waiting", "result", "saved"} => InStep(r)
        /\ pc[r] = "cancelling" => status = "WAITING_FOR_EVIDENCE"
        /\ pc[r] = "entering" => status = "READY_TO_EXECUTE"
        /\ pc[r] = "archiving" => status = "KNOWLEDGE_ARCHIVED"
        /\ pc[r] = "closing" => status \in {"WAITING_FOR_EVIDENCE", "WAITING_FOR_APPROVAL",
                                            "CLOSED", "ROLLED_BACK"}
        /\ pc[r] = "saved" /\ stage[r] = "Risk" => risk # "L2"
        /\ pc[r] \in {"ready", "announced", "waiting", "result"} /\ stage[r] = "Approval"
           => risk = "L2"
        /\ \/ job[r] = "DRAFTING"
           \/ /\ job[r] = "INVESTIGATION"
              /\ pc[r] \in {"ready", "announced", "waiting", "result", "saved", "cancelling",
                            "archiving", "failing"}
           => approval = "NONE"

\* A worker acts for the Skill its coordinator is at, or has stopped at.
WorkIsSound(r) ==
    /\ pc[r] \notin {"idle", "announced", "waiting", "failing", "unwinding", "reporting"}
       => task[r] \in {"NONE", "SUCCEEDED"}
    /\ work[r] # "none" => task[r] \in {"RUNNING", "CANCELLED"}
    /\ work[r] = "opened" => stage[r] \in {"Adjust", "Reverse"}
    /\ bound[r] /\ task[r] \in OpenTask => SkillFits(stage[r], status)
    /\ task[r] # "NONE" /\ stage[r] \in Settling => approval = "APPROVED"

\* What a result of a money Skill says about its operation.
Answered(r) ==
    \/ work[r] = "finished"
    \/ pc[r] = "result"
    \/ pc[r] \in {"announced", "waiting"} /\ task[r] = "SUCCEEDED"

AnswerIsSound(r) ==
    /\ Answered(r) /\ stage[r] = "Adjust" => settle = "POSTED"
    /\ Answered(r) /\ stage[r] = "Reverse" => reverse = "POSTED"
    /\ pc[r] # "idle" /\ stage[r] = "PostRollback" => reverse = "POSTED"
    /\ pc[r] = "saved" /\ job[r] = "ROLLBACK" => reverse = "POSTED"

\* An effect in progress belongs to the one operation in doubt.
EffectIsSound(r) ==
    work[r] = "opened" /\ ClaimActive(r) =>
        /\ stage[r] = "Adjust" => settle = "OPEN"
        /\ stage[r] = "Reverse" => reverse = "OPEN"
        /\ \A q \in Runs : work[q] = "opened" /\ ClaimActive(q) => q = r

\* The parts together are inductive: what a step of the code relies on, about
\* the row, the ledger, its own snapshot and the worker it waits for, no step of
\* another run, worker or person destroys.
Inductive ==
    /\ TypeOK
    /\ RowIsSound
    /\ MoneyIsSound
    /\ ProgressIsSound
    /\ \A r \in Runs : /\ ViewIsSound(r)
                       /\ PlaceIsSound(r)
                       /\ RunIsSound(r)
                       /\ WorkIsSound(r)
                       /\ AnswerIsSound(r)
                       /\ EffectIsSound(r)
=============================================================================
