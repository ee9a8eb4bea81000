---------------------------- MODULE CaseLifecycle ----------------------------
(***************************************************************************)
(* The life of one case that AgentTeams workers handle over Matrix: the    *)
(* case row and its status (state_machine.py), the coordinators that drive *)
(* it (matrix_team.py on top of mcp_team.py, started by api.py), the stage *)
(* tasks workers claim and complete (agent_bridge.py, task_guard.py), the  *)
(* human decisions (mocks.py, recovery.py) and the failure report.         *)
(*                                                                         *)
(* A coordinator keeps a snapshot of the case row across its awaits.  Each *)
(* row carries a revision, a domain version, and a recording with a        *)
(* recovery generation.  They are only ever compared with what a           *)
(* coordinator or task remembers, and a value never comes back, so the     *)
(* model keeps the outcome of each comparison: revisionOk, versionOk and   *)
(* generationOk of a coordinator, bound of a task.                         *)
(*                                                                         *)
(* A money operation is one of MoneyJournal's, with its calls and fences   *)
(* left out.                                                               *)
(***************************************************************************)
EXTENDS Naturals

CONSTANTS
    Processes,   \* API processes
    Runs,        \* places for background runs; a place is used again
    Home         \* the process of each place

ASSUME HomeAssumption == Home \in [Runs -> Processes]

VARIABLES
    \* the case row and its projections
    status, runStatus, runStage, risk, approval, verification,
    \* the journal: settlement and compensation of the case, its hold, and
    \* whether the journal has a channel of the case at all
    settle, reverse, hold, known,
    \* a coordinator: its step, its entry point, its Skill
    pc, job, stage,
    \* whether what it remembers of the row still matches
    revisionOk, versionOk, generationOk,
    current,     \* history: started by the latest recovery or preparation
    \* its task: row status, whether its case version matches, its worker
    task, bound, work

caseVars == <<status, runStatus, runStage, risk, approval, verification>>
money    == <<settle, reverse, hold, known>>
place    == <<pc, job, stage>>
view     == <<revisionOk, versionOk, generationOk, current>>
tasks    == <<task, bound, work>>
vars     == <<caseVars, money, place, view, tasks>>

Investigation == {"Normalize", "Entity", "Evidence", "Policy", "Calculate",
                  "RootCause", "Risk", "Approval"}
Stage == Investigation \cup {"Permission", "Draft", "Adjust", "Verify", "Reverse",
                             "PostRollback", "Archive"}

MoneyPath == {"READY_TO_EXECUTE", "EXECUTING", "VERIFYING", "ROLLBACK_REQUIRED",
              "RECOVERY_REQUIRED"}
Status == {"CREATED", "NORMALIZING", "EVIDENCE_COLLECTING", "WAITING_FOR_EVIDENCE",
           "POLICY_MATCHING", "CALCULATING", "ROOT_CAUSE_ANALYZING", "RISK_REVIEW",
           "WAITING_FOR_APPROVAL", "RESOLVED", "KNOWLEDGE_ARCHIVED", "CLOSED",
           "REJECTED", "ROLLED_BACK", "FAILED"} \cup MoneyPath
Active    == {"QUEUED", "STARTING", "RUNNING"}
RunStatus == Active \cup {"NONE", "WAITING_HUMAN", "COMPLETED", "FAILED"}
Operation == {"ABSENT", "OPEN", "ABANDONED", "POSTED"}
Job       == {"NONE", "INVESTIGATION", "DRAFTING", "EXECUTION", "REPLAY", "ROLLBACK", "FINALIZE"}
Step      == {"idle", "dispatch", "queued", "starting", "handshake", "entering", "ready",
              "announced", "waiting", "result", "saved", "cancelling", "archiving",
              "closing", "publishing", "failing", "unwinding", "reporting"}
OpenTask  == {"PENDING", "RUNNING", "FAILED_RETRYABLE"}
TaskStatus == OpenTask \cup {"NONE", "SUCCEEDED", "FAILED_FINAL", "RESULT_UNKNOWN", "CANCELLED"}
Work      == {"none", "running", "opened", "finished", "rejected", "unknown"}

TypeOK ==
    /\ status \in Status
    /\ runStatus \in RunStatus
    /\ runStage \in Stage \cup {"None"}
    /\ risk \in {"NONE", "L0", "L1", "L2", "L3"}
    /\ approval \in {"NONE", "PENDING", "APPROVED", "REJECTED"}
    /\ verification \in {"NONE", "PASSED", "FAILED", "NOT_APPLICABLE"}
    /\ settle \in Operation
    /\ reverse \in Operation
    /\ hold \in BOOLEAN
    /\ known \in BOOLEAN
    /\ pc \in [Runs -> Step]
    /\ job \in [Runs -> Job]
    /\ stage \in [Runs -> Stage]
    /\ revisionOk \in [Runs -> BOOLEAN]
    /\ versionOk \in [Runs -> BOOLEAN]
    /\ generationOk \in [Runs -> BOOLEAN]
    /\ current \in [Runs -> BOOLEAN]
    /\ task \in [Runs -> TaskStatus]
    /\ bound \in [Runs -> BOOLEAN]
    /\ work \in [Runs -> Work]

-----------------------------------------------------------------------------
(* Writing the case row *)

Nowhere == [q \in Runs |-> FALSE]
Only(r) == [q \in Runs |-> q = r]

\* versioned_case_write and its callers: the revision compared under the row
\* lock covers status and state version, which no write changes without it.
MayWrite(r) == revisionOk[r]

\* update_case_run patches team_run of the current row: r alone knows the new
\* revision; the domain version stays.
Progress(r, s, g) ==
    /\ MayWrite(r)
    /\ runStatus' = s
    /\ runStage' = g
    /\ revisionOk' = Only(r)
    /\ UNCHANGED <<status, risk, approval, verification, versionOk, generationOk,
                   current, bound, task, work, money>>

\* Mutant: the case version that tasks are bound to does not cover the status.
RewriteKeepingTasks(r) ==
    /\ revisionOk' = Only(r)
    /\ versionOk' = Only(r)
    /\ UNCHANGED <<runStatus, runStage, generationOk, current, tasks, money>>

\* A domain write: every other snapshot and every open task is outdated.
Rewrite(r) ==
    /\ revisionOk' = Only(r)
    /\ versionOk' = Only(r)
    /\ bound' = Nowhere
    /\ UNCHANGED <<runStatus, runStage, generationOk, current, task, work, money>>

Move(r, to) ==
    /\ MayWrite(r)
    /\ status' = to
    /\ Rewrite(r)

Goto(r, s) ==
    /\ pc' = [pc EXCEPT ![r] = s]
    /\ UNCHANGED <<job, stage>>

Begins(r, g) ==
    /\ pc' = [pc EXCEPT ![r] = "ready"]
    /\ stage' = [stage EXCEPT ![r] = g]
    /\ UNCHANGED job

Stop(r) ==
    /\ pc' = [pc EXCEPT ![r] = "idle"]
    /\ job' = [job EXCEPT ![r] = "NONE"]
    /\ UNCHANGED stage

projections == <<risk, approval, verification>>

-----------------------------------------------------------------------------
(* Starting a run *)

\* A place is free when no step of its last run or worker can follow.
Free(r) ==
    /\ pc[r] = "idle"
    /\ work[r] = "none"
    /\ ~(task[r] \in {"PENDING", "FAILED_RETRYABLE"} /\ bound[r])

\* _has_live_team_task: only runs of this process that have been spawned.
LiveHere(p) ==
    \E q \in Runs : /\ Home[q] = p
                    /\ pc[q] \notin {"idle", "dispatch"}
                    /\ job[q] # "FINALIZE"

\* The handlers that start a run do not await between commit and spawn.
HandlerBusy(p) == \E q \in Runs : Home[q] = p /\ pc[q] = "dispatch"

\* run_case_via_team: save QUEUED, then spawn.  A duplicate request whose
\* spawn is refused has still replaced the row under the live run.
StartInvestigation(r) ==
    /\ Free(r)
    /\ ~HandlerBusy(Home[r])
    /\ status = "CREATED"
    /\ runStatus' = "QUEUED"
    /\ runStage' = "None"
    /\ revisionOk' = Nowhere
    /\ IF LiveHere(Home[r])
       THEN UNCHANGED <<place, generationOk, current, tasks>>
       ELSE /\ pc' = [pc EXCEPT ![r] = "queued"]
            /\ job' = [job EXCEPT ![r] = "INVESTIGATION"]
            /\ stage' = [stage EXCEPT ![r] = "Normalize"]
            /\ generationOk' = [generationOk EXCEPT ![r] = FALSE]
            /\ current' = [current EXCEPT ![r] = TRUE]
            /\ task' = [task EXCEPT ![r] = "NONE"]
            /\ UNCHANGED <<bound, work>>
    /\ UNCHANGED <<status, projections, versionOk, money>>

\* _dispatch_team_or_report_failure
Dispatch(r) ==
    /\ pc[r] = "dispatch"
    /\ \/ Goto(r, "queued") /\ ~LiveHere(Home[r])
       \/ Goto(r, "reporting")
    /\ UNCHANGED <<caseVars, money, view, tasks>>

\* _run_team_background reads the case, its recording and its generation.
Begin(r) ==
    /\ pc[r] = "queued"
    /\ Goto(r, "starting")
    /\ revisionOk' = [revisionOk EXCEPT ![r] = TRUE]
    /\ versionOk' = [versionOk EXCEPT ![r] = TRUE]
    /\ generationOk' = [generationOk EXCEPT ![r] = TRUE]
    /\ UNCHANGED <<caseVars, money, current, tasks>>

\* The Matrix wrapper marks the run before its entry point looks at the
\* status; a wrong status is an error of the run.
Enter(r) ==
    /\ pc[r] = "starting"
    /\ UNCHANGED projections
    /\ \/ /\ job[r] = "INVESTIGATION"
          /\ Progress(r, "STARTING", "None")
          /\ Goto(r, "handshake")
       \/ /\ job[r] = "EXECUTION"
          /\ Progress(r, "RUNNING", "Permission")
          /\ \/ status = "READY_TO_EXECUTE" /\ Begins(r, "Permission")
             \/ /\ status = "EXECUTING"
                /\ pc' = [pc EXCEPT ![r] = "ready"]
                /\ job' = [job EXCEPT ![r] = "REPLAY"]
                /\ UNCHANGED stage
             \/ /\ status \notin {"READY_TO_EXECUTE", "EXECUTING"}
                /\ Goto(r, "unwinding")
       \/ /\ job[r] = "ROLLBACK"
          /\ Progress(r, "RUNNING", "Reverse")
          /\ \/ /\ status # "ROLLBACK_REQUIRED"
                /\ Goto(r, "unwinding")
             \/ /\ status = "ROLLBACK_REQUIRED"
                /\ settle = "POSTED" /\ reverse # "POSTED"
                /\ Begins(r, "Reverse")
             \/ /\ status = "ROLLBACK_REQUIRED"
                /\ settle = "POSTED" /\ reverse = "POSTED"
                /\ Begins(r, "PostRollback")
             \/ /\ status = "ROLLBACK_REQUIRED"
                /\ ~(settle = "POSTED" /\ reverse # "POSTED")
                /\ Goto(r, "saved")

\* After the handshake: RUNNING, the status check, and the first save.
Handshake(r) ==
    /\ pc[r] = "handshake"
    /\ Progress(r, "RUNNING", "None")
    /\ IF status \in {"CREATED", "WAITING_FOR_EVIDENCE"}
       THEN Begins(r, "Normalize")
       ELSE Goto(r, "unwinding")

-----------------------------------------------------------------------------
(* One stage: a task for a worker *)

\* The task row is inserted without looking at the case row.
Publish(r) ==
    /\ pc[r] = "ready"
    /\ Goto(r, "announced")
    /\ task' = [task EXCEPT ![r] = "PENDING"]
    /\ bound' = [bound EXCEPT ![r] = versionOk[r]]
    /\ work' = [work EXCEPT ![r] = "none"]
    /\ UNCHANGED <<caseVars, money, view>>

\* The worker is triggered, then the run names its stage.
Announce(r) ==
    /\ pc[r] = "announced"
    /\ Progress(r, "RUNNING", stage[r])
    /\ Goto(r, "waiting")

Collect(r) ==
    /\ pc[r] = "waiting"
    /\ task[r] = "SUCCEEDED"
    /\ Progress(r, runStatus, runStage)
    /\ Goto(r, "result")

\* Mutant: the coordinator waits without a deadline.
GiveUpOnFailure(r) ==
    /\ pc[r] = "waiting"
    /\ task[r] \in {"FAILED_FINAL", "RESULT_UNKNOWN", "CANCELLED"}
    /\ Goto(r, IF job[r] = "INVESTIGATION" THEN "failing" ELSE "unwinding")
    /\ UNCHANGED <<caseVars, money, view, tasks>>

\* The stage deadline, or a task that ended without a result.
GiveUp(r) ==
    /\ pc[r] = "waiting"
    /\ Goto(r, IF job[r] = "INVESTIGATION" THEN "failing" ELSE "unwinding")
    /\ UNCHANGED <<caseVars, money, view, tasks>>

-----------------------------------------------------------------------------
(* What a coordinator does with a result *)

Saves == {"Entity", "Policy", "Calculate", "RootCause"}

\* save_case before the transition.
Save(r) ==
    /\ pc[r] = "result"
    /\ stage[r] \in Saves
    /\ Move(r, status)
    /\ Goto(r, "saved")
    /\ UNCHANGED projections

SaveRisk(r) ==
    /\ pc[r] = "result"
    /\ stage[r] = "Risk"
    /\ Move(r, status)
    /\ risk' \in {"L0", "L1", "L2", "L3"}
    /\ IF risk' = "L2" THEN Begins(r, "Approval") ELSE Goto(r, "saved")
    /\ UNCHANGED <<approval, verification>>

\* The transition that follows a result without a choice.
Advance(r) ==
    /\ \/ pc[r] = "result" /\ stage[r] \in {"Normalize", "Evidence", "Adjust"}
       \/ pc[r] = "saved" /\ stage[r] \in Saves
    /\ UNCHANGED projections
    /\ \/ stage[r] = "Normalize" /\ Move(r, "NORMALIZING")          /\ Begins(r, "Entity")
       \/ stage[r] = "Entity"    /\ Move(r, "EVIDENCE_COLLECTING")  /\ Begins(r, "Evidence")
       \/ stage[r] = "Evidence"  /\ Move(r, "POLICY_MATCHING")      /\ Begins(r, "Policy")
       \/ stage[r] = "Policy"    /\ Move(r, "CALCULATING")          /\ Begins(r, "Calculate")
       \/ stage[r] = "Calculate" /\ Move(r, "ROOT_CAUSE_ANALYZING") /\ Begins(r, "RootCause")
       \/ stage[r] = "RootCause" /\ Move(r, "RISK_REVIEW")          /\ Begins(r, "Risk")
       \/ stage[r] = "Adjust"    /\ Move(r, "VERIFYING")            /\ Begins(r, "Verify")

\* No unique order, or a low evidence score.
WaitForEvidence(r) ==
    /\ pc[r] = "result"
    /\ stage[r] \in {"Entity", "Evidence"}
    /\ Move(r, "WAITING_FOR_EVIDENCE")
    /\ Goto(r, IF stage[r] = "Entity" THEN "cancelling" ELSE "closing")
    /\ UNCHANGED projections

Cancelled == [q \in Runs |-> IF task[q] \in OpenTask THEN "CANCELLED" ELSE task[q]]

CancelTasks(r) ==
    /\ pc[r] = "cancelling"
    /\ task' = Cancelled
    /\ Goto(r, "closing")
    /\ UNCHANGED <<caseVars, money, view, bound, work>>

\* Mutant: a small amount takes the path that posts.
RouteSmall(r) ==
    /\ pc[r] = "saved"
    /\ stage[r] = "Risk"
    /\ \/ risk # "L1" /\ Move(r, IF risk = "L0" THEN "RESOLVED" ELSE "CLOSED")
                      /\ Begins(r, "Archive")
       \/ risk = "L1" /\ Move(r, "EXECUTING")
                      /\ Begins(r, "Adjust")
    /\ UNCHANGED projections

\* No difference, manual handling, or a draft without approval.
Route(r) ==
    /\ pc[r] = "saved"
    /\ stage[r] = "Risk"
    /\ \/ risk = "L0" /\ Move(r, "RESOLVED") /\ Begins(r, "Archive")
       \/ risk = "L3" /\ Move(r, "CLOSED") /\ Begins(r, "Archive")
       \/ /\ risk = "L1"
          /\ Move(r, "READY_TO_EXECUTE")
          /\ pc' = [pc EXCEPT ![r] = "entering"]
          /\ job' = [job EXCEPT ![r] = "DRAFTING"]
          /\ UNCHANGED stage
    /\ UNCHANGED projections

\* The execution wrapper inside the investigation.
EnterDrafting(r) ==
    /\ pc[r] = "entering"
    /\ Progress(r, "RUNNING", "Permission")
    /\ Begins(r, "Permission")

AskApproval(r) ==
    /\ pc[r] = "result"
    /\ stage[r] = "Approval"
    /\ Move(r, "WAITING_FOR_APPROVAL")
    /\ approval' = "PENDING"
    /\ Goto(r, "closing")
    /\ UNCHANGED <<risk, verification>>

\* Permission granted: READY_TO_EXECUTE moves on, a replayed execution is
\* there already.  A settlement found posted is not submitted again.
Permitted(r) ==
    /\ pc[r] = "result"
    /\ stage[r] = "Permission"
    /\ \/ job[r] # "REPLAY" /\ Move(r, "EXECUTING")
       \/ job[r] = "REPLAY" /\ UNCHANGED <<status, runStatus, runStage, view, tasks, money>>
    /\ stage' = [stage EXCEPT ![r] = IF job[r] = "DRAFTING" THEN "Draft" ELSE "Adjust"]
    /\ pc' = [pc EXCEPT ![r] = IF job[r] # "DRAFTING" /\ settle = "POSTED"
                               THEN "result" ELSE "ready"]
    /\ UNCHANGED <<projections, job>>

\* The draft is stored, then the case resolved without verification.
SaveDraft(r) ==
    /\ pc[r] = "result"
    /\ stage[r] = "Draft"
    /\ Progress(r, runStatus, runStage)
    /\ Goto(r, "saved")

ResolveDraft(r) ==
    /\ pc[r] = "saved"
    /\ stage[r] = "Draft"
    /\ Move(r, "RESOLVED")
    /\ verification' = "NOT_APPLICABLE"
    /\ Begins(r, "Archive")
    /\ UNCHANGED <<risk, approval>>

\* The verdict, its projection and the transition are one commit.
Verified(r) ==
    /\ pc[r] = "result"
    /\ stage[r] = "Verify"
    /\ \/ Move(r, "RESOLVED") /\ verification' = "PASSED" /\ Begins(r, "Archive")
       \/ Move(r, "ROLLBACK_REQUIRED") /\ verification' = "FAILED" /\ Begins(r, "Reverse")
    /\ UNCHANGED <<risk, approval>>

Reversed(r) ==
    /\ pc[r] = "result"
    /\ stage[r] = "Reverse"
    /\ Begins(r, "PostRollback")
    /\ UNCHANGED <<caseVars, money, view, tasks>>

\* The verification after the compensation; a resumed rollback that finds no
\* snapshot to compare with fails without asking ("saved").
RolledBack(r) ==
    /\ \/ /\ pc[r] = "result"
          /\ stage[r] = "PostRollback"
          /\ \/ Move(r, "ROLLED_BACK") /\ Begins(r, "Archive")
             \/ Move(r, "FAILED") /\ Goto(r, "unwinding")
       \/ /\ pc[r] = "saved"
          /\ job[r] = "ROLLBACK"
          /\ Move(r, "FAILED") /\ Goto(r, "unwinding")
    /\ UNCHANGED projections

\* Only a resolved or rejected case moves on when it is archived.
Archived(r) ==
    /\ UNCHANGED projections
    /\ \/ /\ pc[r] = "result"
          /\ stage[r] = "Archive"
          /\ \/ /\ status \in {"RESOLVED", "REJECTED"}
                /\ Move(r, "KNOWLEDGE_ARCHIVED")
                /\ Goto(r, "archiving")
             \/ /\ status \notin {"RESOLVED", "REJECTED"}
                /\ MayWrite(r)
                /\ Goto(r, "closing")
                /\ UNCHANGED <<status, runStatus, runStage, view, tasks, money>>
       \/ /\ pc[r] = "archiving"
          /\ Move(r, "CLOSED")
          /\ Goto(r, "closing")

\* The wrapper's last update; the drafting wrapper hands back to the
\* investigation wrapper, which asks for approval when the case waits for it.
Close(r) ==
    /\ pc[r] = "closing"
    /\ LET human == job[r] = "INVESTIGATION" /\ status = "WAITING_FOR_APPROVAL" IN
       /\ Progress(r, IF human THEN "WAITING_HUMAN" ELSE "COMPLETED", "None")
       /\ \/ job[r] = "DRAFTING" /\ job' = [job EXCEPT ![r] = "INVESTIGATION"]
                                 /\ UNCHANGED <<pc, stage>>
          \/ job[r] # "DRAFTING" /\ human /\ Goto(r, "publishing")
          \/ job[r] # "DRAFTING" /\ Stop(r)

PublishRequest(r) ==
    /\ pc[r] = "publishing"
    /\ IF approval = "PENDING" /\ MayWrite(r)
       THEN Progress(r, runStatus, runStage)
       ELSE UNCHANGED <<caseVars, money, view, tasks>>
    /\ Stop(r)

-----------------------------------------------------------------------------
(* When a run fails *)

\* Its next write of the row is refused (StaleCaseTransition), and so is every
\* write of its error path: the run ends without a trace.
Superseded(r) ==
    /\ ~MayWrite(r)
    /\ \/ pc[r] \in {"starting", "handshake", "entering", "announced", "saved",
                     "archiving", "closing", "failing", "unwinding"}
       \/ pc[r] = "result" /\ stage[r] # "Reverse" /\ ~(stage[r] = "Permission" /\ job[r] = "REPLAY")
       \/ pc[r] = "waiting" /\ task[r] = "SUCCEEDED"
    /\ Stop(r)
    /\ UNCHANGED <<caseVars, money, view, tasks>>

\* A transport, database or validation error.  The handshake and the drafting
\* wrapper are outside the investigation's own handler, the first read and the
\* last update outside every wrapper.
Raise(r) ==
    /\ \/ /\ pc[r] \in {"ready", "announced", "result", "saved", "cancelling", "archiving"}
          /\ Goto(r, IF job[r] = "INVESTIGATION" THEN "failing" ELSE "unwinding")
       \/ /\ pc[r] \in {"handshake", "failing"}
          /\ Goto(r, "unwinding")
       \/ /\ job[r] = "DRAFTING"
          /\ pc[r] \in {"entering", "closing"}
          /\ pc' = [pc EXCEPT ![r] = "failing"]
          /\ job' = [job EXCEPT ![r] = "INVESTIGATION"]
          /\ UNCHANGED stage
       \/ /\ pc[r] \in {"starting", "closing", "publishing"}
          /\ job[r] \notin {"DRAFTING", "FINALIZE"}
          /\ Goto(r, "reporting")
    /\ UNCHANGED <<caseVars, money, view, tasks>>

\* The process dies, or the database refuses the error path as well.
Vanish(r) ==
    /\ pc[r] # "idle"
    /\ Stop(r)
    /\ UNCHANGED <<caseVars, money, view, tasks>>

\* The investigation's handler.
Fail(r) ==
    /\ pc[r] = "failing"
    /\ IF status \in {"CLOSED", "ROLLED_BACK", "FAILED"}
       THEN /\ MayWrite(r)
            /\ UNCHANGED <<status, runStatus, runStage, view, tasks, money>>
       ELSE Move(r, "FAILED")
    /\ Goto(r, "unwinding")
    /\ UNCHANGED projections

\* The wrapper's handler.
Unwind(r) ==
    /\ pc[r] = "unwinding"
    /\ Progress(r, "FAILED", IF job[r] = "FINALIZE" THEN "None" ELSE runStage)
    /\ \/ /\ job[r] = "DRAFTING"
          /\ pc' = [pc EXCEPT ![r] = "failing"]
          /\ job' = [job EXCEPT ![r] = "INVESTIGATION"]
          /\ UNCHANGED stage
       \/ job[r] = "FINALIZE" /\ Stop(r)
       \/ job[r] \notin {"DRAFTING", "FINALIZE"} /\ Goto(r, "reporting")

\* Mutant: the report does not compare recording and generation.
ReportForAny(r) == status \notin {"CLOSED", "ROLLED_BACK"}

MayReport(r) ==
    /\ generationOk[r]
    /\ status \notin {"CLOSED", "ROLLED_BACK"}

Interrupted == {"EXECUTING", "VERIFYING", "ROLLBACK_REQUIRED"}

\* record_background_failure: reads and writes the row under its lock,
\* whatever its revision.
Report(r) ==
    /\ pc[r] = "reporting"
    /\ Stop(r)
    /\ UNCHANGED <<projections, settle, reverse, known, runStage, generationOk, current,
                   task, work>>
    /\ \/ /\ ~MayReport(r)
          /\ UNCHANGED <<status, runStatus, hold, revisionOk, versionOk, bound>>
       \/ /\ MayReport(r)
          /\ runStatus' = "FAILED"
          /\ hold' = (hold \/ (status \in Interrupted /\ known))
          /\ status' = IF status \in Interrupted THEN "RECOVERY_REQUIRED"
                       ELSE IF status \in {"READY_TO_EXECUTE", "RECOVERY_REQUIRED", "FAILED"}
                            THEN status ELSE "FAILED"
          /\ revisionOk' = Nowhere
          /\ IF status' = status
             THEN UNCHANGED <<versionOk, bound>>
             ELSE versionOk' = Nowhere /\ bound' = Nowhere

-----------------------------------------------------------------------------
(* The worker of a task *)

\* Mutant: a claim does not compare the version of the case.
ClaimOfAnyVersion(r) == task[r] = "RUNNING"

\* assert_active_claim, under the lock of the effect.
ClaimActive(r) == task[r] = "RUNNING" /\ bound[r]

Claim(r) ==
    /\ task[r] \in {"PENDING", "FAILED_RETRYABLE"}
    /\ bound[r]
    /\ work[r] = "none"
    /\ task' = [task EXCEPT ![r] = "RUNNING"]
    /\ work' = [work EXCEPT ![r] = "running"]
    /\ UNCHANGED <<caseVars, money, place, view, bound>>

Works(r, w) ==
    /\ work' = [work EXCEPT ![r] = w]
    /\ UNCHANGED <<caseVars, place, view, task, bound>>

\* A Skill without money: its result, or an error.
Compute(r) ==
    /\ work[r] = "running"
    /\ stage[r] \notin {"Adjust", "Reverse"}
    /\ \E w \in {"finished", "rejected"} : Works(r, w)
    /\ UNCHANGED money

\* What a money task does next to its operation op, of which op2 is the other.
Blocked == hold \/ settle = "OPEN" \/ reverse = "OPEN"

OpenEffect(r) ==
    /\ work[r] = "running"
    /\ stage[r] \in {"Adjust", "Reverse"}
    /\ UNCHANGED hold
    /\ LET op == IF stage[r] = "Adjust" THEN settle ELSE reverse IN
       \/ ~ClaimActive(r) /\ Works(r, "rejected") /\ UNCHANGED <<settle, reverse, known>>
       \/ ClaimActive(r) /\ op = "POSTED" /\ Works(r, "finished")
                         /\ UNCHANGED <<settle, reverse, known>>
       \/ ClaimActive(r) /\ op # "POSTED" /\ Blocked /\ Works(r, "unknown")
                         /\ UNCHANGED <<settle, reverse, known>>
       \/ /\ ClaimActive(r)
          /\ op # "POSTED"
          /\ ~Blocked
          /\ settle' = IF stage[r] = "Adjust" THEN "OPEN" ELSE settle
          /\ reverse' = IF stage[r] = "Reverse" THEN "OPEN" ELSE reverse
          /\ known' = TRUE
          /\ Works(r, "opened")

Resolve(r, s) ==
    /\ settle' = IF stage[r] = "Adjust" THEN s ELSE settle
    /\ reverse' = IF stage[r] = "Reverse" THEN s ELSE reverse
    /\ UNCHANGED <<hold, known>>

\* The effect commits (acknowledged or not), is rejected, or is interrupted;
\* without an active claim the row stays open behind a definite error.
EndEffect(r) ==
    /\ work[r] = "opened"
    /\ \/ ~ClaimActive(r) /\ Works(r, "rejected") /\ UNCHANGED money
       \/ /\ ClaimActive(r)
          /\ \/ Resolve(r, "POSTED") /\ (Works(r, "finished") \/ Works(r, "unknown"))
             \/ Resolve(r, "ABANDONED") /\ Works(r, "rejected")
             \/ Works(r, "unknown") /\ UNCHANGED money

\* Mutant: a result that is not known counts as a result.
OutcomeOptimistic(w) ==
    IF w = "rejected" THEN {"FAILED_RETRYABLE", "FAILED_FINAL"} ELSE {"SUCCEEDED"}

Outcome(w) ==
    {s \in TaskStatus : \/ w = "finished" /\ s = "SUCCEEDED"
                        \/ w = "rejected" /\ s \in {"FAILED_RETRYABLE", "FAILED_FINAL"}
                        \/ w = "unknown"  /\ s = "RESULT_UNKNOWN"}

\* An unknown result freezes the case (or fails to); the StageResult is
\* refused when the task is no longer running.
Complete(r) ==
    /\ work[r] \in {"finished", "rejected", "unknown"}
    /\ work' = [work EXCEPT ![r] = "none"]
    /\ \E s \in Outcome(work[r]) :
         task' = [task EXCEPT ![r] = IF @ = "RUNNING" THEN s ELSE @]
    /\ \/ UNCHANGED hold
       \/ work[r] = "unknown" /\ hold' = (hold \/ known)
    /\ UNCHANGED <<caseVars, settle, reverse, known, place, view, bound>>

WorkerDies(r) ==
    /\ work[r] # "none"
    /\ Works(r, "none")
    /\ UNCHANGED money

-----------------------------------------------------------------------------
(* People *)

Spawn(r, j, g) ==
    /\ pc' = [pc EXCEPT ![r] = IF j = "FINALIZE" THEN "ready" ELSE "dispatch"]
    /\ job' = [job EXCEPT ![r] = j]
    /\ stage' = [stage EXCEPT ![r] = g]

\* decide_case_approval: the row must be the one the request has read; the
\* handler goes on with the row it has just written.
Decide(r, decision) ==
    /\ Free(r)
    /\ ~HandlerBusy(Home[r])
    /\ status = "WAITING_FOR_APPROVAL"
    /\ approval = "PENDING"
    /\ approval' = decision
    /\ revisionOk' = Only(r)
    /\ versionOk' = Only(r)
    /\ generationOk' = [generationOk EXCEPT ![r] = TRUE]
    /\ current' = [current EXCEPT ![r] = TRUE]
    /\ bound' = Nowhere
    /\ \/ /\ decision = "APPROVED"
          /\ status' = "READY_TO_EXECUTE"
          /\ runStatus' = "QUEUED"
          /\ runStage' = "None"
          /\ task' = [task EXCEPT ![r] = "NONE"]
          /\ Spawn(r, "EXECUTION", "Permission")
       \/ /\ decision = "REJECTED"
          /\ status' = "REJECTED"
          /\ task' = [Cancelled EXCEPT ![r] = "NONE"]
          /\ Spawn(r, "FINALIZE", "Archive")
          /\ UNCHANGED <<runStatus, runStage>>
    /\ UNCHANGED <<risk, verification, money, work>>

\* Which interrupted cases /team/resume accepts.
RollbackResumable ==
    /\ verification = "FAILED"
    /\ \/ status \in {"RECOVERY_REQUIRED", "ROLLBACK_REQUIRED"}
       \/ status = "FAILED" /\ runStage \in {"Reverse", "PostRollback"}

\* Mutant: an interrupted verification is not taken up again.
ResumableBeforeVerify ==
    /\ ~RollbackResumable
    /\ \/ status = "RECOVERY_REQUIRED"
       \/ /\ status \in {"READY_TO_EXECUTE", "EXECUTING"}
          /\ runStatus \in Active \cup {"FAILED"}

ExecutionResumable ==
    /\ ~RollbackResumable
    /\ \/ status = "RECOVERY_REQUIRED"
       \/ /\ status \in {"READY_TO_EXECUTE", "EXECUTING", "VERIFYING"}
          /\ runStatus \in Active \cup {"FAILED"}

\* The proof of the approver names the approval; renewal needs it approved.
Approvable ==
    /\ approval # "NONE"
    /\ ExecutionResumable /\ risk = "L2" => approval = "APPROVED"

Resumable == Approvable /\ (RollbackResumable \/ ExecutionResumable)

\* Mutant: reconciliation leaves an intent that has no outcome as it is.
ReconcileCommitted(op) == op

\* An intent without outcome is given up; its late effect is fenced off.
Reconcile(op) == IF op = "OPEN" THEN "ABANDONED" ELSE op

\* resume_case_run: one commit cancels, reconciles, lifts the hold, renews and
\* queues.  That ten minutes have passed may be true at any time; a live run
\* is known only to its own process.
Resume(r) ==
    /\ Free(r)
    /\ ~HandlerBusy(Home[r])
    /\ ~LiveHere(Home[r])
    /\ Resumable
    /\ status' = IF RollbackResumable THEN "ROLLBACK_REQUIRED"
                 ELSE IF status = "READY_TO_EXECUTE" THEN status ELSE "EXECUTING"
    /\ runStatus' = "QUEUED"
    /\ settle' = Reconcile(settle)
    /\ reverse' = Reconcile(reverse)
    /\ hold' = FALSE
    /\ task' = [Cancelled EXCEPT ![r] = "NONE"]
    /\ bound' = Nowhere
    /\ revisionOk' = Only(r)
    /\ versionOk' = Only(r)
    /\ generationOk' = Only(r)
    /\ current' = Only(r)
    /\ IF RollbackResumable THEN Spawn(r, "ROLLBACK", "Reverse")
                            ELSE Spawn(r, "EXECUTION", "Permission")
    /\ UNCHANGED <<runStage, projections, known, work>>

\* assert_recording_quiescent, under the exclusive runtime lease.
Quiescent ==
    /\ status \in {"REJECTED", "CLOSED", "ROLLED_BACK", "FAILED"}
    /\ runStatus \notin Active
    /\ ~hold
    /\ settle # "OPEN" /\ reverse # "OPEN"
    /\ \A q \in Runs : pc[q] = "idle" /\ work[q] = "none" /\ task[q] # "RUNNING"

\* A new recording: derived rows are deleted, the journal starts new keys.
Reprepare ==
    /\ Quiescent
    /\ status' = "CREATED"
    /\ runStatus' = "NONE"
    /\ runStage' = "None"
    /\ risk' = "NONE"
    /\ approval' = "NONE"
    /\ verification' = "NONE"
    /\ settle' = "ABSENT"
    /\ reverse' = "ABSENT"
    /\ task' = [q \in Runs |-> "NONE"]
    /\ bound' = Nowhere
    /\ revisionOk' = Nowhere
    /\ versionOk' = Nowhere
    /\ generationOk' = Nowhere
    /\ current' = Nowhere
    /\ UNCHANGED <<hold, known, place, work>>

-----------------------------------------------------------------------------
Init ==
    /\ status = "CREATED"
    /\ runStatus = "NONE"
    /\ runStage = "None"
    /\ risk = "NONE"
    /\ approval = "NONE"
    /\ verification = "NONE"
    /\ settle = "ABSENT"
    /\ reverse = "ABSENT"
    /\ hold = FALSE
    /\ known = FALSE
    /\ pc = [r \in Runs |-> "idle"]
    /\ job = [r \in Runs |-> "NONE"]
    /\ stage = [r \in Runs |-> "Normalize"]
    /\ revisionOk = Nowhere
    /\ versionOk = Nowhere
    /\ generationOk = Nowhere
    /\ current = Nowhere
    /\ task = [r \in Runs |-> "NONE"]
    /\ bound = Nowhere
    /\ work = [r \in Runs |-> "none"]

\* What a run does of its own accord.
RunStep(r) ==
    \/ Dispatch(r) \/ Begin(r) \/ Enter(r) \/ Handshake(r)
    \/ Publish(r) \/ Announce(r) \/ Collect(r) \/ GiveUp(r)
    \/ Save(r) \/ SaveRisk(r) \/ Advance(r) \/ WaitForEvidence(r) \/ CancelTasks(r)
    \/ Route(r) \/ EnterDrafting(r) \/ AskApproval(r)
    \/ Permitted(r) \/ SaveDraft(r) \/ ResolveDraft(r)
    \/ Verified(r) \/ Reversed(r) \/ RolledBack(r) \/ Archived(r)
    \/ Close(r) \/ PublishRequest(r)
    \/ Superseded(r) \/ Fail(r) \/ Unwind(r) \/ Report(r)

WorkReturns(r) == Compute(r) \/ OpenEffect(r) \/ EndEffect(r) \/ Complete(r)

WorkStep(r) == Claim(r) \/ WorkReturns(r)

People(r) ==
    \/ StartInvestigation(r)
    \/ \E d \in {"APPROVED", "REJECTED"} : Decide(r, d)
    \/ Resume(r)

Next ==
    \/ \E r \in Runs : RunStep(r) \/ WorkStep(r) \/ People(r)
    \/ \E r \in Runs : Raise(r) \/ Vanish(r) \/ WorkerDies(r)
    \/ Reprepare

Spec == Init /\ [][Next]_vars

-----------------------------------------------------------------------------
(* Safety *)

\* Money moves only for a medium risk that a person approved, and is taken
\* back only after the independent verification of what was posted failed.
EffectsFollowApproval ==
    /\ settle # "ABSENT" => risk = "L2" /\ approval = "APPROVED"
    /\ reverse # "ABSENT" => settle = "POSTED" /\ verification = "FAILED"

\* A settlement posts while the case is executing and a compensation while it
\* is being rolled back: a worker that outlived its run, its task or the
\* recovery of the case never posts into another phase.
EffectsOnlyInTheirPhase ==
    [][/\ settle' = "POSTED" /\ settle # "POSTED" => status = "EXECUTING"
       /\ reverse' = "POSTED" /\ reverse # "POSTED" => status = "ROLLBACK_REQUIRED"]_vars

\* What a case tells about its money is so: verified means posted and not
\* reversed, rolled back means both, an approved case is not closed unless it
\* is verified, and nothing is left open behind a final status.
OutcomeIsTrue ==
    /\ verification = "PASSED" => settle = "POSTED" /\ reverse = "ABSENT"
    /\ status = "ROLLED_BACK" => settle = "POSTED" /\ reverse = "POSTED"
    /\ status \in {"RESOLVED", "KNOWLEDGE_ARCHIVED", "CLOSED"} /\ approval = "APPROVED"
       => verification = "PASSED"
    /\ status \in {"REJECTED", "RESOLVED", "KNOWLEDGE_ARCHIVED", "CLOSED", "ROLLED_BACK", "FAILED"}
       => settle # "OPEN" /\ reverse # "OPEN"

\* The statuses a Skill is for (SKILL_CASE_STATUSES).
SkillFits(g, s) ==
    /\ g = "Normalize"  => s \in {"CREATED", "WAITING_FOR_EVIDENCE"}
    /\ g = "Entity"     => s = "NORMALIZING"
    /\ g = "Evidence"   => s = "EVIDENCE_COLLECTING"
    /\ g = "Policy"     => s = "POLICY_MATCHING"
    /\ g = "Calculate"  => s = "CALCULATING"
    /\ g = "RootCause"  => s = "ROOT_CAUSE_ANALYZING"
    /\ g \in {"Risk", "Approval"}        => s = "RISK_REVIEW"
    /\ g \in {"Permission", "Draft"}     => s \in {"READY_TO_EXECUTE", "EXECUTING"}
    /\ g = "Adjust"     => s = "EXECUTING"
    /\ g = "Verify"     => s = "VERIFYING"
    /\ g \in {"Reverse", "PostRollback"} => s = "ROLLBACK_REQUIRED"
    /\ g = "Archive"    => s \in {"RESOLVED", "REJECTED", "ROLLED_BACK", "CLOSED"}

\* A task that a worker may still claim, or may act for, belongs to the status
\* its Skill is for, whoever moved the case.
TasksFitTheCase ==
    \A r \in Runs : bound[r] /\ task[r] \in OpenTask => SkillFits(stage[r], status)

\* Every change of the status is one the state machine lists; recovery takes
\* VERIFYING back to EXECUTING through RECOVERY_REQUIRED in one commit.
Allowed(from, to) ==
    \/ from = "CREATED" /\ to = "NORMALIZING"
    \/ from = "NORMALIZING" /\ to \in {"EVIDENCE_COLLECTING", "WAITING_FOR_EVIDENCE"}
    \/ from = "EVIDENCE_COLLECTING" /\ to \in {"POLICY_MATCHING", "WAITING_FOR_EVIDENCE"}
    \/ from = "WAITING_FOR_EVIDENCE" /\ to = "NORMALIZING"
    \/ from = "POLICY_MATCHING" /\ to = "CALCULATING"
    \/ from = "CALCULATING" /\ to = "ROOT_CAUSE_ANALYZING"
    \/ from = "ROOT_CAUSE_ANALYZING" /\ to = "RISK_REVIEW"
    \/ from = "RISK_REVIEW" /\ to \in {"RESOLVED", "WAITING_FOR_APPROVAL", "READY_TO_EXECUTE", "CLOSED"}
    \/ from = "WAITING_FOR_APPROVAL" /\ to \in {"READY_TO_EXECUTE", "REJECTED"}
    \/ from = "READY_TO_EXECUTE" /\ to = "EXECUTING"
    \/ from = "EXECUTING" /\ to \in {"VERIFYING", "RESOLVED"}
    \/ from = "VERIFYING" /\ to \in {"RESOLVED", "ROLLBACK_REQUIRED"}
    \/ from \in {"RESOLVED", "REJECTED"} /\ to = "KNOWLEDGE_ARCHIVED"
    \/ from = "ROLLBACK_REQUIRED" /\ to = "ROLLED_BACK"
    \/ from = "KNOWLEDGE_ARCHIVED" /\ to = "CLOSED"
    \/ from = "FAILED" /\ to \in {"ROLLBACK_REQUIRED", "RECOVERY_REQUIRED"}
    \/ from = "RECOVERY_REQUIRED" /\ to \in {"EXECUTING", "ROLLBACK_REQUIRED"}
    \/ from \notin {"ROLLED_BACK", "CLOSED", "FAILED"} /\ to = "FAILED"
    \/ from \in Interrupted /\ to = "RECOVERY_REQUIRED"

TransitionsAreAllowed ==
    [][status' # status => \/ Allowed(status, status')
                           \/ status = "VERIFYING" /\ Resumable /\ status' = "EXECUTING"
                           \/ Quiescent /\ status' = "CREATED"]_vars

\* A coordinator that read the case before a recovery or a re-preparation
\* never writes its row again, whatever step it had reached.
OldRunsDoNotWrite ==
    [][\A r \in Runs :
         /\ pc[r] # "idle"
         /\ <<pc'[r], job'[r]>> # <<pc[r], job[r]>>
         /\ caseVars' # caseVars
         => generationOk[r]]_vars

Quiet == \A r \in Runs : pc[r] = "idle" /\ work[r] = "none"

\* However runs and workers ended: a case on its way to or from the ledger, an
\* operation in doubt and a failed verification that has not been compensated
\* can all be taken up by the approver.
InDoubtIsResumable ==
    /\ Quiet
    /\ \/ status \in MoneyPath /\ risk = "L2"
       \/ settle = "OPEN" \/ reverse = "OPEN"
       \/ verification = "FAILED" /\ reverse # "POSTED"
    => Resumable

-----------------------------------------------------------------------------
(* Liveness *)

\* Coordinators are asyncio tasks of a running event loop and wait for workers
\* no longer than the stage timeout.  A worker need not take a task; the call
\* of one that did returns, or dies with it.  The approver's resumption is an
\* assumption about a person.
LiveSpec ==
    /\ Spec
    /\ \A r \in Runs : WF_vars(RunStep(r))
    /\ \A r \in Runs : WF_vars(WorkReturns(r) \/ WorkerDies(r))
    /\ WF_vars(\E r \in Runs : Resume(r))

\* Every run ends, even if its worker never answers.
EveryRunEnds == \A r \in Runs : pc[r] # "idle" ~> pc[r] = "idle"

\* No interruption is for good: an operation in doubt, and an approved case that
\* waits for recovery, are taken up.
DoubtEnds ==
    /\ settle = "OPEN" ~> settle # "OPEN"
    /\ reverse = "OPEN" ~> reverse # "OPEN"
    /\ status = "RECOVERY_REQUIRED" /\ risk = "L2" ~> status # "RECOVERY_REQUIRED"

-----------------------------------------------------------------------------
(* What the source says and the code does not do *)

\* "after an unexpected restart the WebUI marks the run as interrupted and the
\* approver presses continue" (deployment.md): a case under way whose run is
\* recorded as active and is gone can be continued.
InterruptedRunCanContinue ==
    /\ Quiet
    /\ runStatus \in Active
    /\ status \notin {"CREATED", "REJECTED", "CLOSED", "ROLLED_BACK", "FAILED"}
    => Resumable

\* "a failure that is out of date does not freeze the new run"
\* (recovery-consistency-20260912): a case that has been closed, and cannot be
\* recovered any more, holds no channel.
ClosedCaseHoldsNothing == status = "CLOSED" => ~hold

\* "An old coordinator must never freeze a newly recovered run" (recovery.py):
\* a rollback that was resumed before the latest recovery does not freeze the
\* case.
OldRunNeverFreezes ==
    [][\A r \in Runs :
         /\ pc[r] = "reporting" /\ job[r] = "ROLLBACK"
         /\ pc'[r] = "idle"
         /\ hold' /\ ~hold
         => current[r]]_vars
=============================================================================
