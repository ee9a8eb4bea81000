------------------------ MODULE CaseLifecycleProofs ------------------------
(***************************************************************************)
(* Proofs about CaseLifecycle, for any set of runs and processes.          *)
(*                                                                         *)
(* The argument.  Every write of the row compares the revision (MayWrite), *)
(* and a snapshot with the present revision is of the present version      *)
(* (ViewIsSound): a coordinator that may write therefore still finds the   *)
(* case where it has brought it (RunIsSound), so that its transition is    *)
(* one of the table and what it says about the money follows from what it  *)
(* was told (AnswerIsSound).  A claim that is active is of the present     *)
(* version too, so its Skill fits the status (WorkIsSound) and the         *)
(* operation that it opened is the one in doubt (EffectIsSound).  From     *)
(* this the row is true (RowIsSound, MoneyIsSound), and what is            *)
(* interrupted can be found by a person (ProgressIsSound).                 *)
(*                                                                         *)
(* The parts are in CaseInvariant.  Each has a lemma here that shows what  *)
(* it needs of the others to survive every step; the steps are grouped by  *)
(* what they write.                                                        *)
(***************************************************************************)
EXTENDS CaseInvariant, TLAPS

-----------------------------------------------------------------------------
(* The kinds of steps, and what each leaves alone *)

\* A coordinator moves on without writing the row.
PlaceStep(r) ==
    \/ Dispatch(r) \/ GiveUp(r) \/ Reversed(r) \/ Superseded(r) \/ Raise(r)
    \/ Vanish(r)

\* It writes how far its run has come.
ProgressStep(r) ==
    \/ Enter(r) \/ Handshake(r) \/ Announce(r) \/ Collect(r) \/ EnterDrafting(r)
    \/ SaveDraft(r) \/ Close(r) \/ PublishRequest(r) \/ Unwind(r)

\* It writes the case itself.
DomainStep(r) ==
    \/ Save(r) \/ SaveRisk(r) \/ Advance(r) \/ WaitForEvidence(r) \/ Route(r)
    \/ AskApproval(r) \/ Permitted(r) \/ ResolveDraft(r) \/ Verified(r) \/ RolledBack(r)
    \/ Archived(r) \/ Fail(r)

\* The worker of its task acts.
WorkerStep(r) ==
    \/ Claim(r) \/ Compute(r) \/ OpenEffect(r) \/ EndEffect(r) \/ Complete(r)
    \/ WorkerDies(r)

\* Every step is of one of these kinds, or one of the actions that are none.
LEMMA NextCases ==
    ASSUME [Next]_vars
    PROVE  \/ \E r \in Runs : PlaceStep(r) \/ ProgressStep(r) \/ DomainStep(r) \/ WorkerStep(r)
           \/ \E r \in Runs : Begin(r) \/ Publish(r) \/ CancelTasks(r) \/ Report(r)
           \/ \E r \in Runs : StartInvestigation(r) \/ Resume(r)
           \/ \E r \in Runs, d \in {"APPROVED", "REJECTED"} : Decide(r, d)
           \/ Reprepare
           \/ UNCHANGED vars
BY DEF Next, RunStep, WorkStep, WorkReturns, People,
   PlaceStep, ProgressStep, DomainStep, WorkerStep

\* A step of a coordinator alone changes its place only.
LEMMA PlaceFrame ==
    ASSUME NEW r \in Runs, PlaceStep(r)
    PROVE  UNCHANGED <<caseVars, money, view, tasks>>
BY DEF Begins, caseVars, Dispatch, GiveUp, Goto, LiveHere, MayWrite, money, PlaceStep,
   Raise, Reversed, Stop, Superseded, tasks, Vanish, view

\* A progress write leaves the case, its money and all tasks as they are.
LEMMA ProgressFrame ==
    ASSUME NEW r \in Runs, ProgressStep(r)
    PROVE  UNCHANGED <<status, projections, money, versionOk, generationOk, current, tasks>>
BY DEF Announce, Begins, caseVars, Close, Collect, Enter, EnterDrafting, Goto,
   Handshake, MayWrite, money, Progress, ProgressStep, projections, PublishRequest,
   SaveDraft, Stop, tasks, Unwind, view

\* A domain write moves no money and takes no task from its worker.
LEMMA DomainFrame ==
    ASSUME NEW r \in Runs, DomainStep(r)
    PROVE  UNCHANGED <<runStatus, runStage, money, generationOk, current, task, work>>
BY DEF Advance, Archived, AskApproval, Begins, DomainStep, Fail, Goto, MayWrite,
   money, Move, Permitted, projections, ResolveDraft, Rewrite, RolledBack, Route,
   Save, SaveRisk, Saves, tasks, Verified, view, WaitForEvidence

\* A worker never writes the row, nor the place of a coordinator.
LEMMA WorkerFrame ==
    ASSUME NEW r \in Runs, WorkerStep(r)
    PROVE  UNCHANGED <<caseVars, place, view, bound>>
BY DEF Blocked, caseVars, Claim, ClaimActive, Complete, Compute, EndEffect, money,
   OpenEffect, OpenTask, Outcome, place, Resolve, view, WorkerDies, WorkerStep, Works

\* After a write by r, the flag that the row still matches is r's alone.
LEMMA Flags == \A q \in Runs : ~Nowhere[q] /\ \A r \in Runs : Only(r)[q] <=> q = r
BY DEF Only, Nowhere

\* The flags are Boolean functions.
LEMMA FlagSets == \A r \in Runs : Only(r) \in [Runs -> BOOLEAN] /\ Nowhere \in [Runs -> BOOLEAN]
BY DEF Only, Nowhere

\* Cancelling the open tasks leaves every task in a status of its own.
LEMMA CancelledType ==
    ASSUME TypeOK
    PROVE  Cancelled \in [Runs -> TaskStatus]
BY DEF Cancelled, TypeOK, TaskStatus, OpenTask

-----------------------------------------------------------------------------
(* The invariant holds at the start *)

\* A prepared case: nothing runs, nothing is posted.
LEMMA InitInductive ==
    ASSUME Init
    PROVE  Inductive
<1>1. TypeOK
  BY DEF Init, TypeOK, Nowhere, Status, Stage, Investigation, RunStatus, Operation, Step,
     Job, TaskStatus, Work
<1>2. RowIsSound /\ MoneyIsSound /\ ProgressIsSound
  BY DEF Init, RowIsSound, MoneyIsSound, ProgressIsSound, Early, MoneyPath
<1>3. ASSUME NEW r \in Runs
      PROVE  /\ ViewIsSound(r) /\ PlaceIsSound(r) /\ RunIsSound(r)
             /\ WorkIsSound(r) /\ AnswerIsSound(r) /\ EffectIsSound(r)
  <2>1. /\ pc[r] = "idle" /\ job[r] = "NONE" /\ stage[r] = "Normalize"
        /\ task[r] = "NONE" /\ work[r] = "none"
        /\ ~revisionOk[r] /\ ~versionOk[r] /\ ~bound[r]
    BY DEF Init, Nowhere
  <2> QED
    BY <2>1 DEF ViewIsSound, PlaceIsSound, RunIsSound, WorkIsSound, AnswerIsSound,
       Answered, EffectIsSound, OpenTask, Settling
<1> QED BY <1>1, <1>2, <1>3 DEF Inductive

-----------------------------------------------------------------------------
(* Every step keeps the types *)

\* No step of the code leaves the statuses and outcomes the source names.
LEMMA TypeStep ==
    ASSUME TypeOK, [Next]_vars
    PROVE  TypeOK'
<1>1. ASSUME NEW r \in Runs, PlaceStep(r) PROVE TypeOK'
  <2>1. UNCHANGED <<caseVars, money, view, tasks>>
    BY <1>1, PlaceFrame
  <2>2. pc' \in [Runs -> Step] /\ job' \in [Runs -> Job] /\ stage' \in [Runs -> Stage]
    BY <1>1, SMTT(20) DEF Begins, caseVars, Dispatch, GiveUp, Goto, Investigation,
       Job, LiveHere, MayWrite, money, PlaceStep, Raise, Reversed, Stage, Step, Stop,
       Superseded, tasks, TypeOK, Vanish, view
  <2> QED
    BY <2>1, <2>2 DEF caseVars, money, place, projections, tasks, TypeOK, view
<1>2. ASSUME NEW r \in Runs, ProgressStep(r) PROVE TypeOK'
  <2>1. UNCHANGED <<status, projections, money, versionOk, generationOk, current, tasks>>
    BY <1>2, ProgressFrame
  <2>2. Only(r) \in [Runs -> BOOLEAN] /\ Nowhere \in [Runs -> BOOLEAN]
    BY FlagSets
  <2>3. /\ status' \in Status /\ runStatus' \in RunStatus
        /\ runStage' \in Stage \cup {"None"}
    BY <1>2, SMTT(20) DEF Active, Announce, Begins, caseVars, Close, Collect, Enter,
       EnterDrafting, Goto, Handshake, Interrupted, Investigation, MayWrite, money,
       MoneyPath, Progress, ProgressStep, projections, PublishRequest, RunStatus,
       SaveDraft, Stage, Status, Stop, tasks, TypeOK, Unwind, view
  <2>4. pc' \in [Runs -> Step] /\ job' \in [Runs -> Job] /\ stage' \in [Runs -> Stage]
    BY <1>2, SMTT(20) DEF Announce, Begins, caseVars, Close, Collect, Enter,
       EnterDrafting, Goto, Handshake, Investigation, Job, MayWrite, money, Progress,
       ProgressStep, projections, PublishRequest, SaveDraft, Stage, Step, Stop, tasks,
       TypeOK, Unwind, view
  <2>5. /\ revisionOk' \in [Runs -> BOOLEAN] /\ versionOk' \in [Runs -> BOOLEAN]
        /\ bound' \in [Runs -> BOOLEAN]
    BY <1>2, <2>2, SMTT(20) DEF Announce, Begins, caseVars, Close, Collect, Enter,
       EnterDrafting, Goto, Handshake, MayWrite, money, Progress, ProgressStep,
       projections, PublishRequest, SaveDraft, Stop, tasks, TypeOK, Unwind, view
  <2> QED
    BY <2>1, <2>2, <2>3, <2>4, <2>5 DEF caseVars, money, place, projections, tasks,
       TypeOK, view
<1>3. ASSUME NEW r \in Runs, DomainStep(r) PROVE TypeOK'
  <2>1. UNCHANGED <<runStatus, runStage, money, generationOk, current, task, work>>
    BY <1>3, DomainFrame
  <2>2. Only(r) \in [Runs -> BOOLEAN] /\ Nowhere \in [Runs -> BOOLEAN]
    BY FlagSets
  <2>3. /\ status' \in Status /\ runStatus' \in RunStatus
        /\ runStage' \in Stage \cup {"None"}
    BY <1>3, SMTT(20) DEF Active, Advance, Archived, AskApproval, Begins, DomainStep,
       Fail, Goto, Interrupted, Investigation, MayWrite, money, MoneyPath, Move,
       Permitted, projections, ResolveDraft, Rewrite, RolledBack, Route, RunStatus,
       Save, SaveRisk, Saves, Stage, Status, tasks, TypeOK, Verified, view,
       WaitForEvidence
  <2>4. /\ risk' \in {"NONE", "L0", "L1", "L2", "L3"}
        /\ approval' \in {"NONE", "PENDING", "APPROVED", "REJECTED"}
        /\ verification' \in {"NONE", "PASSED", "FAILED", "NOT_APPLICABLE"}
    BY <1>3, SMTT(20) DEF Advance, Archived, AskApproval, Begins, DomainStep, Fail,
       Goto, MayWrite, money, Move, Permitted, projections, ResolveDraft, Rewrite,
       RolledBack, Route, Save, SaveRisk, Saves, tasks, TypeOK, Verified, view,
       WaitForEvidence
  <2>5. pc' \in [Runs -> Step] /\ job' \in [Runs -> Job] /\ stage' \in [Runs -> Stage]
    BY <1>3, SMTT(20) DEF Advance, Archived, AskApproval, Begins, DomainStep, Fail,
       Goto, Investigation, Job, MayWrite, money, Move, Permitted, projections,
       ResolveDraft, Rewrite, RolledBack, Route, Save, SaveRisk, Saves, Stage, Step,
       tasks, TypeOK, Verified, view, WaitForEvidence
  <2>6. /\ revisionOk' \in [Runs -> BOOLEAN] /\ versionOk' \in [Runs -> BOOLEAN]
        /\ bound' \in [Runs -> BOOLEAN]
    BY <1>3, <2>2, SMTT(20) DEF Advance, Archived, AskApproval, Begins, DomainStep,
       Fail, Goto, MayWrite, money, Move, Permitted, projections, ResolveDraft,
       Rewrite, RolledBack, Route, Save, SaveRisk, Saves, tasks, TypeOK, Verified,
       view, WaitForEvidence
  <2> QED
    BY <2>1, <2>2, <2>3, <2>4, <2>5, <2>6 DEF caseVars, money, place, projections,
       tasks, TypeOK, view
<1>4. ASSUME NEW r \in Runs, WorkerStep(r) PROVE TypeOK'
  <2>1. UNCHANGED <<caseVars, place, view, bound>>
    BY <1>4, WorkerFrame
  <2>2. settle' \in Operation /\ reverse' \in Operation
    BY <1>4, SMTT(20) DEF Blocked, caseVars, Claim, ClaimActive, Complete, Compute,
       EndEffect, money, OpenEffect, OpenTask, Operation, Outcome, place, Resolve,
       TypeOK, view, WorkerDies, WorkerStep, Works
  <2>3. hold' \in BOOLEAN /\ known' \in BOOLEAN
    <3>1. CASE Complete(r) \/ OpenEffect(r) \/ EndEffect(r)
      BY <3>1 DEF Complete, EndEffect, money, OpenEffect, Resolve, TypeOK
    <3>2. CASE Claim(r) \/ Compute(r) \/ WorkerDies(r)
      BY <3>2 DEF Claim, Compute, money, TypeOK, WorkerDies
    <3> QED
      BY <1>4, <3>1, <3>2 DEF WorkerStep
  <2>4. task' \in [Runs -> TaskStatus] /\ work' \in [Runs -> Work]
    BY <1>4, SMTT(20) DEF Blocked, caseVars, Claim, ClaimActive, Complete, Compute,
       EndEffect, money, OpenEffect, OpenTask, Outcome, place, Resolve, TaskStatus,
       TypeOK, view, Work, WorkerDies, WorkerStep, Works
  <2> QED
    BY <2>1, <2>2, <2>3, <2>4 DEF caseVars, money, place, projections, tasks, TypeOK,
       view
<1>5. ASSUME NEW r \in Runs, Begin(r) PROVE TypeOK'
  <2>1. UNCHANGED <<caseVars, money, current, tasks, job, stage>>
    BY <1>5 DEF Begin, caseVars, Goto, money, tasks
  <2>2. Only(r) \in [Runs -> BOOLEAN] /\ Nowhere \in [Runs -> BOOLEAN]
    BY FlagSets
  <2>3. pc' \in [Runs -> Step] /\ job' \in [Runs -> Job] /\ stage' \in [Runs -> Stage]
    BY <1>5 DEF Begin, caseVars, Goto, Investigation, Job, money, Stage, Step, tasks,
       TypeOK
  <2>4. /\ revisionOk' \in [Runs -> BOOLEAN] /\ versionOk' \in [Runs -> BOOLEAN]
        /\ generationOk' \in [Runs -> BOOLEAN]
    BY <1>5, <2>2 DEF Begin, caseVars, Goto, money, tasks, TypeOK
  <2> QED
    BY <2>1, <2>2, <2>3, <2>4 DEF caseVars, money, place, projections, tasks, TypeOK,
       view
<1>6. ASSUME NEW r \in Runs, Publish(r) PROVE TypeOK'
  <2>1. UNCHANGED <<caseVars, money, view, job, stage>>
    BY <1>6 DEF caseVars, Goto, money, Publish, view
  <2>2. pc' \in [Runs -> Step] /\ job' \in [Runs -> Job] /\ stage' \in [Runs -> Stage]
    BY <1>6 DEF caseVars, Goto, Investigation, Job, money, Publish, Stage, Step,
       TypeOK, view
  <2>3. bound' \in [Runs -> BOOLEAN]
    BY <1>6 DEF caseVars, Goto, money, Publish, TypeOK, view
  <2>4. task' \in [Runs -> TaskStatus] /\ work' \in [Runs -> Work]
    BY <1>6 DEF caseVars, Goto, money, OpenTask, Publish, TaskStatus, TypeOK, view,
       Work
  <2> QED
    BY <2>1, <2>2, <2>3, <2>4 DEF caseVars, money, place, projections, tasks, TypeOK,
       view
<1>7. ASSUME NEW r \in Runs, CancelTasks(r) PROVE TypeOK'
  <2>1. UNCHANGED <<caseVars, money, view, job, stage, bound, work>>
    BY <1>7 DEF CancelTasks, caseVars, Goto, money, view
  <2>2. pc' \in [Runs -> Step] /\ job' \in [Runs -> Job] /\ stage' \in [Runs -> Stage]
    BY <1>7 DEF Cancelled, CancelTasks, caseVars, Goto, Investigation, Job, money,
       OpenTask, Stage, Step, TypeOK, view
  <2>3. task' \in [Runs -> TaskStatus] /\ work' \in [Runs -> Work]
    BY <1>7 DEF Cancelled, CancelTasks, caseVars, Goto, money, OpenTask, TaskStatus,
       TypeOK, view, Work
  <2> QED
    BY <2>1, <2>2, <2>3 DEF caseVars, money, place, projections, tasks, TypeOK, view
<1>8. ASSUME NEW r \in Runs, Report(r) PROVE TypeOK'
  <2>1. UNCHANGED <<projections, settle, reverse, known, runStage, generationOk, current, task, work>>
    BY <1>8 DEF projections, Report, Stop
  <2>2. Only(r) \in [Runs -> BOOLEAN] /\ Nowhere \in [Runs -> BOOLEAN]
    BY FlagSets
  <2>3. /\ status' \in Status /\ runStatus' \in RunStatus
        /\ runStage' \in Stage \cup {"None"}
    BY <1>8 DEF Active, Interrupted, Investigation, MayReport, MoneyPath, projections,
       Report, RunStatus, Stage, Status, Stop, TypeOK
  <2>4. hold' \in BOOLEAN /\ known' \in BOOLEAN
    BY <1>8 DEF Interrupted, MayReport, projections, Report, Stop, TypeOK
  <2>5. pc' \in [Runs -> Step] /\ job' \in [Runs -> Job] /\ stage' \in [Runs -> Stage]
    BY <1>8 DEF Interrupted, Investigation, Job, MayReport, projections, Report,
       Stage, Step, Stop, TypeOK
  <2>6. /\ revisionOk' \in [Runs -> BOOLEAN] /\ versionOk' \in [Runs -> BOOLEAN]
        /\ bound' \in [Runs -> BOOLEAN]
    BY <1>8, <2>2 DEF Interrupted, MayReport, projections, Report, Stop, TypeOK
  <2> QED
    BY <2>1, <2>2, <2>3, <2>4, <2>5, <2>6 DEF caseVars, money, place, projections,
       tasks, TypeOK, view
<1>9. ASSUME NEW r \in Runs, StartInvestigation(r) PROVE TypeOK'
  <2>1. UNCHANGED <<status, projections, versionOk, money>>
    BY <1>9 DEF money, place, projections, StartInvestigation, tasks
  <2>2. Only(r) \in [Runs -> BOOLEAN] /\ Nowhere \in [Runs -> BOOLEAN]
    BY FlagSets
  <2>3. /\ status' \in Status /\ runStatus' \in RunStatus
        /\ runStage' \in Stage \cup {"None"}
    BY <1>9 DEF Active, Free, HandlerBusy, Interrupted, Investigation, LiveHere,
       money, MoneyPath, place, projections, RunStatus, Stage, StartInvestigation,
       Status, tasks, TypeOK
  <2>4. pc' \in [Runs -> Step] /\ job' \in [Runs -> Job] /\ stage' \in [Runs -> Stage]
    BY <1>9 DEF Free, HandlerBusy, Investigation, Job, LiveHere, money, place,
       projections, Stage, StartInvestigation, Step, tasks, TypeOK
  <2>5. /\ revisionOk' \in [Runs -> BOOLEAN] /\ versionOk' \in [Runs -> BOOLEAN]
        /\ bound' \in [Runs -> BOOLEAN]
        /\ generationOk' \in [Runs -> BOOLEAN] /\ current' \in [Runs -> BOOLEAN]
    <3>1. CASE LiveHere(Home[r])
      BY <1>9, <2>2, <3>1 DEF StartInvestigation, tasks, TypeOK
    <3>2. CASE ~LiveHere(Home[r])
      BY <1>9, <2>2, <3>2 DEF StartInvestigation, TypeOK
    <3> QED
      BY <3>1, <3>2
  <2>6. task' \in [Runs -> TaskStatus] /\ work' \in [Runs -> Work]
    BY <1>9 DEF Free, HandlerBusy, LiveHere, money, OpenTask, place, projections,
       StartInvestigation, tasks, TaskStatus, TypeOK, Work
  <2> QED
    BY <2>1, <2>2, <2>3, <2>4, <2>5, <2>6 DEF caseVars, money, place, projections,
       tasks, TypeOK, view
<1>10. ASSUME NEW r \in Runs, NEW d \in {"APPROVED", "REJECTED"}, Decide(r, d)
       PROVE  TypeOK'
  <2>1. UNCHANGED <<risk, verification, money, work>>
    BY <1>10 DEF Decide, money, Spawn
  <2>2. Only(r) \in [Runs -> BOOLEAN] /\ Nowhere \in [Runs -> BOOLEAN]
    BY FlagSets
  <2>3. /\ status' \in Status /\ runStatus' \in RunStatus
        /\ runStage' \in Stage \cup {"None"}
    BY <1>10 DEF Active, Cancelled, Decide, Free, HandlerBusy, Interrupted,
       Investigation, money, MoneyPath, OpenTask, RunStatus, Spawn, Stage, Status,
       TypeOK
  <2>4. /\ risk' \in {"NONE", "L0", "L1", "L2", "L3"}
        /\ approval' \in {"NONE", "PENDING", "APPROVED", "REJECTED"}
        /\ verification' \in {"NONE", "PASSED", "FAILED", "NOT_APPLICABLE"}
    BY <1>10 DEF Cancelled, Decide, Free, HandlerBusy, money, OpenTask, Spawn, TypeOK
  <2>5. pc' \in [Runs -> Step] /\ job' \in [Runs -> Job] /\ stage' \in [Runs -> Stage]
    BY <1>10 DEF Cancelled, Decide, Free, HandlerBusy, Investigation, Job, money,
       OpenTask, Spawn, Stage, Step, TypeOK
  <2>6. /\ revisionOk' \in [Runs -> BOOLEAN] /\ versionOk' \in [Runs -> BOOLEAN]
        /\ bound' \in [Runs -> BOOLEAN]
    BY <1>10, <2>2 DEF Decide, TypeOK
  <2>7. generationOk' \in [Runs -> BOOLEAN] /\ current' \in [Runs -> BOOLEAN]
    BY <1>10, <2>2 DEF Decide, TypeOK
  <2>8. task' \in [Runs -> TaskStatus] /\ work' \in [Runs -> Work]
    BY <1>10, CancelledType DEF Decide, money, TaskStatus, TypeOK
  <2> QED
    BY <2>1, <2>2, <2>3, <2>4, <2>5, <2>6, <2>7, <2>8 DEF caseVars, money, place,
       projections, tasks, TypeOK, view
<1>11. ASSUME NEW r \in Runs, Resume(r) PROVE TypeOK'
  <2>1. UNCHANGED <<runStage, projections, known, work>>
    BY <1>11 DEF projections, Resume, Spawn
  <2>2. Only(r) \in [Runs -> BOOLEAN] /\ Nowhere \in [Runs -> BOOLEAN]
    BY FlagSets
  <2>3. /\ status' \in Status /\ runStatus' \in RunStatus
        /\ runStage' \in Stage \cup {"None"}
    BY <1>11 DEF Active, Approvable, Cancelled, ExecutionResumable, Free, HandlerBusy,
       Interrupted, Investigation, LiveHere, MoneyPath, OpenTask, projections,
       Reconcile, Resumable, Resume, RollbackResumable, RunStatus, Spawn, Stage,
       Status, TypeOK
  <2>4. settle' \in Operation /\ reverse' \in Operation
    BY <1>11 DEF Active, Approvable, Cancelled, ExecutionResumable, Free, HandlerBusy,
       LiveHere, OpenTask, Operation, projections, Reconcile, Resumable, Resume,
       RollbackResumable, Spawn, TypeOK
  <2>5. hold' \in BOOLEAN
    BY <1>11 DEF Resume
  <2>6. pc' \in [Runs -> Step] /\ job' \in [Runs -> Job] /\ stage' \in [Runs -> Stage]
    BY <1>11 DEF Active, Approvable, Cancelled, ExecutionResumable, Free, HandlerBusy,
       Investigation, Job, LiveHere, OpenTask, projections, Reconcile, Resumable,
       Resume, RollbackResumable, Spawn, Stage, Step, TypeOK
  <2>7. /\ revisionOk' \in [Runs -> BOOLEAN] /\ versionOk' \in [Runs -> BOOLEAN]
        /\ bound' \in [Runs -> BOOLEAN]
    BY <1>11, <2>2 DEF Active, Approvable, Cancelled, ExecutionResumable, Free,
       HandlerBusy, LiveHere, OpenTask, projections, Reconcile, Resumable, Resume,
       RollbackResumable, Spawn, TypeOK
  <2>8. generationOk' \in [Runs -> BOOLEAN] /\ current' \in [Runs -> BOOLEAN]
    BY <1>11, <2>2 DEF Active, Approvable, Cancelled, ExecutionResumable, Free,
       HandlerBusy, LiveHere, OpenTask, projections, Reconcile, Resumable, Resume,
       RollbackResumable, Spawn, TypeOK
  <2>9. task' \in [Runs -> TaskStatus] /\ work' \in [Runs -> Work]
    BY <1>11 DEF Active, Approvable, Cancelled, ExecutionResumable, Free, HandlerBusy,
       LiveHere, OpenTask, projections, Reconcile, Resumable, Resume,
       RollbackResumable, Spawn, TaskStatus, TypeOK, Work
  <2> QED
    BY <2>1, <2>2, <2>3, <2>4, <2>5, <2>6, <2>7, <2>8, <2>9 DEF caseVars, money,
       place, projections, tasks, TypeOK, view
<1>12. ASSUME Reprepare PROVE TypeOK'
  <2>1. UNCHANGED <<hold, known, place, work>>
    BY <1>12 DEF place, Reprepare
  <2>2. Nowhere \in [Runs -> BOOLEAN]
    BY DEF Nowhere
  <2>3. /\ status' \in Status /\ runStatus' \in RunStatus
        /\ runStage' \in Stage \cup {"None"}
    BY <1>12 DEF Active, Interrupted, Investigation, MoneyPath, place, Quiescent,
       Reprepare, RunStatus, Stage, Status, TypeOK
  <2>4. /\ risk' \in {"NONE", "L0", "L1", "L2", "L3"}
        /\ approval' \in {"NONE", "PENDING", "APPROVED", "REJECTED"}
        /\ verification' \in {"NONE", "PASSED", "FAILED", "NOT_APPLICABLE"}
    BY <1>12 DEF Active, place, Quiescent, Reprepare, TypeOK
  <2>5. settle' \in Operation /\ reverse' \in Operation
    BY <1>12 DEF Active, Operation, place, Quiescent, Reprepare, TypeOK
  <2>6. /\ revisionOk' \in [Runs -> BOOLEAN] /\ versionOk' \in [Runs -> BOOLEAN]
        /\ bound' \in [Runs -> BOOLEAN]
    BY <1>12, <2>2 DEF Active, place, Quiescent, Reprepare, TypeOK
  <2>7. generationOk' \in [Runs -> BOOLEAN] /\ current' \in [Runs -> BOOLEAN]
    BY <1>12, <2>2 DEF Active, place, Quiescent, Reprepare, TypeOK
  <2>8. task' \in [Runs -> TaskStatus] /\ work' \in [Runs -> Work]
    BY <1>12 DEF Active, OpenTask, place, Quiescent, Reprepare, TaskStatus, TypeOK,
       Work
  <2> QED
    BY <2>1, <2>2, <2>3, <2>4, <2>5, <2>6, <2>7, <2>8 DEF caseVars, money, place,
       projections, tasks, TypeOK, view
<1>13. ASSUME UNCHANGED vars PROVE TypeOK'
  BY <1>13 DEF TypeOK, vars, caseVars, money, place, view, tasks
<1> QED
  BY <1>1, <1>2, <1>3, <1>4, <1>5, <1>6, <1>7, <1>8, <1>9, <1>10, <1>11, <1>12, <1>13,
     NextCases

-----------------------------------------------------------------------------
(* RowIsSound *)

\* The row stays consistent: a coordinator writes it only with a snapshot of the
\* present version, and then the case is where RunIsSound says.
LEMMA RowStep ==
    ASSUME Inductive, [Next]_vars
    PROVE  RowIsSound'
<1>1. ASSUME NEW r \in Runs, PlaceStep(r) PROVE RowIsSound'
  BY <1>1, PlaceFrame DEF caseVars, Inductive, money, RowIsSound
<1>2. ASSUME NEW r \in Runs, ProgressStep(r) PROVE RowIsSound'
  BY <1>2, ProgressFrame DEF Inductive, money, projections, RowIsSound
<1>3. ASSUME NEW r \in Runs, DomainStep(r) PROVE RowIsSound'
  BY <1>3, SMTT(20) DEF Advance, Answered, AnswerIsSound, Archived, AskApproval,
     Begins, caseVars, DomainStep, Early, Fail, Goto, Inductive, InStep, Job,
     MayWrite, money, MoneyIsSound, MoneyPath, Move, Nowhere, Only, Permitted, place,
     PlaceIsSound, projections, ResolveDraft, Rewrite, RolledBack, Route, RowIsSound,
     RunIsSound, Save, SaveRisk, Saves, Settling, SkillFits, tasks, TypeOK, vars,
     Verified, view, ViewIsSound, WaitForEvidence
<1>4. ASSUME NEW r \in Runs, WorkerStep(r) PROVE RowIsSound'
  BY <1>4, SMTT(20) DEF Blocked, caseVars, Claim, ClaimActive, Complete, Compute,
     EndEffect, Inductive, money, OpenEffect, OpenTask, Outcome, place, Resolve,
     RowIsSound, SkillFits, tasks, vars, view, WorkerDies, WorkerStep, WorkIsSound,
     Works
<1>5. ASSUME NEW r \in Runs, Begin(r) PROVE RowIsSound'
  BY <1>5 DEF Begin, caseVars, Goto, Inductive, money, place, RowIsSound, tasks, vars,
     view
<1>6. ASSUME NEW r \in Runs, Publish(r) PROVE RowIsSound'
  BY <1>6 DEF caseVars, Goto, Inductive, money, place, Publish, RowIsSound, tasks,
     vars, view
<1>7. ASSUME NEW r \in Runs, CancelTasks(r) PROVE RowIsSound'
  BY <1>7 DEF Cancelled, CancelTasks, caseVars, Goto, Inductive, money, place,
     RowIsSound, tasks, vars, view
<1>8. ASSUME NEW r \in Runs, Report(r) PROVE RowIsSound'
  BY <1>8 DEF caseVars, Early, Inductive, Interrupted, MayReport, money, MoneyPath,
     Nowhere, place, projections, Report, RowIsSound, Stop, tasks, vars, view
<1>9. ASSUME NEW r \in Runs, StartInvestigation(r) PROVE RowIsSound'
  BY <1>9 DEF caseVars, Free, Inductive, money, Nowhere, place, projections,
     RowIsSound, StartInvestigation, tasks, vars, view
<1>10. ASSUME NEW r \in Runs, NEW d \in {"APPROVED", "REJECTED"}, Decide(r, d)
       PROVE  RowIsSound'
  BY <1>10 DEF Cancelled, caseVars, Decide, Early, Free, Inductive, money,
     MoneyIsSound, MoneyPath, Nowhere, Only, place, RowIsSound, Spawn, tasks, vars,
     view
<1>11. ASSUME NEW r \in Runs, Resume(r) PROVE RowIsSound'
  BY <1>11 DEF Approvable, Cancelled, caseVars, Early, ExecutionResumable, Free,
     Inductive, money, MoneyIsSound, Nowhere, Only, place, projections, Reconcile,
     Resumable, Resume, RollbackResumable, RowIsSound, Spawn, tasks, vars, view
<1>12. ASSUME Reprepare PROVE RowIsSound'
  BY <1>12 DEF caseVars, Inductive, money, MoneyPath, Nowhere, place, Reprepare,
     RowIsSound, tasks, vars, view
<1>13. ASSUME UNCHANGED vars PROVE RowIsSound'
  BY <1>13 DEF caseVars, Inductive, money, place, RowIsSound, tasks, vars, view
<1> QED
  BY <1>1, <1>2, <1>3, <1>4, <1>5, <1>6, <1>7, <1>8, <1>9, <1>10, <1>11, <1>12, <1>13,
     NextCases

-----------------------------------------------------------------------------
(* MoneyIsSound *)

\* What is posted, in doubt or failed stays visible in the row: an operation is
\* opened in the status of its Skill and closed where its answer says.
LEMMA MoneyStep ==
    ASSUME Inductive, [Next]_vars
    PROVE  MoneyIsSound'
<1>1. ASSUME NEW r \in Runs, PlaceStep(r) PROVE MoneyIsSound'
  BY <1>1, PlaceFrame DEF caseVars, Inductive, money, MoneyIsSound
<1>2. ASSUME NEW r \in Runs, ProgressStep(r) PROVE MoneyIsSound'
  BY <1>2, ProgressFrame DEF Inductive, money, MoneyIsSound, projections
<1>3. ASSUME NEW r \in Runs, DomainStep(r) PROVE MoneyIsSound'
  BY <1>3, SMTT(20) DEF Advance, Answered, AnswerIsSound, Archived, AskApproval,
     Begins, caseVars, DomainStep, Fail, Goto, Inductive, InStep, Job, MayWrite,
     money, MoneyIsSound, Move, Nowhere, Only, Permitted, place, PlaceIsSound,
     projections, ResolveDraft, Rewrite, RolledBack, Route, RowIsSound, RunIsSound,
     Save, SaveRisk, Saves, Settling, SkillFits, tasks, TypeOK, vars, Verified, view,
     ViewIsSound, WaitForEvidence
<1>4. ASSUME NEW r \in Runs, WorkerStep(r) PROVE MoneyIsSound'
  BY <1>4, SMTT(20) DEF Blocked, caseVars, Claim, ClaimActive, Complete, Compute,
     EndEffect, Inductive, money, MoneyIsSound, OpenEffect, OpenTask, Outcome, place,
     Resolve, RowIsSound, Settling, SkillFits, tasks, vars, view, WorkerDies,
     WorkerStep, WorkIsSound, Works
<1>5. ASSUME NEW r \in Runs, Begin(r) PROVE MoneyIsSound'
  BY <1>5 DEF Begin, caseVars, Goto, Inductive, money, MoneyIsSound, place, tasks,
     vars, view
<1>6. ASSUME NEW r \in Runs, Publish(r) PROVE MoneyIsSound'
  BY <1>6 DEF caseVars, Goto, Inductive, money, MoneyIsSound, place, Publish, tasks,
     vars, view
<1>7. ASSUME NEW r \in Runs, CancelTasks(r) PROVE MoneyIsSound'
  BY <1>7 DEF Cancelled, CancelTasks, caseVars, Goto, Inductive, money, MoneyIsSound,
     place, tasks, vars, view
<1>8. ASSUME NEW r \in Runs, Report(r) PROVE MoneyIsSound'
  BY <1>8 DEF caseVars, Inductive, Interrupted, MayReport, money, MoneyIsSound,
     Nowhere, place, projections, Report, Stop, tasks, vars, view
<1>9. ASSUME NEW r \in Runs, StartInvestigation(r) PROVE MoneyIsSound'
  BY <1>9 DEF caseVars, Free, Inductive, money, MoneyIsSound, Nowhere, place,
     projections, StartInvestigation, tasks, vars, view
<1>10. ASSUME NEW r \in Runs, NEW d \in {"APPROVED", "REJECTED"}, Decide(r, d)
       PROVE  MoneyIsSound'
  BY <1>10 DEF Cancelled, caseVars, Decide, Free, Inductive, money, MoneyIsSound,
     Nowhere, Only, place, Spawn, tasks, vars, view
<1>11. ASSUME NEW r \in Runs, Resume(r) PROVE MoneyIsSound'
  BY <1>11 DEF Approvable, Cancelled, caseVars, ExecutionResumable, Free, Inductive,
     money, MoneyIsSound, Nowhere, Only, place, projections, Reconcile, Resumable,
     Resume, RollbackResumable, Spawn, tasks, vars, view
<1>12. ASSUME Reprepare PROVE MoneyIsSound'
  BY <1>12 DEF caseVars, Inductive, money, MoneyIsSound, Nowhere, place, Reprepare,
     tasks, vars, view
<1>13. ASSUME UNCHANGED vars PROVE MoneyIsSound'
  BY <1>13 DEF caseVars, Inductive, money, MoneyIsSound, place, tasks, vars, view
<1> QED
  BY <1>1, <1>2, <1>3, <1>4, <1>5, <1>6, <1>7, <1>8, <1>9, <1>10, <1>11, <1>12, <1>13,
     NextCases

-----------------------------------------------------------------------------
(* ProgressIsSound *)

\* An approved case on its way to the ledger is under way or reported.
LEMMA ProgressKept ==
    ASSUME Inductive, [Next]_vars
    PROVE  ProgressIsSound'
<1>1. ASSUME NEW r \in Runs, PlaceStep(r) PROVE ProgressIsSound'
  BY <1>1, PlaceFrame DEF caseVars, Inductive, ProgressIsSound
<1>2. ASSUME NEW r \in Runs, ProgressStep(r) PROVE ProgressIsSound'
  BY <1>2, SMTT(20) DEF Active, Announce, Begins, caseVars, Close, Collect, Enter,
     EnterDrafting, Goto, Handshake, Inductive, MayWrite, money, Only, place,
     Progress, ProgressIsSound, ProgressStep, projections, PublishRequest, RunIsSound,
     SaveDraft, Stop, tasks, Unwind, vars, view, ViewIsSound
<1>3. ASSUME NEW r \in Runs, DomainStep(r) PROVE ProgressIsSound'
  BY <1>3, SMTT(20) DEF Advance, Archived, AskApproval, Begins, caseVars, DomainStep,
     Fail, Goto, Inductive, InStep, MayWrite, money, Move, Nowhere, Only, Permitted,
     place, ProgressIsSound, projections, ResolveDraft, Rewrite, RolledBack, Route,
     RowIsSound, RunIsSound, Save, SaveRisk, Saves, SkillFits, tasks, vars, Verified,
     view, ViewIsSound, WaitForEvidence
<1>4. ASSUME NEW r \in Runs, WorkerStep(r) PROVE ProgressIsSound'
  BY <1>4, SMTT(20) DEF Blocked, caseVars, Claim, Complete, Compute, EndEffect,
     Inductive, money, OpenEffect, Outcome, place, ProgressIsSound, Resolve, tasks,
     vars, view, WorkerDies, WorkerStep, Works
<1>5. ASSUME NEW r \in Runs, Begin(r) PROVE ProgressIsSound'
  BY <1>5 DEF Begin, caseVars, Goto, Inductive, money, place, ProgressIsSound, tasks,
     vars, view
<1>6. ASSUME NEW r \in Runs, Publish(r) PROVE ProgressIsSound'
  BY <1>6 DEF caseVars, Goto, Inductive, money, place, ProgressIsSound, Publish,
     tasks, vars, view
<1>7. ASSUME NEW r \in Runs, CancelTasks(r) PROVE ProgressIsSound'
  BY <1>7 DEF Cancelled, CancelTasks, caseVars, Goto, Inductive, money, place,
     ProgressIsSound, tasks, vars, view
<1>8. ASSUME NEW r \in Runs, Report(r) PROVE ProgressIsSound'
  BY <1>8 DEF caseVars, Inductive, Interrupted, MayReport, money, Nowhere, place,
     ProgressIsSound, projections, Report, Stop, tasks, vars, view
<1>9. ASSUME NEW r \in Runs, StartInvestigation(r) PROVE ProgressIsSound'
  BY <1>9 DEF caseVars, Free, Inductive, money, Nowhere, place, ProgressIsSound,
     projections, StartInvestigation, tasks, vars, view
<1>10. ASSUME NEW r \in Runs, NEW d \in {"APPROVED", "REJECTED"}, Decide(r, d)
       PROVE  ProgressIsSound'
  BY <1>10 DEF Active, Cancelled, caseVars, Decide, Free, Inductive, money, Nowhere,
     Only, place, ProgressIsSound, Spawn, tasks, vars, view
<1>11. ASSUME NEW r \in Runs, Resume(r) PROVE ProgressIsSound'
  BY <1>11 DEF Active, Approvable, Cancelled, caseVars, ExecutionResumable, Free,
     Inductive, money, Nowhere, Only, place, ProgressIsSound, projections, Reconcile,
     Resumable, Resume, RollbackResumable, Spawn, tasks, vars, view
<1>12. ASSUME Reprepare PROVE ProgressIsSound'
  BY <1>12 DEF caseVars, Inductive, money, Nowhere, place, ProgressIsSound, Reprepare,
     tasks, vars, view
<1>13. ASSUME UNCHANGED vars PROVE ProgressIsSound'
  BY <1>13 DEF caseVars, Inductive, money, place, ProgressIsSound, tasks, vars, view
<1> QED
  BY <1>1, <1>2, <1>3, <1>4, <1>5, <1>6, <1>7, <1>8, <1>9, <1>10, <1>11, <1>12, <1>13,
     NextCases

-----------------------------------------------------------------------------
(* ViewIsSound *)

\* A snapshot that may be written is not older than the case or its recovery.
LEMMA ViewStep ==
    ASSUME Inductive, [Next]_vars, NEW q \in Runs
    PROVE  ViewIsSound(q)'
<1>1. ASSUME NEW r \in Runs, PlaceStep(r) PROVE ViewIsSound(q)'
  BY <1>1, SMTT(20) DEF Begins, caseVars, Dispatch, GiveUp, Goto, Inductive, MayWrite,
     money, place, PlaceStep, Raise, Reversed, Stop, Superseded, tasks, TypeOK,
     Vanish, vars, view, ViewIsSound
<1>2. ASSUME NEW r \in Runs, ProgressStep(r) PROVE ViewIsSound(q)'
  BY <1>2, SMTT(20) DEF Announce, Begins, caseVars, Close, Collect, Enter,
     EnterDrafting, Goto, Handshake, Inductive, MayWrite, money, Only, place,
     Progress, ProgressStep, projections, PublishRequest, SaveDraft, Stop, tasks,
     TypeOK, Unwind, vars, view, ViewIsSound
<1>3. ASSUME NEW r \in Runs, DomainStep(r) PROVE ViewIsSound(q)'
  BY <1>3, SMTT(20) DEF Advance, Archived, AskApproval, Begins, caseVars, DomainStep,
     Fail, Goto, Inductive, MayWrite, money, Move, Nowhere, Only, Permitted, place,
     projections, ResolveDraft, Rewrite, RolledBack, Route, Save, SaveRisk, Saves,
     tasks, TypeOK, vars, Verified, view, ViewIsSound, WaitForEvidence
<1>4. ASSUME NEW r \in Runs, WorkerStep(r) PROVE ViewIsSound(q)'
  BY <1>4, SMTT(20) DEF Blocked, caseVars, Claim, Complete, Compute, EndEffect,
     Inductive, money, OpenEffect, Outcome, place, Resolve, tasks, vars, view,
     ViewIsSound, WorkerDies, WorkerStep, Works
<1>5. ASSUME NEW r \in Runs, Begin(r) PROVE ViewIsSound(q)'
  BY <1>5 DEF Begin, caseVars, Goto, Inductive, money, place, tasks, TypeOK, vars,
     view, ViewIsSound
<1>6. ASSUME NEW r \in Runs, Publish(r) PROVE ViewIsSound(q)'
  BY <1>6 DEF caseVars, Goto, Inductive, money, place, Publish, tasks, vars, view,
     ViewIsSound
<1>7. ASSUME NEW r \in Runs, CancelTasks(r) PROVE ViewIsSound(q)'
  BY <1>7 DEF Cancelled, CancelTasks, caseVars, Goto, Inductive, money, place, tasks,
     vars, view, ViewIsSound
<1>8. ASSUME NEW r \in Runs, Report(r) PROVE ViewIsSound(q)'
  BY <1>8 DEF caseVars, Inductive, Interrupted, MayReport, money, Nowhere, place,
     projections, Report, Stop, tasks, vars, view, ViewIsSound
<1>9. ASSUME NEW r \in Runs, StartInvestigation(r) PROVE ViewIsSound(q)'
  BY <1>9 DEF caseVars, Free, Inductive, money, Nowhere, place, projections,
     StartInvestigation, tasks, vars, view, ViewIsSound
<1>10. ASSUME NEW r \in Runs, NEW d \in {"APPROVED", "REJECTED"}, Decide(r, d)
       PROVE  ViewIsSound(q)'
  BY <1>10 DEF Cancelled, caseVars, Decide, Free, Inductive, money, Nowhere, Only,
     place, Spawn, tasks, TypeOK, vars, view, ViewIsSound
<1>11. ASSUME NEW r \in Runs, Resume(r) PROVE ViewIsSound(q)'
  BY <1>11 DEF Approvable, Cancelled, caseVars, ExecutionResumable, Free, Inductive,
     money, Nowhere, Only, place, projections, Reconcile, Resumable, Resume,
     RollbackResumable, Spawn, tasks, vars, view, ViewIsSound
<1>12. ASSUME Reprepare PROVE ViewIsSound(q)'
  BY <1>12 DEF caseVars, Inductive, money, Nowhere, place, Reprepare, tasks, vars,
     view, ViewIsSound
<1>13. ASSUME UNCHANGED vars PROVE ViewIsSound(q)'
  BY <1>13 DEF caseVars, Inductive, money, place, tasks, vars, view, ViewIsSound
<1> QED
  BY <1>1, <1>2, <1>3, <1>4, <1>5, <1>6, <1>7, <1>8, <1>9, <1>10, <1>11, <1>12, <1>13,
     NextCases

-----------------------------------------------------------------------------
(* PlaceIsSound *)

\* A run of each kind comes to the Skills of its kind only.
LEMMA PlaceKept ==
    ASSUME Inductive, [Next]_vars, NEW q \in Runs
    PROVE  PlaceIsSound(q)'
<1>1. ASSUME NEW r \in Runs, PlaceStep(r) PROVE PlaceIsSound(q)'
  BY <1>1, SMTT(20) DEF Begins, caseVars, Dispatch, GiveUp, Goto, Inductive,
     Investigation, MayWrite, money, place, PlaceIsSound, PlaceStep, Raise, Reversed,
     Settling, Stop, Superseded, tasks, TypeOK, Vanish, vars, view
<1>2. ASSUME NEW r \in Runs, ProgressStep(r) PROVE PlaceIsSound(q)'
  BY <1>2, SMTT(20) DEF Announce, Begins, caseVars, Close, Collect, Enter,
     EnterDrafting, Goto, Handshake, Inductive, Investigation, MayWrite, money, Only,
     place, PlaceIsSound, Progress, ProgressStep, projections, PublishRequest,
     SaveDraft, Stop, tasks, TypeOK, Unwind, vars, view
<1>3. ASSUME NEW r \in Runs, DomainStep(r) PROVE PlaceIsSound(q)'
  BY <1>3, SMTT(20) DEF Advance, Archived, AskApproval, Begins, caseVars, DomainStep,
     Fail, Goto, Inductive, Investigation, Job, MayWrite, money, Move, Nowhere, Only,
     Permitted, place, PlaceIsSound, projections, ResolveDraft, Rewrite, RolledBack,
     Route, RunIsSound, Save, SaveRisk, Saves, Settling, tasks, TypeOK, vars,
     Verified, view, ViewIsSound, WaitForEvidence
<1>4. ASSUME NEW r \in Runs, WorkerStep(r) PROVE PlaceIsSound(q)'
  BY <1>4, SMTT(20) DEF Blocked, caseVars, Claim, Complete, Compute, EndEffect,
     Inductive, money, OpenEffect, Outcome, place, PlaceIsSound, Resolve, tasks, vars,
     view, WorkerDies, WorkerStep, Works
<1>5. ASSUME NEW r \in Runs, Begin(r) PROVE PlaceIsSound(q)'
  BY <1>5 DEF Begin, caseVars, Goto, Inductive, money, place, PlaceIsSound, tasks,
     vars, view
<1>6. ASSUME NEW r \in Runs, Publish(r) PROVE PlaceIsSound(q)'
  BY <1>6 DEF caseVars, Goto, Inductive, money, place, PlaceIsSound, Publish, tasks,
     vars, view
<1>7. ASSUME NEW r \in Runs, CancelTasks(r) PROVE PlaceIsSound(q)'
  BY <1>7 DEF Cancelled, CancelTasks, caseVars, Goto, Inductive, money, place,
     PlaceIsSound, tasks, vars, view
<1>8. ASSUME NEW r \in Runs, Report(r) PROVE PlaceIsSound(q)'
  BY <1>8 DEF caseVars, Inductive, Interrupted, MayReport, money, Nowhere, place,
     PlaceIsSound, projections, Report, Stop, tasks, TypeOK, vars, view
<1>9. ASSUME NEW r \in Runs, StartInvestigation(r) PROVE PlaceIsSound(q)'
  BY <1>9 DEF caseVars, Free, Inductive, Investigation, money, Nowhere, place,
     PlaceIsSound, projections, StartInvestigation, tasks, TypeOK, vars, view
<1>10. ASSUME NEW r \in Runs, NEW d \in {"APPROVED", "REJECTED"}, Decide(r, d)
       PROVE  PlaceIsSound(q)'
  BY <1>10 DEF Cancelled, caseVars, Decide, Free, Inductive, money, Nowhere, Only,
     place, PlaceIsSound, Spawn, tasks, TypeOK, vars, view
<1>11. ASSUME NEW r \in Runs, Resume(r) PROVE PlaceIsSound(q)'
  BY <1>11 DEF Approvable, Cancelled, caseVars, ExecutionResumable, Free, Inductive,
     money, MoneyIsSound, Nowhere, Only, place, PlaceIsSound, projections, Reconcile,
     Resumable, Resume, RollbackResumable, RowIsSound, Spawn, tasks, TypeOK, vars,
     view
<1>12. ASSUME Reprepare PROVE PlaceIsSound(q)'
  BY <1>12 DEF caseVars, Inductive, money, Nowhere, place, PlaceIsSound, Quiescent,
     Reprepare, tasks, vars, view
<1>13. ASSUME UNCHANGED vars PROVE PlaceIsSound(q)'
  BY <1>13 DEF caseVars, Inductive, money, place, PlaceIsSound, tasks, vars, view
<1> QED
  BY <1>1, <1>2, <1>3, <1>4, <1>5, <1>6, <1>7, <1>8, <1>9, <1>10, <1>11, <1>12, <1>13,
     NextCases

-----------------------------------------------------------------------------
(* RunIsSound *)

\* A snapshot of the present version knows the status: whoever moves the case
\* outdates every other snapshot.
LEMMA RunKept ==
    ASSUME Inductive, [Next]_vars, NEW q \in Runs
    PROVE  RunIsSound(q)'
<1>1. ASSUME NEW r \in Runs, PlaceStep(r) PROVE RunIsSound(q)'
  BY <1>1, Flags, SMTT(20) DEF Begins, caseVars, Dispatch, GiveUp, Goto, Inductive,
     InStep, MayWrite, money, place, PlaceStep, Raise, Reversed, RunIsSound,
     SkillFits, Stop, Superseded, tasks, TypeOK, Vanish, vars, view
<1>2. ASSUME NEW r \in Runs, ProgressStep(r) PROVE RunIsSound(q)'
  BY <1>2, Flags, SMTT(20) DEF Announce, Begins, caseVars, Close, Collect, Early,
     Enter, EnterDrafting, Goto, Handshake, Inductive, InStep, MayWrite, money, place,
     PlaceIsSound, Progress, ProgressStep, projections, PublishRequest, RowIsSound,
     RunIsSound, SaveDraft, SkillFits, Stop, tasks, TypeOK, Unwind, vars, view
<1>3. ASSUME NEW r \in Runs, DomainStep(r) PROVE RunIsSound(q)'
  BY <1>3, Flags, SMTT(20) DEF Advance, Archived, AskApproval, Begins, caseVars,
     DomainStep, Fail, Goto, Inductive, InStep, Job, MayWrite, money, Move, Permitted,
     place, PlaceIsSound, projections, ResolveDraft, Rewrite, RolledBack, Route,
     RunIsSound, Save, SaveRisk, Saves, Settling, SkillFits, tasks, TypeOK, vars,
     Verified, view, ViewIsSound, WaitForEvidence
<1>4. ASSUME NEW r \in Runs, WorkerStep(r) PROVE RunIsSound(q)'
  BY <1>4, Flags, SMTT(20) DEF Blocked, caseVars, Claim, Complete, Compute, EndEffect,
     Inductive, InStep, money, OpenEffect, Outcome, place, Resolve, RunIsSound, tasks,
     vars, view, WorkerDies, WorkerStep, Works
<1>5. ASSUME NEW r \in Runs, Begin(r) PROVE RunIsSound(q)'
  BY <1>5, Flags DEF Begin, caseVars, Goto, Inductive, InStep, money, place,
     PlaceIsSound, RunIsSound, tasks, vars, view
<1>6. ASSUME NEW r \in Runs, Publish(r) PROVE RunIsSound(q)'
  BY <1>6, Flags DEF caseVars, Goto, Inductive, InStep, money, place, Publish,
     RunIsSound, tasks, vars, view
<1>7. ASSUME NEW r \in Runs, CancelTasks(r) PROVE RunIsSound(q)'
  BY <1>7, Flags DEF Cancelled, CancelTasks, caseVars, Goto, Inductive, InStep, money,
     place, RunIsSound, tasks, vars, view
<1>8. ASSUME NEW r \in Runs, Report(r) PROVE RunIsSound(q)'
  BY <1>8, Flags DEF caseVars, Inductive, InStep, Interrupted, MayReport, money,
     place, projections, Report, RunIsSound, Stop, tasks, vars, view
<1>9. ASSUME NEW r \in Runs, StartInvestigation(r) PROVE RunIsSound(q)'
  BY <1>9, Flags DEF caseVars, Free, Inductive, InStep, money, place, projections,
     RunIsSound, StartInvestigation, tasks, TypeOK, vars, view
<1>10. ASSUME NEW r \in Runs, NEW d \in {"APPROVED", "REJECTED"}, Decide(r, d)
       PROVE  RunIsSound(q)'
  BY <1>10, Flags DEF Cancelled, caseVars, Decide, Free, Inductive, InStep, money,
     place, RunIsSound, SkillFits, Spawn, tasks, TypeOK, vars, view
<1>11. ASSUME NEW r \in Runs, Resume(r) PROVE RunIsSound(q)'
  BY <1>11, Flags DEF Approvable, Cancelled, caseVars, ExecutionResumable, Free,
     Inductive, money, place, projections, Reconcile, Resumable, Resume,
     RollbackResumable, RunIsSound, Spawn, tasks, TypeOK, vars, view
<1>12. ASSUME Reprepare PROVE RunIsSound(q)'
  BY <1>12, Flags DEF caseVars, Inductive, money, place, Reprepare, RunIsSound, tasks,
     vars, view
<1>13. ASSUME UNCHANGED vars PROVE RunIsSound(q)'
  BY <1>13, Flags DEF caseVars, Inductive, InStep, money, place, RunIsSound, tasks,
     vars, view
<1> QED
  BY <1>1, <1>2, <1>3, <1>4, <1>5, <1>6, <1>7, <1>8, <1>9, <1>10, <1>11, <1>12, <1>13,
     NextCases

-----------------------------------------------------------------------------
(* WorkIsSound *)

\* A worker that holds a claim of the present version works for a Skill that
\* fits the status: whoever moves the case unbinds every task.
LEMMA WorkKept ==
    ASSUME Inductive, [Next]_vars, NEW q \in Runs
    PROVE  WorkIsSound(q)'
<1>1. ASSUME NEW r \in Runs, PlaceStep(r) PROVE WorkIsSound(q)'
  BY <1>1, Flags, SMTT(20) DEF Begins, caseVars, Dispatch, GiveUp, Goto, Inductive,
     MayWrite, money, OpenTask, place, PlaceStep, Raise, Reversed, Settling, Stop,
     Superseded, tasks, TypeOK, Vanish, vars, view, WorkIsSound
<1>2. ASSUME NEW r \in Runs, ProgressStep(r) PROVE WorkIsSound(q)'
  BY <1>2, Flags, SMTT(20) DEF Announce, Begins, caseVars, Close, Collect, Enter,
     EnterDrafting, Goto, Handshake, Inductive, MayWrite, money, MoneyIsSound,
     OpenTask, place, Progress, ProgressStep, projections, PublishRequest, SaveDraft,
     Settling, Stop, tasks, TypeOK, Unwind, vars, view, WorkIsSound
<1>3. ASSUME NEW r \in Runs, DomainStep(r) PROVE WorkIsSound(q)'
  BY <1>3, Flags, SMTT(20) DEF Advance, Archived, AskApproval, Begins, caseVars,
     DomainStep, Fail, Goto, Inductive, Investigation, Job, MayWrite, money, Move,
     OpenTask, Permitted, place, PlaceIsSound, projections, ResolveDraft, Rewrite,
     RolledBack, Route, RunIsSound, Save, SaveRisk, Saves, Settling, tasks, TypeOK,
     vars, Verified, view, ViewIsSound, WaitForEvidence, WorkIsSound
<1>4. ASSUME NEW r \in Runs, WorkerStep(r) PROVE WorkIsSound(q)'
  BY <1>4, Flags, SMTT(20) DEF Blocked, caseVars, Claim, Complete, Compute, EndEffect,
     Inductive, money, OpenEffect, OpenTask, Outcome, place, Resolve, tasks, TypeOK,
     vars, view, WorkerDies, WorkerStep, WorkIsSound, Works
<1>5. ASSUME NEW r \in Runs, Begin(r) PROVE WorkIsSound(q)'
  BY <1>5, Flags DEF Begin, caseVars, Goto, Inductive, money, place, tasks, vars,
     view, WorkIsSound
<1>6. ASSUME NEW r \in Runs, Publish(r) PROVE WorkIsSound(q)'
  BY <1>6, Flags DEF caseVars, Goto, Inductive, InStep, Investigation, Job, money,
     place, PlaceIsSound, Publish, RunIsSound, Settling, tasks, TypeOK, vars, view,
     WorkIsSound
<1>7. ASSUME NEW r \in Runs, CancelTasks(r) PROVE WorkIsSound(q)'
  BY <1>7, Flags DEF Cancelled, CancelTasks, caseVars, Goto, Inductive, money,
     OpenTask, place, tasks, vars, view, WorkIsSound
<1>8. ASSUME NEW r \in Runs, Report(r) PROVE WorkIsSound(q)'
  BY <1>8, Flags DEF caseVars, Inductive, Interrupted, MayReport, money, place,
     projections, Report, Stop, tasks, vars, view, WorkIsSound
<1>9. ASSUME NEW r \in Runs, StartInvestigation(r) PROVE WorkIsSound(q)'
  BY <1>9, Flags DEF caseVars, Free, Inductive, money, OpenTask, place, projections,
     StartInvestigation, tasks, TypeOK, vars, view, WorkIsSound
<1>10. ASSUME NEW r \in Runs, NEW d \in {"APPROVED", "REJECTED"}, Decide(r, d)
       PROVE  WorkIsSound(q)'
  <2>1. ~bound'[q] /\ work' = work /\ work[r] = "none" /\ approval = "PENDING"
    BY <1>10, Flags DEF Decide, Free
  <2>2. CASE q = r
    <3>1. task'[q] = "NONE" /\ work'[q] = "none"
      BY <1>10, <2>1, <2>2 DEF Decide, Inductive, TypeOK, Cancelled
    <3> QED BY <2>1, <3>1 DEF WorkIsSound
  <2>3. CASE q # r
    <3>1. pc'[q] = pc[q] /\ stage'[q] = stage[q] /\ work'[q] = work[q]
      BY <1>10, <2>1, <2>3 DEF Decide, Spawn, Inductive, TypeOK
    <3>2. \/ task'[q] = task[q]
          \/ task[q] \in OpenTask /\ task'[q] = "CANCELLED"
      BY <1>10, <2>3 DEF Decide, Inductive, TypeOK, Cancelled
    <3> QED BY <2>1, <3>1, <3>2 DEF Inductive, WorkIsSound, OpenTask
  <2> QED BY <2>2, <2>3
<1>11. ASSUME NEW r \in Runs, Resume(r) PROVE WorkIsSound(q)'
  BY <1>11, Flags DEF Approvable, Cancelled, caseVars, ExecutionResumable, Free,
     Inductive, money, OpenTask, place, projections, Reconcile, Resumable, Resume,
     RollbackResumable, Spawn, tasks, TypeOK, vars, view, WorkIsSound
<1>12. ASSUME Reprepare PROVE WorkIsSound(q)'
  BY <1>12, Flags DEF caseVars, Inductive, money, place, Quiescent, Reprepare, tasks,
     vars, view, WorkIsSound
<1>13. ASSUME UNCHANGED vars PROVE WorkIsSound(q)'
  BY <1>13, Flags DEF caseVars, Inductive, money, place, tasks, vars, view,
     WorkIsSound
<1> QED
  BY <1>1, <1>2, <1>3, <1>4, <1>5, <1>6, <1>7, <1>8, <1>9, <1>10, <1>11, <1>12, <1>13,
     NextCases

-----------------------------------------------------------------------------
(* AnswerIsSound *)

\* A result of a money Skill, once given, stays true: posted operations stay
\* posted until the case is prepared again, when nobody remembers.
LEMMA AnswerKept ==
    ASSUME Inductive, [Next]_vars, NEW q \in Runs
    PROVE  AnswerIsSound(q)'
<1>1. ASSUME NEW r \in Runs, PlaceStep(r) PROVE AnswerIsSound(q)'
  BY <1>1, SMTT(20) DEF Answered, AnswerIsSound, Begins, caseVars, Dispatch, GiveUp,
     Goto, Inductive, MayWrite, money, place, PlaceStep, Raise, Reversed, Stop,
     Superseded, tasks, TypeOK, Vanish, vars, view
<1>2. ASSUME NEW r \in Runs, ProgressStep(r) PROVE AnswerIsSound(q)'
  BY <1>2, SMTT(20) DEF Announce, Answered, AnswerIsSound, Begins, caseVars, Close,
     Collect, Enter, EnterDrafting, Goto, Handshake, Inductive, MayWrite, money,
     MoneyIsSound, Only, place, PlaceIsSound, Progress, ProgressStep, projections,
     PublishRequest, RowIsSound, SaveDraft, Stop, tasks, TypeOK, Unwind, vars, view
<1>3. ASSUME NEW r \in Runs, DomainStep(r) PROVE AnswerIsSound(q)'
  BY <1>3, SMTT(20) DEF Advance, Answered, AnswerIsSound, Archived, AskApproval,
     Begins, caseVars, DomainStep, Fail, Goto, Inductive, MayWrite, money, Move,
     Nowhere, Only, Permitted, place, PlaceIsSound, projections, ResolveDraft,
     Rewrite, RolledBack, Route, Save, SaveRisk, Saves, tasks, TypeOK, vars, Verified,
     view, WaitForEvidence, WorkIsSound
<1>4. ASSUME NEW r \in Runs, WorkerStep(r) PROVE AnswerIsSound(q)'
  BY <1>4, SMTT(20) DEF Answered, AnswerIsSound, Blocked, caseVars, Claim, Complete,
     Compute, EffectIsSound, EndEffect, Inductive, money, OpenEffect, Outcome, place,
     Resolve, tasks, TypeOK, vars, view, WorkerDies, WorkerStep, Works
<1>5. ASSUME NEW r \in Runs, Begin(r) PROVE AnswerIsSound(q)'
  BY <1>5 DEF Answered, AnswerIsSound, Begin, caseVars, Goto, Inductive, money, place,
     tasks, vars, view
<1>6. ASSUME NEW r \in Runs, Publish(r) PROVE AnswerIsSound(q)'
  BY <1>6 DEF Answered, AnswerIsSound, caseVars, Goto, Inductive, money, place,
     Publish, tasks, TypeOK, vars, view
<1>7. ASSUME NEW r \in Runs, CancelTasks(r) PROVE AnswerIsSound(q)'
  BY <1>7 DEF Answered, AnswerIsSound, Cancelled, CancelTasks, caseVars, Goto,
     Inductive, money, place, tasks, vars, view
<1>8. ASSUME NEW r \in Runs, Report(r) PROVE AnswerIsSound(q)'
  BY <1>8 DEF Answered, AnswerIsSound, caseVars, Inductive, Interrupted, MayReport,
     money, Nowhere, place, projections, Report, Stop, tasks, vars, view
<1>9. ASSUME NEW r \in Runs, StartInvestigation(r) PROVE AnswerIsSound(q)'
  BY <1>9 DEF Answered, AnswerIsSound, caseVars, Free, Inductive, money, Nowhere,
     place, projections, StartInvestigation, tasks, TypeOK, vars, view
<1>10. ASSUME NEW r \in Runs, NEW d \in {"APPROVED", "REJECTED"}, Decide(r, d)
       PROVE  AnswerIsSound(q)'
  BY <1>10 DEF Answered, AnswerIsSound, Cancelled, caseVars, Decide, Free, Inductive,
     Investigation, Job, money, Nowhere, Only, place, PlaceIsSound, Spawn, tasks,
     TypeOK, vars, view
<1>11. ASSUME NEW r \in Runs, Resume(r) PROVE AnswerIsSound(q)'
  BY <1>11 DEF Answered, AnswerIsSound, Approvable, Cancelled, caseVars,
     ExecutionResumable, Free, Inductive, money, Nowhere, Only, place, projections,
     Reconcile, Resumable, Resume, RollbackResumable, Spawn, tasks, TypeOK, vars, view
<1>12. ASSUME Reprepare PROVE AnswerIsSound(q)'
  BY <1>12 DEF Answered, AnswerIsSound, caseVars, Inductive, money, Nowhere, place,
     Quiescent, Reprepare, tasks, vars, view
<1>13. ASSUME UNCHANGED vars PROVE AnswerIsSound(q)'
  BY <1>13 DEF Answered, AnswerIsSound, caseVars, Inductive, money, place, tasks,
     vars, view
<1> QED
  BY <1>1, <1>2, <1>3, <1>4, <1>5, <1>6, <1>7, <1>8, <1>9, <1>10, <1>11, <1>12, <1>13,
     NextCases

-----------------------------------------------------------------------------
(* EffectIsSound *)

\* Of the effects in progress with an active claim there is one, and it is of
\* the operation in doubt: the hold and the open row block every other.
LEMMA EffectKept ==
    ASSUME Inductive, [Next]_vars, NEW q \in Runs
    PROVE  EffectIsSound(q)'
<1>1. ASSUME NEW r \in Runs, PlaceStep(r) PROVE EffectIsSound(q)'
  BY <1>1, SMTT(20) DEF Begins, caseVars, ClaimActive, Dispatch, EffectIsSound,
     GiveUp, Goto, Inductive, MayWrite, money, place, PlaceStep, Raise, Reversed,
     Stop, Superseded, tasks, TypeOK, Vanish, vars, view
<1>2. ASSUME NEW r \in Runs, ProgressStep(r) PROVE EffectIsSound(q)'
  BY <1>2, SMTT(20) DEF Announce, Begins, caseVars, ClaimActive, Close, Collect,
     EffectIsSound, Enter, EnterDrafting, Goto, Handshake, Inductive, MayWrite, money,
     Only, place, PlaceIsSound, Progress, ProgressStep, projections, PublishRequest,
     SaveDraft, Stop, tasks, TypeOK, Unwind, vars, view
<1>3. ASSUME NEW r \in Runs, DomainStep(r) PROVE EffectIsSound(q)'
  BY <1>3, SMTT(20) DEF Advance, Archived, AskApproval, Begins, caseVars, ClaimActive,
     DomainStep, EffectIsSound, Fail, Goto, Inductive, MayWrite, money, Move, Nowhere,
     Only, Permitted, place, projections, ResolveDraft, Rewrite, RolledBack, Route,
     Save, SaveRisk, Saves, tasks, TypeOK, vars, Verified, view, WaitForEvidence,
     WorkIsSound
<1>4. ASSUME NEW r \in Runs, WorkerStep(r) PROVE EffectIsSound(q)'
  BY <1>4, SMTT(20) DEF Blocked, caseVars, Claim, ClaimActive, Complete, Compute,
     EffectIsSound, EndEffect, Inductive, money, OpenEffect, Outcome, place, Resolve,
     tasks, TypeOK, vars, view, WorkerDies, WorkerStep, WorkIsSound, Works
<1>5. ASSUME NEW r \in Runs, Begin(r) PROVE EffectIsSound(q)'
  BY <1>5 DEF Begin, caseVars, ClaimActive, EffectIsSound, Goto, Inductive, money,
     place, tasks, vars, view
<1>6. ASSUME NEW r \in Runs, Publish(r) PROVE EffectIsSound(q)'
  BY <1>6 DEF caseVars, ClaimActive, EffectIsSound, Goto, Inductive, money, place,
     Publish, tasks, TypeOK, vars, view
<1>7. ASSUME NEW r \in Runs, CancelTasks(r) PROVE EffectIsSound(q)'
  BY <1>7 DEF Cancelled, CancelTasks, caseVars, ClaimActive, EffectIsSound, Goto,
     Inductive, money, place, tasks, vars, view
<1>8. ASSUME NEW r \in Runs, Report(r) PROVE EffectIsSound(q)'
  BY <1>8 DEF caseVars, ClaimActive, EffectIsSound, Inductive, Interrupted, MayReport,
     money, Nowhere, place, projections, Report, Stop, tasks, vars, view
<1>9. ASSUME NEW r \in Runs, StartInvestigation(r) PROVE EffectIsSound(q)'
  BY <1>9 DEF caseVars, ClaimActive, EffectIsSound, Free, Inductive, money, Nowhere,
     place, projections, StartInvestigation, tasks, TypeOK, vars, view
<1>10. ASSUME NEW r \in Runs, NEW d \in {"APPROVED", "REJECTED"}, Decide(r, d)
       PROVE  EffectIsSound(q)'
  BY <1>10 DEF Cancelled, caseVars, ClaimActive, Decide, EffectIsSound, Free,
     Inductive, money, Nowhere, Only, place, Spawn, tasks, vars, view
<1>11. ASSUME NEW r \in Runs, Resume(r) PROVE EffectIsSound(q)'
  BY <1>11 DEF Approvable, Cancelled, caseVars, ClaimActive, EffectIsSound,
     ExecutionResumable, Free, Inductive, money, Nowhere, Only, place, projections,
     Reconcile, Resumable, Resume, RollbackResumable, Spawn, tasks, vars, view
<1>12. ASSUME Reprepare PROVE EffectIsSound(q)'
  BY <1>12 DEF caseVars, EffectIsSound, Inductive, money, Nowhere, place, Quiescent,
     Reprepare, tasks, vars, view
<1>13. ASSUME UNCHANGED vars PROVE EffectIsSound(q)'
  BY <1>13 DEF caseVars, ClaimActive, EffectIsSound, Inductive, money, place, tasks,
     vars, view
<1> QED
  BY <1>1, <1>2, <1>3, <1>4, <1>5, <1>6, <1>7, <1>8, <1>9, <1>10, <1>11, <1>12, <1>13,
     NextCases

-----------------------------------------------------------------------------
(* The invariant, and what follows from it *)

\* No step of a coordinator, a worker or a person destroys what another relies on.
LEMMA StepInductive ==
    ASSUME Inductive, [Next]_vars
    PROVE  Inductive'
<1>1. TypeOK'
  BY TypeStep DEF Inductive
<1>2. RowIsSound' /\ MoneyIsSound' /\ ProgressIsSound'
  BY RowStep, MoneyStep, ProgressKept
<1>3. ASSUME NEW q \in Runs
      PROVE  /\ ViewIsSound(q)' /\ PlaceIsSound(q)' /\ RunIsSound(q)'
             /\ WorkIsSound(q)' /\ AnswerIsSound(q)' /\ EffectIsSound(q)'
  BY ViewStep, PlaceKept, RunKept, WorkKept, AnswerKept, EffectKept
<1> QED
  BY <1>1, <1>2, <1>3 DEF Inductive

\* The parts together hold in every reachable state, for any runs and processes.
THEOREM CaseInductive == Spec => []Inductive
<1>1. Init => Inductive
  BY InitInductive
<1>2. Inductive /\ [Next]_vars => Inductive'
  BY StepInductive
<1> QED
  BY <1>1, <1>2, PTL DEF Spec

\* The case row, the runs, the tasks and the workers keep to the statuses that
\* the source names for them.
THEOREM CaseTypeCorrect == Spec => []TypeOK
<1>1. Inductive => TypeOK
  BY DEF Inductive
<1> QED
  BY <1>1, CaseInductive, PTL

\* Money moves only for a medium risk that a person approved, and is taken back
\* only after a failed verification of what was posted, however many runs,
\* recoveries and workers were involved.
THEOREM MoneyFollowsApproval == Spec => []EffectsFollowApproval
<1>1. Inductive => EffectsFollowApproval
  BY DEF Inductive, RowIsSound, MoneyIsSound, EffectsFollowApproval
<1> QED
  BY <1>1, CaseInductive, PTL

\* What a case tells about its money is so: verified, rolled back, closed.
THEOREM OutcomeIsTold == Spec => []OutcomeIsTrue
<1>1. Inductive => OutcomeIsTrue
  BY DEF Inductive, RowIsSound, MoneyIsSound, OutcomeIsTrue, TypeOK, Operation
<1> QED
  BY <1>1, CaseInductive, PTL

\* A task that a worker may still claim or act for belongs to the status its
\* Skill is for.
THEOREM ClaimsFitTheCase == Spec => []TasksFitTheCase
<1>1. Inductive => TasksFitTheCase
  BY DEF Inductive, WorkIsSound, TasksFitTheCase
<1> QED
  BY <1>1, CaseInductive, PTL

\* An interrupted case on its way to or from the ledger can be taken up.
THEOREM DoubtIsResumable == Spec => []InDoubtIsResumable
<1>1. Inductive => InDoubtIsResumable
  BY DEF Inductive, RowIsSound, MoneyIsSound, ProgressIsSound, InDoubtIsResumable,
     Resumable, Approvable, RollbackResumable, ExecutionResumable, MoneyPath, TypeOK, Operation
<1> QED
  BY <1>1, CaseInductive, PTL

-----------------------------------------------------------------------------
(* What a step may never do *)

\* The body of EffectsOnlyInTheirPhase.
EffectInPhase ==
    /\ settle' = "POSTED" /\ settle # "POSTED" => status = "EXECUTING"
    /\ reverse' = "POSTED" /\ reverse # "POSTED" => status = "ROLLBACK_REQUIRED"

\* Only a worker posts, with an active claim, whose Skill fits the status; a
\* recovery gives up what is open and never posts it.
LEMMA EffectPhaseStep ==
    ASSUME Inductive, [Next]_vars
    PROVE  EffectInPhase
<1>1. ASSUME NEW r \in Runs, PlaceStep(r) \/ ProgressStep(r) \/ DomainStep(r)
      PROVE  UNCHANGED <<settle, reverse>>
  BY <1>1, PlaceFrame, ProgressFrame, DomainFrame DEF money
<1>2. ASSUME NEW r \in Runs, Begin(r) \/ Publish(r) \/ CancelTasks(r) \/ Report(r)
                             \/ StartInvestigation(r)
      PROVE  UNCHANGED <<settle, reverse>>
  BY <1>2 DEF Begin, Publish, CancelTasks, Report, StartInvestigation, money
<1>3. ASSUME NEW r \in Runs, NEW d \in {"APPROVED", "REJECTED"}, Decide(r, d)
      PROVE  UNCHANGED <<settle, reverse>>
  BY <1>3 DEF Decide, money
<1>4. ASSUME UNCHANGED vars PROVE UNCHANGED <<settle, reverse>>
  BY <1>4 DEF vars, money
<1>5. ASSUME NEW r \in Runs, WorkerStep(r) PROVE EffectInPhase
  <2>1. CASE EndEffect(r)
    BY <2>1 DEF EndEffect, Resolve, money, ClaimActive, OpenTask, EffectInPhase,
       Inductive, WorkIsSound, SkillFits
  <2>2. CASE OpenEffect(r)
    BY <2>2 DEF OpenEffect, EffectInPhase
  <2>3. CASE Claim(r) \/ Compute(r) \/ Complete(r) \/ WorkerDies(r)
    BY <2>3 DEF Claim, Compute, Complete, WorkerDies, money, EffectInPhase
  <2> QED
    BY <1>5, <2>1, <2>2, <2>3 DEF WorkerStep
<1>6. ASSUME NEW r \in Runs, Resume(r) PROVE EffectInPhase
  BY <1>6 DEF Resume, Reconcile, EffectInPhase
<1>7. ASSUME Reprepare PROVE EffectInPhase
  BY <1>7 DEF Reprepare, EffectInPhase
<1> QED
  BY <1>1, <1>2, <1>3, <1>4, <1>5, <1>6, <1>7, NextCases DEF EffectInPhase

\* A settlement posts while the case is executing, a compensation while it is
\* being rolled back, whichever worker outlived which run.
THEOREM EffectsStayInPhase == Spec => EffectsOnlyInTheirPhase
<1>1. Inductive /\ [Next]_vars => EffectInPhase
  BY EffectPhaseStep
<1>2. Inductive /\ [Next]_vars =>
         [/\ settle' = "POSTED" /\ settle # "POSTED" => status = "EXECUTING"
          /\ reverse' = "POSTED" /\ reverse # "POSTED" => status = "ROLLBACK_REQUIRED"]_vars
  BY <1>1 DEF EffectInPhase
<1> QED
  BY <1>2, CaseInductive, PTL DEF Spec, EffectsOnlyInTheirPhase
\* The body of TransitionsAreAllowed.
TransitionIsAllowed ==
    status' # status => \/ Allowed(status, status')
                        \/ status = "VERIFYING" /\ Resumable /\ status' = "EXECUTING"
                        \/ Quiescent /\ status' = "CREATED"

\* A domain write comes from a snapshot of the present version, so it starts
\* from the status that its Skill is for.
LEMMA DomainTransition ==
    ASSUME Inductive, NEW r \in Runs, DomainStep(r)
    PROVE  status' = status \/ Allowed(status, status')
<1>1. /\ MayWrite(r) => versionOk[r] /\ RunIsSound(r) /\ PlaceIsSound(r)
      /\ pc[r] \in {"result", "saved"} /\ MayWrite(r) => InStep(r)
      /\ status \in Status
  BY DEF Inductive, ViewIsSound, RunIsSound, MayWrite, TypeOK
<1>2. CASE Save(r)
  BY <1>2, <1>1 DEF Allowed, InStep, MayWrite, Move, Save, Saves, SkillFits
<1>3. CASE SaveRisk(r)
  BY <1>3, <1>1 DEF Allowed, InStep, MayWrite, Move, SaveRisk, SkillFits
<1>4. CASE Advance(r)
  BY <1>4, <1>1 DEF Advance, Allowed, InStep, MayWrite, Move, Saves, SkillFits
<1>5. CASE WaitForEvidence(r)
  BY <1>5, <1>1 DEF Allowed, InStep, MayWrite, Move, SkillFits, WaitForEvidence
<1>6. CASE Route(r)
  BY <1>6, <1>1 DEF Allowed, InStep, MayWrite, Move, Route, SkillFits
<1>7. CASE AskApproval(r)
  BY <1>7, <1>1 DEF Allowed, AskApproval, InStep, MayWrite, Move, SkillFits
<1>8. CASE Permitted(r)
  BY <1>8, <1>1 DEF Allowed, InStep, MayWrite, Move, Permitted, SkillFits
<1>9. CASE ResolveDraft(r)
  BY <1>9, <1>1 DEF Allowed, InStep, MayWrite, Move, ResolveDraft, SkillFits
<1>10. CASE Verified(r)
  BY <1>10, <1>1 DEF Allowed, InStep, MayWrite, Move, SkillFits, Verified
<1>11. CASE RolledBack(r)
  BY <1>11, <1>1 DEF Allowed, InStep, MayWrite, Move, PlaceIsSound, RolledBack,
     RunIsSound, Settling, SkillFits
<1>12. CASE Archived(r)
  BY <1>12, <1>1 DEF Allowed, Archived, InStep, MayWrite, Move, PlaceIsSound,
     RunIsSound, Settling, SkillFits
<1>13. CASE Fail(r)
  BY <1>13, <1>1 DEF Allowed, Fail, InStep, MayWrite, Move, SkillFits
<1> QED BY <1>2, <1>3, <1>4, <1>5, <1>6, <1>7, <1>8, <1>9, <1>10, <1>11, <1>12, <1>13 DEF DomainStep

\* Everything else that moves the status: the failure report, the decision, the
\* recovery and the re-preparation.
LEMMA TransitionStep ==
    ASSUME Inductive, [Next]_vars
    PROVE  TransitionIsAllowed
<1>1. ASSUME NEW r \in Runs, PlaceStep(r) \/ ProgressStep(r) \/ WorkerStep(r)
      PROVE  status' = status
  BY <1>1, PlaceFrame, ProgressFrame, WorkerFrame DEF caseVars
<1>2. ASSUME NEW r \in Runs, DomainStep(r)
      PROVE  status' = status \/ Allowed(status, status')
  BY <1>2, DomainTransition
<1>3. ASSUME NEW r \in Runs, Begin(r) \/ Publish(r) \/ CancelTasks(r) \/ StartInvestigation(r)
      PROVE  status' = status
  BY <1>3 DEF Begin, Publish, CancelTasks, StartInvestigation, caseVars
<1>4. ASSUME UNCHANGED vars PROVE status' = status
  BY <1>4 DEF vars, caseVars
<1>5. ASSUME NEW r \in Runs, Report(r)
      PROVE  status' = status \/ Allowed(status, status')
  BY <1>5 DEF Report, MayReport, Allowed, Interrupted, Inductive, TypeOK
<1>6. ASSUME NEW r \in Runs, NEW d \in {"APPROVED", "REJECTED"}, Decide(r, d)
      PROVE  Allowed(status, status')
  BY <1>6 DEF Decide, Allowed
<1>7. ASSUME NEW r \in Runs, Resume(r) PROVE TransitionIsAllowed
  <2>1. CASE RollbackResumable
    <3>1. status \in {"RECOVERY_REQUIRED", "ROLLBACK_REQUIRED", "FAILED"} /\ status' = "ROLLBACK_REQUIRED"
      BY <1>7, <2>1 DEF Resume, RollbackResumable
    <3> QED BY <3>1 DEF Allowed, TransitionIsAllowed
  <2>2. CASE ~RollbackResumable
    <3>1. /\ status \in {"RECOVERY_REQUIRED", "READY_TO_EXECUTE", "EXECUTING", "VERIFYING"}
          /\ status' = IF status = "READY_TO_EXECUTE" THEN status ELSE "EXECUTING"
          /\ Resumable
      BY <1>7, <2>2 DEF Resume, Resumable, RollbackResumable, ExecutionResumable
    <3> QED BY <3>1 DEF Allowed, TransitionIsAllowed
  <2> QED BY <2>1, <2>2
<1>8. ASSUME Reprepare PROVE TransitionIsAllowed
  BY <1>8 DEF Reprepare, TransitionIsAllowed
<1> QED
  BY <1>1, <1>2, <1>3, <1>4, <1>5, <1>6, <1>7, <1>8, NextCases DEF TransitionIsAllowed

\* Every change of the status is one that the table lists, or one of the two
\* that a recovery and a re-preparation make in one commit.
THEOREM TransitionsStayInTable == Spec => TransitionsAreAllowed
<1>1. Inductive /\ [Next]_vars =>
         [status' # status => \/ Allowed(status, status')
                              \/ status = "VERIFYING" /\ Resumable /\ status' = "EXECUTING"
                              \/ Quiescent /\ status' = "CREATED"]_vars
  BY TransitionStep DEF TransitionIsAllowed
<1> QED
  BY <1>1, CaseInductive, PTL DEF Spec, TransitionsAreAllowed

\* The body of OldRunsDoNotWrite, for one run.
WritesInGeneration(q) ==
    /\ pc[q] # "idle"
    /\ <<pc'[q], job'[q]>> # <<pc[q], job[q]>>
    /\ caseVars' # caseVars
    => generationOk[q]

\* A coordinator that writes has the present revision, hence the present
\* generation; a failure report compares the generation itself.
LEMMA OldRunStep ==
    ASSUME Inductive, [Next]_vars, NEW q \in Runs
    PROVE  WritesInGeneration(q)
<1>1. ASSUME NEW r \in Runs, PlaceStep(r) \/ Begin(r) \/ Publish(r) \/ CancelTasks(r)
      PROVE  caseVars' = caseVars
  BY <1>1, PlaceFrame DEF Begin, Publish, CancelTasks
<1>2. ASSUME NEW r \in Runs, ProgressStep(r) \/ DomainStep(r)
      PROVE  WritesInGeneration(q)
  <2>1. CASE q = r
    <3>1. pc[r] # "idle" /\ caseVars' # caseVars => MayWrite(r)
      BY <1>2, SMTT(20) DEF ProgressStep, DomainStep, Enter, Handshake, Announce, Collect,
         EnterDrafting, SaveDraft, Close, PublishRequest, Unwind, Progress, Save, SaveRisk,
         Advance, WaitForEvidence, Route, AskApproval, Permitted, ResolveDraft, Verified,
         RolledBack, Archived, Fail, Move, caseVars, projections
    <3> QED
      BY <2>1, <3>1 DEF WritesInGeneration, MayWrite, Inductive, ViewIsSound
  <2>2. CASE q # r
    <3>1. pc'[q] = pc[q] /\ job'[q] = job[q]
      BY <1>2, <2>2, SMTT(20) DEF ProgressStep, DomainStep, Enter, Handshake, Announce,
         Collect, EnterDrafting, SaveDraft, Close, PublishRequest, Unwind, Save, SaveRisk,
         Advance, WaitForEvidence, Route, AskApproval, Permitted, ResolveDraft, Verified,
         RolledBack, Archived, Fail, Goto, Begins, Stop, Inductive, TypeOK
    <3> QED
      BY <3>1 DEF WritesInGeneration
  <2> QED
    BY <2>1, <2>2
<1>3. ASSUME NEW r \in Runs, Report(r) PROVE WritesInGeneration(q)
  BY <1>3 DEF Report, MayReport, Stop, projections, caseVars, Inductive, TypeOK,
     WritesInGeneration
<1>4. ASSUME NEW r \in Runs, WorkerStep(r) PROVE UNCHANGED <<pc, job>>
  BY <1>4, WorkerFrame DEF place
<1>5. ASSUME NEW r \in Runs, StartInvestigation(r) \/ Resume(r)
      PROVE  pc[q] # "idle" => pc'[q] = pc[q] /\ job'[q] = job[q]
  BY <1>5 DEF StartInvestigation, Resume, Free, Spawn, place, Inductive, TypeOK
<1>6. ASSUME NEW r \in Runs, NEW d \in {"APPROVED", "REJECTED"}, Decide(r, d)
      PROVE  pc[q] # "idle" => pc'[q] = pc[q] /\ job'[q] = job[q]
  BY <1>6 DEF Decide, Free, Spawn, Inductive, TypeOK
<1>7. ASSUME Reprepare \/ UNCHANGED vars PROVE UNCHANGED <<pc, job>>
  BY <1>7 DEF Reprepare, vars, place
<1> QED
  BY <1>1, <1>2, <1>3, <1>4, <1>5, <1>6, <1>7, NextCases DEF WritesInGeneration

\* A coordinator that read the case before a recovery or a re-preparation never
\* writes its row again.
THEOREM SupersededRunsAreSilent == Spec => OldRunsDoNotWrite
<1>1. Inductive /\ [Next]_vars =>
         [\A r \in Runs :
            /\ pc[r] # "idle"
            /\ <<pc'[r], job'[r]>> # <<pc[r], job[r]>>
            /\ caseVars' # caseVars
            => generationOk[r]]_vars
  BY OldRunStep DEF WritesInGeneration
<1> QED
  BY <1>1, CaseInductive, PTL DEF Spec, OldRunsDoNotWrite
=============================================================================
