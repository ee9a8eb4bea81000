---------------------------- MODULE Orchestrator ----------------------------
(***************************************************************************)
(* The in-process orchestrator (orchestrator.py) and the HTTP handlers     *)
(* that run it: POST /run and /evidence/resume run a whole case, a human   *)
(* decision executes what was approved.  Requests run in parallel threads, *)
(* each with its own snapshot of the case row; every write compares that   *)
(* snapshot with the row (state_machine.py, workflow_persistence.py) and   *)
(* raises when the row has changed.  Any call may raise at any step, and a *)
(* request may die between any two.                                        *)
(*                                                                         *)
(* What a run computed (facts, diffs, amounts) is its plan, named after    *)
(* the request.  Drafts, quotas, the journal's recovery and the ledger's   *)
(* arithmetic are in Settlement and MoneyJournal.                          *)
(***************************************************************************)
EXTENDS CommissionRules

CONSTANTS
    Requests,   \* HTTP requests; each is made at most once
    Modes,      \* approval modes in use: "wait" and, in demonstrations, "auto"
    Findings,   \* what an investigation may find: deltas, score and conflict
    NoOne

ASSUME ModesAssumption == Modes \subseteq {"wait", "auto"}
ASSUME NoOneAssumption == NoOne \notin Requests

VARIABLES
    \* the case row, the approval the store names for it, its verification,
    \* and the sample filed for evaluation
    status, report, stored, storedStatus, verification, dataset,
    \* approval forms at the gateway, and whether the simulated approver
    \* has decided one
    gate, simulated,
    \* plans in the ledger, and reversed again
    posted, undone,
    \* a request: its step, its stage, what it runs, whether its snapshot is
    \* the row, the plan it works for, the approval it holds, its risk
    step, stage, handler, fresh, plan, held, risk

row  == <<status, report, stored, storedStatus, verification, dataset>>
gateway == <<gate, simulated, posted, undone>>
work == <<stage, handler, plan, held, risk>>
vars == <<row, gateway, step, fresh, work>>

Stages == {"Intake", "Evidence", "Policy", "Calculate", "RootCause", "Risk"}

StatusOf == [Intake |-> "NORMALIZING", Evidence |-> "EVIDENCE_COLLECTING",
             Policy |-> "POLICY_MATCHING", Calculate |-> "CALCULATING",
             RootCause |-> "ROOT_CAUSE_ANALYZING", Risk |-> "RISK_REVIEW"]

After == [Intake |-> "Evidence", Evidence |-> "Policy", Policy |-> "Calculate",
          Calculate |-> "RootCause", RootCause |-> "Risk", Risk |-> "Risk"]

Init ==
    /\ status = "CREATED"
    /\ report = NoOne
    /\ stored = NoOne
    /\ storedStatus = "NONE"
    /\ verification = "NONE"
    /\ dataset = "NONE"
    /\ gate = [q \in Requests |-> "NONE"]
    /\ simulated = FALSE
    /\ posted = {}
    /\ undone = {}
    /\ step = [q \in Requests |-> "new"]
    /\ stage = [q \in Requests |-> "Intake"]
    /\ handler = [q \in Requests |-> "none"]
    /\ fresh = [q \in Requests |-> FALSE]
    /\ plan = [q \in Requests |-> q]
    /\ held = [q \in Requests |-> NoOne]
    /\ risk = [q \in Requests |-> "NONE"]

Goto(q, s) == step' = [step EXCEPT ![q] = s]

\* Mutant: a write compares nothing.
MayWriteAnyway(q) == TRUE

\* versioned_case_write, persist_case_transition and commit_case_stage compare
\* revision, status and state version under the row's lock.
MayWrite(q) == fresh[q]

\* One write of the row: every other snapshot is outdated.
Write(q) ==
    /\ MayWrite(q)
    /\ fresh' = [p \in Requests |-> p = q]

Move(q, to) ==
    /\ Write(q)
    /\ status' = to

rowButStatus == <<report, stored, storedStatus, verification, dataset>>

-----------------------------------------------------------------------------
(* Entering *)

\* run_case and resume_with_evidence read the row and look at its status.
Receive(q) ==
    /\ step[q] = "new"
    /\ \/ status = "CREATED" /\ Goto(q, "entering")
       \/ status = "WAITING_FOR_EVIDENCE" /\ Goto(q, "supplying")
    /\ handler' = [handler EXCEPT ![q] = "run"]
    /\ fresh' = [fresh EXCEPT ![q] = TRUE]
    /\ UNCHANGED <<row, gateway, stage, plan, held, risk>>

\* The supplied evidence is saved before the run begins again.
Supply(q) ==
    /\ step[q] = "supplying"
    /\ Write(q)
    /\ Goto(q, "entering")
    /\ UNCHANGED <<row, gateway, work>>

\* Another handler writes the row, as a duplicate team run does.
OtherWrite ==
    /\ status = "CREATED"
    /\ fresh' = [q \in Requests |-> FALSE]
    /\ UNCHANGED <<row, gateway, step, work>>

-----------------------------------------------------------------------------
(* The stages of an investigation *)

EnterStage(q) ==
    /\ step[q] = "entering"
    /\ Move(q, StatusOf[stage[q]])
    /\ Goto(q, "working")
    /\ UNCHANGED <<rowButStatus, gateway, work>>

\* A stage saves what it found, in one or more writes, and the next begins.
FinishStage(q) ==
    /\ step[q] = "working"
    /\ stage[q] # "Risk"
    /\ Write(q)
    /\ report' = IF stage[q] = "RootCause" THEN q ELSE report
    /\ Goto(q, "entering")
    /\ stage' = [stage EXCEPT ![q] = After[@]]
    /\ UNCHANGED <<status, stored, storedStatus, verification, dataset,
                   gateway, handler, plan, held, risk>>

\* _escalate_to_human: no unique order, or a low evidence score.
Escalate(q) ==
    /\ step[q] = "working"
    /\ stage[q] \in {"Intake", "Evidence"}
    /\ Move(q, "WAITING_FOR_EVIDENCE")
    /\ Goto(q, "exporting")
    /\ UNCHANGED <<rowButStatus, gateway, work>>

\* The risk decision is saved; what follows depends on it alone.
SaveRisk(q) ==
    /\ step[q] = "working"
    /\ stage[q] = "Risk"
    /\ Write(q)
    /\ \E f \in Findings :
          risk' = [risk EXCEPT ![q] = RiskLevel(f.deltas, f.score, f.conflict)]
    /\ Goto(q, IF risk'[q] = "L2" THEN "asking" ELSE "routing")
    /\ UNCHANGED <<row, gateway, stage, handler, plan, held>>

\* Nothing to adjust, a draft only, or work for people.
Route(q) ==
    /\ step[q] = "routing"
    /\ \/ risk[q] = "L0" /\ Move(q, "RESOLVED") /\ Goto(q, "archiving")
       \/ risk[q] = "L1" /\ Move(q, "READY_TO_EXECUTE") /\ Goto(q, "executing")
       \/ risk[q] = "L3" /\ Move(q, "CLOSED") /\ Goto(q, "archiving")
    /\ UNCHANGED <<rowButStatus, gateway, work>>

\* workflow.create_approval commits at the gateway before the row is looked at.
Ask(q) ==
    /\ step[q] = "asking"
    /\ gate' = [gate EXCEPT ![q] = "PENDING"]
    /\ Goto(q, "asked")
    /\ UNCHANGED <<row, simulated, posted, undone, fresh, work>>

Asked(q) ==
    /\ step[q] = "asked"
    /\ Move(q, "WAITING_FOR_APPROVAL")
    /\ stored' = q
    /\ storedStatus' = "PENDING"
    /\ \/ "wait" \in Modes /\ Goto(q, "exporting")
       \/ "auto" \in Modes /\ Goto(q, "simulating")
    /\ UNCHANGED <<report, verification, dataset, gateway, work>>

-----------------------------------------------------------------------------
(* Approval *)

\* The simulated approver decides at the gateway first, ...
Simulate(q) ==
    /\ step[q] = "simulating"
    /\ gate[q] = "PENDING"
    /\ gate' = [gate EXCEPT ![q] = "APPROVED"]
    /\ simulated' = TRUE
    /\ held' = [held EXCEPT ![q] = q]
    /\ Goto(q, "decided")
    /\ UNCHANGED <<row, posted, undone, fresh, stage, handler, plan, risk>>

\* ... and the case learns of it in a commit of its own.
Decided(q) ==
    /\ step[q] = "decided"
    /\ Move(q, "READY_TO_EXECUTE")
    /\ storedStatus' = "APPROVED"
    /\ Goto(q, "executing")
    /\ UNCHANGED <<report, stored, verification, dataset, gateway, work>>

\* _commit_approval_decision reads the row, then awaits the room message.
ReadForDecision(q) ==
    /\ step[q] = "new"
    /\ status = "WAITING_FOR_APPROVAL"
    /\ handler' = [handler EXCEPT ![q] = "decide"]
    /\ fresh' = [fresh EXCEPT ![q] = TRUE]
    /\ Goto(q, "deciding")
    /\ UNCHANGED <<row, gateway, stage, plan, held, risk>>

\* Mutant: the form is decided in a commit of its own.
DecideForm(q) ==
    /\ step[q] = "deciding"
    /\ gate[stored] = "PENDING"
    /\ MayWrite(q)
    /\ \E d \in {"APPROVED", "REJECTED"} : gate' = [gate EXCEPT ![stored] = d]
    /\ Goto(q, "done")
    /\ UNCHANGED <<row, simulated, posted, undone, fresh, work>>

\* decide_case_approval: form, case and audit in one transaction.
Decide(q) ==
    /\ step[q] = "deciding"
    /\ gate[stored] = "PENDING"
    /\ \E d \in {"APPROVED", "REJECTED"} :
          /\ Move(q, IF d = "APPROVED" THEN "READY_TO_EXECUTE" ELSE "REJECTED")
          /\ gate' = [gate EXCEPT ![stored] = d]
          /\ storedStatus' = d
          /\ Goto(q, IF d = "APPROVED" THEN "rebuilding" ELSE "archiving")
    /\ UNCHANGED <<report, stored, verification, dataset, simulated, posted,
                   undone, work>>

\* _rebuild_state: the plan of the row, and the approval the store names.
Rebuild(q) ==
    /\ step[q] = "rebuilding"
    /\ plan' = [plan EXCEPT ![q] = report]
    /\ held' = [held EXCEPT ![q] = IF storedStatus = "APPROVED" THEN stored ELSE NoOne]
    /\ risk' = [risk EXCEPT ![q] = risk[report]]
    /\ Goto(q, "executing")
    /\ UNCHANGED <<row, gateway, fresh, stage, handler>>

-----------------------------------------------------------------------------
(* execute_and_verify *)

Execute(q) ==
    /\ step[q] = "executing"
    /\ Move(q, "EXECUTING")
    /\ Goto(q, "adjusting")
    /\ UNCHANGED <<rowButStatus, gateway, work>>

\* A small amount only leaves drafts, and the case says that nothing was
\* verified.
LeaveDrafts(q) ==
    /\ step[q] = "adjusting"
    /\ risk[q] = "L1"
    /\ Move(q, "RESOLVED")
    /\ verification' = "NOT_APPLICABLE_DRAFT_ONLY"
    /\ Goto(q, "archiving")
    /\ UNCHANGED <<report, stored, storedStatus, dataset, gateway, work>>

Raised(q) == IF handler[q] = "run" THEN "failing" ELSE "done"

\* permission_check, then the gateway's check of the credential.
MayAdjust(q) ==
    /\ risk[q] = "L2"
    /\ held[q] # NoOne
    /\ gate[held[q]] = "APPROVED"

\* The answer of a posting may be lost.
Adjust(q) ==
    /\ step[q] = "adjusting"
    /\ MayAdjust(q)
    /\ posted' = posted \cup {plan[q]}
    /\ Goto(q, "verifying") \/ Goto(q, Raised(q))
    /\ UNCHANGED <<row, gate, simulated, undone, fresh, work>>

Verify(q) ==
    /\ step[q] = "verifying"
    /\ Move(q, "VERIFYING")
    /\ Goto(q, "checking")
    /\ UNCHANGED <<rowButStatus, gateway, work>>

\* The ledger read again may or may not agree: others post to the order too.
Check(q) ==
    /\ step[q] = "checking"
    /\ UNCHANGED <<report, stored, storedStatus, dataset, gateway, work>>
    /\ \/ /\ Move(q, "RESOLVED")
          /\ verification' = "PASSED"
          /\ Goto(q, "archiving")
       \/ /\ Move(q, "ROLLBACK_REQUIRED")
          /\ verification' = "FAILED"
          /\ Goto(q, "reversing")

Reverse(q) ==
    /\ step[q] = "reversing"
    /\ undone' = undone \cup {plan[q]}
    /\ Goto(q, "confirming") \/ Goto(q, Raised(q))
    /\ UNCHANGED <<row, gate, simulated, posted, fresh, work>>

\* post_rollback_verify decides; both statuses outlive the archive.
Confirm(q) ==
    /\ step[q] = "confirming"
    /\ Move(q, "ROLLED_BACK") \/ Move(q, "FAILED")
    /\ Goto(q, "archiving")
    /\ UNCHANGED <<rowButStatus, gateway, work>>

-----------------------------------------------------------------------------
(* _finalize *)

\* Mutant: the label looks at the status alone.
LabelOfStatus(v, s) ==
    IF s = "ROLLED_BACK" THEN "SAFE_ROLLBACK"
    ELSE IF s \in {"RESOLVED", "CLOSED"} THEN "GOLDEN" ELSE "BAD"

\* case_to_dataset
Label(v, s) ==
    IF s = "ROLLED_BACK" THEN "SAFE_ROLLBACK"
    ELSE IF v \in {"PASSED", "NOT_APPLICABLE_DRAFT_ONLY"} THEN "GOLDEN" ELSE "BAD"

\* The sample is written, then mail and ticket are called.
Archive(q) ==
    /\ step[q] = "archiving"
    /\ dataset' = Label(verification, status)
    /\ Goto(q, IF status \in {"ROLLED_BACK", "FAILED", "CLOSED"}
               THEN "exporting" ELSE "closing")
    /\ UNCHANGED <<status, report, stored, storedStatus, verification, gateway,
                   fresh, work>>

\* KNOWLEDGE_ARCHIVED, then CLOSED.
Close(q) ==
    /\ step[q] = "closing"
    /\ UNCHANGED <<rowButStatus, gateway, work>>
    /\ \/ /\ status \in {"RESOLVED", "REJECTED"}
          /\ Move(q, "KNOWLEDGE_ARCHIVED")
          /\ UNCHANGED step
       \/ /\ status = "KNOWLEDGE_ARCHIVED"
          /\ Move(q, "CLOSED")
          /\ Goto(q, "exporting")

\* Trace and report are written, and the row once more.
Export(q) ==
    /\ step[q] \in {"exporting", "excusing"}
    /\ Write(q)
    /\ Goto(q, "done")
    /\ UNCHANGED <<row, gateway, work>>

-----------------------------------------------------------------------------
(* Failure *)

InFlight == {"supplying", "entering", "working", "routing", "asking", "asked", "simulating",
             "decided", "deciding", "rebuilding", "executing", "adjusting", "verifying",
             "checking", "reversing", "confirming", "archiving", "closing", "exporting"}

\* A call raises, or a write finds the row changed.  Only run_case catches.
Raise(q) ==
    /\ step[q] \in InFlight
    /\ Goto(q, Raised(q))
    /\ UNCHANGED <<row, gateway, fresh, work>>

\* The failure is itself a transition: it raises again when the row has
\* changed or the case has ended.
Fail(q) ==
    /\ step[q] = "failing"
    /\ status \notin {"ROLLED_BACK", "CLOSED", "FAILED"}
    /\ Move(q, "FAILED")
    /\ Goto(q, "excusing")
    /\ UNCHANGED <<rowButStatus, gateway, work>>

\* The request dies, or raises where nothing catches.
Die(q) ==
    /\ step[q] \in InFlight \cup {"failing", "excusing"}
    /\ Goto(q, "done")
    /\ UNCHANGED <<row, gateway, fresh, work>>

Next ==
    \/ OtherWrite
    \/ \E q \in Requests :
          \/ Receive(q) \/ Supply(q) \/ EnterStage(q) \/ FinishStage(q) \/ Escalate(q)
          \/ SaveRisk(q) \/ Route(q) \/ Ask(q) \/ Asked(q)
          \/ Simulate(q) \/ Decided(q) \/ ReadForDecision(q) \/ Decide(q) \/ Rebuild(q)
          \/ Execute(q) \/ LeaveDrafts(q) \/ Adjust(q) \/ Verify(q) \/ Check(q)
          \/ Reverse(q) \/ Confirm(q) \/ Archive(q) \/ Close(q) \/ Export(q)
          \/ Raise(q) \/ Fail(q) \/ Die(q)

Spec == Init /\ [][Next]_vars

-----------------------------------------------------------------------------
(* Properties *)

Verdict ==
    CASE status = "ROLLED_BACK" -> "undone"
      [] status = "FAILED" -> "unclear"
      [] status = "REJECTED" -> "untouched"
      [] status \in {"RESOLVED", "KNOWLEDGE_ARCHIVED", "CLOSED"} ->
            IF verification = "PASSED" THEN "settled" ELSE "untouched"
      [] OTHER -> "none"

Promise == INSTANCE CaseVerdict
           WITH Plans <- Requests,
                granted <- {q \in Requests : gate[q] = "APPROVED"},
                verdict <- Verdict

\* Whatever requests run at once, fail or die: one plan posts at most, only a
\* granted one and only before the case has a conclusion, and the conclusion
\* a case shows is what its own posting and reversal have left in the ledger.
ImplementsCaseVerdict == Promise!Spec

\* What is filed for evaluation is what happened: a golden sample never comes
\* from a case whose posting was reversed, a safe rollback always does.
SamplesAreTrue ==
    /\ dataset = "GOLDEN" => undone = {} /\ (posted = {} => risk[report] = "L1")
    /\ dataset = "SAFE_ROLLBACK" => undone = posted /\ posted # {}

\* A person can decide whatever waits for a decision: a case that waits names
\* the form of its own plan, undecided at the gateway.  (The simulated approver
\* decides in a commit of its own and may die before the case learns of it.)
WaitingCanBeDecided ==
    status = "WAITING_FOR_APPROVAL" =>
        /\ stored = report
        /\ storedStatus = "PENDING"
        /\ gate[stored] = "PENDING" \/ simulated
-----------------------------------------------------------------------------
(* The inductive invariant of the proofs *)

Reading == {"CREATED", "WAITING_FOR_EVIDENCE", "NORMALIZING", "EVIDENCE_COLLECTING",
            "POLICY_MATCHING", "CALCULATING", "ROOT_CAUSE_ANALYZING", "RISK_REVIEW"}
Undecided == Reading \cup {"WAITING_FOR_APPROVAL", "READY_TO_EXECUTE"}
Settling  == {"EXECUTING", "VERIFYING", "ROLLBACK_REQUIRED"}
Concluded == {"REJECTED", "RESOLVED", "KNOWLEDGE_ARCHIVED", "CLOSED",
              "ROLLED_BACK", "FAILED"}

TypeOK ==
    /\ status \in Undecided \cup Settling \cup Concluded
    /\ report \in Requests \cup {NoOne}
    /\ stored \in Requests \cup {NoOne}
    /\ storedStatus \in {"NONE", "PENDING", "APPROVED", "REJECTED"}
    /\ verification \in {"NONE", "PASSED", "FAILED", "NOT_APPLICABLE_DRAFT_ONLY"}
    /\ dataset \in {"NONE", "GOLDEN", "BAD", "SAFE_ROLLBACK"}
    /\ gate \in [Requests -> {"NONE", "PENDING", "APPROVED", "REJECTED"}]
    /\ simulated \in BOOLEAN
    /\ posted \subseteq Requests
    /\ undone \subseteq Requests
    /\ step \in [Requests -> InFlight \cup {"new", "failing", "excusing", "done"}]
    /\ stage \in [Requests -> Stages]
    /\ handler \in [Requests -> {"none", "run", "decide"}]
    /\ fresh \in [Requests -> BOOLEAN]
    /\ plan \in [Requests -> Requests]
    /\ held \in [Requests -> Requests \cup {NoOne}]
    /\ risk \in [Requests -> {"NONE", "L0", "L1", "L2", "L3"}]

\* Where several requests may enter, several have the row as it is; nowhere else.
OneIsFresh ==
    status \notin {"CREATED", "WAITING_FOR_EVIDENCE", "WAITING_FOR_APPROVAL"} =>
        \A p, q \in Requests : fresh[p] /\ fresh[q] => p = q

\* Where a request that has the row as it is finds the case, ...
PlaceIsSound ==
    \A q \in Requests : fresh[q] =>
        /\ step[q] = "supplying" => status = "WAITING_FOR_EVIDENCE"
        /\ step[q] = "entering" => status \in Reading
        /\ step[q] = "working" => status = StatusOf[stage[q]]
        /\ step[q] \in {"routing", "asking", "asked"} => status = "RISK_REVIEW"
        /\ step[q] \in {"simulating", "decided", "deciding"} =>
              status = "WAITING_FOR_APPROVAL"

\* ... and that the report is its own.
ReportIsSound ==
    \A q \in Requests : fresh[q] =>
        /\ step[q] \in {"entering", "working"} /\ stage[q] = "Risk" => report = q
        /\ step[q] \in {"routing", "asking", "asked", "simulating", "decided"} => report = q

\* From its decision to its sample a case has one request that works for it.
OwnersAreFresh ==
    \A q \in Requests :
        /\ step[q] \in {"rebuilding", "executing"} => fresh[q] /\ status = "READY_TO_EXECUTE"
        /\ step[q] \in {"adjusting", "verifying"} => fresh[q] /\ status = "EXECUTING"
        /\ step[q] = "checking" => fresh[q] /\ status = "VERIFYING"
        /\ step[q] \in {"reversing", "confirming"} => fresh[q] /\ status = "ROLLBACK_REQUIRED"
        /\ step[q] = "archiving" =>
              /\ fresh[q]
              /\ status \in Concluded
              /\ status = "FAILED" => verification = "FAILED"

\* What a request carries out is what the report says and its form allows.
PlanIsSound ==
    \A q \in Requests :
        /\ step[q] \in {"new", "supplying", "entering", "working", "routing",
                        "asking", "asked", "simulating"} => held[q] = NoOne /\ plan[q] = q
        /\ step[q] \in {"new", "supplying"} => stage[q] = "Intake"
        /\ step[q] = "decided" => held[q] = q /\ plan[q] = q
        /\ step[q] \in {"deciding", "rebuilding"} => handler[q] = "decide"
        /\ step[q] = "rebuilding" => stored = report /\ report \in Requests
        /\ step[q] \in {"executing", "adjusting", "verifying", "checking",
                        "reversing", "confirming"} =>
              /\ plan[q] = report
              /\ held[q] \in {NoOne, report}
              /\ risk[q] = risk[report]

\* A form is asked for once, and the store names it afterwards.
FormsAreNew ==
    \A q \in Requests :
        /\ step[q] \in {"new", "supplying", "entering", "working", "asking"} =>
              gate[q] = "NONE" /\ stored # q
        /\ step[q] = "asked" => gate[q] = "PENDING" /\ stored # q

\* While a case waits, its run or people who decide can write its row; and the
\* simulated approver finds an open form only then.
WaitingIsSound ==
    /\ status = "WAITING_FOR_APPROVAL" =>
          /\ stored \in Requests
          /\ \A p \in Requests : fresh[p] => p = report \/ step[p] \in {"deciding", "done"}
    /\ \A q \in Requests : step[q] = "simulating" /\ gate[q] = "PENDING" =>
          status = "WAITING_FOR_APPROVAL" /\ stored = q

\* What the ledger holds, by the status of the case, ...
LedgerIsSound ==
    /\ status \in Undecided \cup {"REJECTED"} =>
          posted = {} /\ undone = {} /\ verification = "NONE"
    /\ status = "EXECUTING" => undone = {} /\ verification = "NONE"
    /\ status = "VERIFYING" => posted = {report} /\ undone = {} /\ verification = "NONE"
    /\ status = "ROLLBACK_REQUIRED" => posted = {report} /\ verification = "FAILED"
    /\ status = "ROLLED_BACK" => posted = {report} /\ undone = {report}
    /\ status \in {"RESOLVED", "KNOWLEDGE_ARCHIVED", "CLOSED"} =>
          /\ undone = {}
          /\ verification # "FAILED"
          /\ posted = IF verification = "PASSED" THEN {report} ELSE {}
          /\ verification = "NOT_APPLICABLE_DRAFT_ONLY" => risk[report] = "L1"
    /\ dataset # "NONE" => status \in Concluded

\* ... and by the step of the request that works for it.
WorkIsSound ==
    \A q \in Requests :
        /\ step[q] = "adjusting" => posted = {}
        /\ step[q] = "verifying" => posted = {report}
        /\ step[q] = "reversing" => undone = {}
        /\ step[q] = "confirming" => undone = {report}

Inductive ==
    /\ TypeOK
    /\ OneIsFresh /\ PlaceIsSound /\ ReportIsSound /\ OwnersAreFresh
    /\ PlanIsSound /\ FormsAreNew /\ WaitingIsSound
    /\ LedgerIsSound /\ WorkIsSound
    /\ SamplesAreTrue /\ WaitingCanBeDecided
=============================================================================
