----------------------------- MODULE StageTasks -----------------------------
(***************************************************************************)
(* The stage tasks of one case and one Skill: rows written by coordinators *)
(* over Matrix, by operators and by reassignment; executions of them over  *)
(* REST or MCP, several at once because messages and nudges repeat; the    *)
(* attempts an execution claims, the tool calls it makes and the result it *)
(* records; and the case, which may move on or be paused under all of it.  *)
(*                                                                         *)
(* The case is only its domain version: the status goes with it, and the   *)
(* versions that allow the Skill are a constant.  Tasks are identities: a  *)
(* row once written keeps its own.                                         *)
(***************************************************************************)
EXTENDS Naturals, TaskBounds

VARIABLES
  version,
  status, attempt, bound, supersedes,   \* the rows of agent_tasks
  results,                              \* the rows of agent_task_results
  effects,                              \* history: tool calls that committed
  origin,                               \* who is about to write the row
  step, job, claim                      \* of each execution

rows       == <<status, attempt, bound, supersedes>>
executions == <<step, job, claim>>
vars       == <<version, rows, results, effects, origin, executions>>

Outcomes    == {"SUCCEEDED", "FAILED_RETRYABLE", "FAILED_FINAL", "RESULT_UNKNOWN"}
OpenTask    == {"PENDING", "RUNNING", "FAILED_RETRYABLE"}
Claimable   == {"PENDING", "FAILED_RETRYABLE"}
Replaceable == {"FAILED_RETRYABLE", "FAILED_FINAL", "CANCELLED"}
Ended       == {"SUCCEEDED", "FAILED_FINAL", "CANCELLED", "RESULT_UNKNOWN"}
TaskStatus  == OpenTask \cup Ended \cup {"ABSENT"}
Versions    == 0..MaxVersion
Attempts    == 0..MaxAttempts

TypeOK ==
  /\ version \in Versions
  /\ status \in [Tasks -> TaskStatus]
  /\ attempt \in [Tasks -> Attempts]
  /\ bound \in [Tasks -> Versions]
  /\ supersedes \in [Tasks -> Tasks \cup {NoTask}]
  /\ results \subseteq [task : Tasks, attempt : Attempts, status : Outcomes]
  /\ effects \subseteq [task : Tasks, attempt : Attempts, version : Versions]
  /\ origin \in [Tasks -> {"NOBODY", "DISPATCH", "REASSIGNMENT"}]
  /\ step \in [Executions -> {"idle", "validated", "running"}]
  /\ job \in [Executions -> Tasks \cup {NoTask}]
  /\ claim \in [Executions -> Attempts]

Init ==
  /\ version = 0
  /\ status = [t \in Tasks |-> "ABSENT"]
  /\ attempt = [t \in Tasks |-> 0]
  /\ bound = [t \in Tasks |-> 0]
  /\ supersedes = [t \in Tasks |-> NoTask]
  /\ results = {}
  /\ effects = {}
  /\ origin = [t \in Tasks |-> "NOBODY"]
  /\ step = [e \in Executions |-> "idle"]
  /\ job = [e \in Executions |-> NoTask]
  /\ claim = [e \in Executions |-> 0]

-----------------------------------------------------------------------------
(* Writing a row *)

\* create_agent_task: a new identity, bound to the case as its creator knows
\* it.  The row is written later, and nothing looks at the case again.
Create(t, who, v) ==
  /\ status[t] = "ABSENT" /\ origin[t] = "NOBODY"
  /\ v \in Fitting
  /\ origin' = [origin EXCEPT ![t] = who]
  /\ bound' = [bound EXCEPT ![t] = v]

\* A coordinator, whose snapshot of the case may be an old one, or an operator,
\* for whom dispatch_agent_task reads the case.
DispatchTask(t) ==
  /\ \E v \in 0..version : Create(t, "DISPATCH", v)
  /\ UNCHANGED <<version, status, attempt, supersedes, results, effects, executions>>

\* reassign_agent_task reads the old task and the case.
Reassign(t, old) ==
  /\ status[old] # "ABSENT"
  /\ Create(t, "REASSIGNMENT", version)
  /\ supersedes' = [supersedes EXCEPT ![t] = old]
  /\ UNCHANGED <<version, status, attempt, results, effects, executions>>

\* save_agent_task; a coordinator then waits for what becomes of the task, and
\* when it gives up, at the deadline of the stage, leaves it as it is.
SaveTask(t) ==
  /\ origin[t] = "DISPATCH"
  /\ status' = [status EXCEPT ![t] = "PENDING"]
  /\ origin' = [origin EXCEPT ![t] = "NOBODY"]
  /\ UNCHANGED <<version, attempt, bound, supersedes, results, effects, executions>>

MayReplace(old) == status[old] \in Replaceable

\* replace_agent_task: both rows in one transaction.
Replace(t) ==
  /\ origin[t] = "REASSIGNMENT"
  /\ origin' = [origin EXCEPT ![t] = "NOBODY"]
  /\ \/ /\ MayReplace(supersedes[t])
        /\ status' = [status EXCEPT ![supersedes[t]] = "CANCELLED", ![t] = "PENDING"]
        /\ UNCHANGED <<bound, supersedes>>
     \/ /\ ~MayReplace(supersedes[t])
        /\ supersedes' = [supersedes EXCEPT ![t] = NoTask]
        /\ UNCHANGED <<status, bound>>
  /\ UNCHANGED <<version, attempt, results, effects, executions>>

-----------------------------------------------------------------------------
(* Executing it *)

\* validate_task_invocation
Valid(t) == status[t] \in Claimable /\ bound[t] = version

Idle(e) ==
  /\ step' = [step EXCEPT ![e] = "idle"]
  /\ job' = [job EXCEPT ![e] = NoTask]
  /\ claim' = [claim EXCEPT ![e] = 0]

\* The first look, outside any transaction.
Validate(e, t) ==
  /\ step[e] = "idle"
  /\ Valid(t)
  /\ step' = [step EXCEPT ![e] = "validated"]
  /\ job' = [job EXCEPT ![e] = t]
  /\ UNCHANGED <<version, rows, results, effects, origin, claim>>

\* claim_agent_task: the same look again, under the locks of both rows.
Claim(e) ==
  LET t == job[e] IN
  /\ step[e] = "validated"
  /\ Valid(t)
  /\ attempt[t] < MaxAttempts
  /\ status' = [status EXCEPT ![t] = "RUNNING"]
  /\ attempt' = [attempt EXCEPT ![t] = @ + 1]
  /\ step' = [step EXCEPT ![e] = "running"]
  /\ claim' = [claim EXCEPT ![e] = attempt[t] + 1]
  /\ UNCHANGED <<version, bound, supersedes, results, effects, origin, job>>

ClaimRefused(e) ==
  /\ step[e] = "validated"
  /\ ~Valid(job[e])
  /\ Idle(e)
  /\ UNCHANGED <<version, rows, results, effects, origin>>

Holds(e) == status[job[e]] = "RUNNING" /\ attempt[job[e]] = claim[e]

\* Mutant: an effect looks at the task only.
ClaimIsActiveWithoutCase(e) == Holds(e)

\* assert_active_claim
ClaimIsActive(e) == Holds(e) /\ bound[job[e]] = version

\* A tool call of the Skill, in the transaction that owns its effect.
CallTool(e) ==
  /\ step[e] = "running"
  /\ ClaimIsActive(e)
  /\ effects' = effects \cup {[task |-> job[e], attempt |-> claim[e], version |-> version]}
  /\ UNCHANGED <<version, rows, results, origin, executions>>

\* complete_agent_task: the row and its result in one transaction.  A call
\* that was refused as stale ends here too, as a final failure; a success
\* does not look at the case again.
Complete(e, outcome) ==
  /\ step[e] = "running"
  /\ Holds(e)
  /\ status' = [status EXCEPT ![job[e]] = outcome]
  /\ results' = results \cup
       {[task |-> job[e], attempt |-> attempt[job[e]], status |-> outcome]}
  /\ Idle(e)
  /\ UNCHANGED <<version, attempt, bound, supersedes, effects, origin>>

\* The receipt of an execution whose task was taken from it is refused.
CompleteRefused(e) ==
  /\ step[e] = "running"
  /\ ~Holds(e)
  /\ Idle(e)
  /\ UNCHANGED <<version, rows, results, effects, origin>>

\* The process of the execution ends.  A task it had claimed stays RUNNING.
Die(e) ==
  /\ step[e] # "idle"
  /\ Idle(e)
  /\ UNCHANGED <<version, rows, results, effects, origin>>

-----------------------------------------------------------------------------
(* The case *)

DomainWrite ==
  /\ version < MaxVersion
  /\ version' = version + 1
  /\ UNCHANGED <<rows, results, effects, origin, executions>>

OpenTasks == {t \in Tasks : status[t] \in OpenTask}

\* cancel_open_agent_tasks, alone (the escalation to a human) or in the
\* transaction of the domain write (a rejection, a recovery, a preparation).
CancelOpenTasks ==
  /\ status' = [t \in Tasks |-> IF t \in OpenTasks THEN "CANCELLED" ELSE status[t]]
  /\ \/ UNCHANGED version
     \/ version < MaxVersion /\ version' = version + 1
  /\ UNCHANGED <<attempt, bound, supersedes, results, effects, origin, executions>>

-----------------------------------------------------------------------------
Next ==
  \/ \E t \in Tasks :
        \/ DispatchTask(t) \/ SaveTask(t) \/ Replace(t)
        \/ \E old \in Tasks \ {t} : Reassign(t, old)
  \/ \E e \in Executions :
        \/ \E t \in Tasks : Validate(e, t)
        \/ Claim(e) \/ ClaimRefused(e) \/ CallTool(e)
        \/ \E o \in Outcomes : Complete(e, o)
        \/ CompleteRefused(e) \/ Die(e)
  \/ DomainWrite
  \/ CancelOpenTasks

Spec == Init /\ [][Next]_vars

-----------------------------------------------------------------------------
(***************************************************************************)
(* The two tables agree: an attempt has one result at most; every attempt  *)
(* but the latest failed in a way that may be retried; a task that ended   *)
(* by itself has the result it shows, one that runs has none yet, and the  *)
(* cancellation of a task buries no success and no unknown outcome         *)
(* (store.py:402, docs/api.md:236).                                        *)
(***************************************************************************)
ResultsMatchTasks ==
  /\ \A x, y \in results : x.task = y.task /\ x.attempt = y.attempt => x = y
  /\ \A x \in results :
       /\ x.attempt \in 1..attempt[x.task]
       /\ x.attempt < attempt[x.task] => x.status = "FAILED_RETRYABLE"
       /\ x.attempt = attempt[x.task] =>
            \/ x.status = status[x.task]
            \/ status[x.task] = "CANCELLED" /\ x.status \in {"FAILED_RETRYABLE", "FAILED_FINAL"}
  /\ \A t \in Tasks :
       /\ status[t] \in Outcomes =>
            [task |-> t, attempt |-> attempt[t], status |-> status[t]] \in results
       /\ \A n \in 1..(attempt[t] - 1) :
            [task |-> t, attempt |-> n, status |-> "FAILED_RETRYABLE"] \in results

-----------------------------------------------------------------------------
(* The parts of the inductive invariant *)

\* Two executions never work on the same attempt; one of them holds the latest
\* attempt, which runs or was withdrawn from it.
AttemptsHaveOneExecution ==
  \A e \in Executions :
    /\ step[e] # "idle" => job[e] \in Tasks /\ status[job[e]] # "ABSENT"
    /\ step[e] = "running" =>
         /\ claim[e] = attempt[job[e]]
         /\ status[job[e]] \in {"RUNNING", "CANCELLED"}
         /\ \A f \in Executions \ {e} : step[f] = "running" => job[f] # job[e]

NewRowsAreBlank ==
  \A t \in Tasks :
    /\ origin[t] # "NOBODY" => status[t] = "ABSENT" /\ bound[t] \in 0..version
    /\ origin[t] = "REASSIGNMENT" =>
         supersedes[t] \in Tasks \ {t} /\ status[supersedes[t]] # "ABSENT"
    /\ status[t] \in {"ABSENT", "PENDING"} => attempt[t] = 0
    /\ status[t] = "RUNNING" => attempt[t] # 0

EffectsFitTheTask ==
  \A x \in effects :
    /\ x.version = bound[x.task]
    /\ x.attempt \in 1..attempt[x.task]

(***************************************************************************)
(* The inductive invariant.  With the results it says that two executions  *)
(* never share an attempt (workflow_persistence.py:97) and that a tool     *)
(* call took effect on the version of the case its task was created for    *)
(* (task_guard.py:25).                                                     *)
(***************************************************************************)
Inductive ==
  /\ TypeOK
  /\ ResultsMatchTasks
  /\ AttemptsHaveOneExecution
  /\ NewRowsAreBlank
  /\ EffectsFitTheTask
=============================================================================
