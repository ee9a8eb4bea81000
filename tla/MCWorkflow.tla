----------------------------- MODULE MCWorkflow -----------------------------
(***************************************************************************)
(* The two ways in which the stages of a case are run, and the rules that  *)
(* they call.  A behaviour is of one topic, and the others rest:           *)
(*   case    three requests to the in-process orchestrator, in both        *)
(*           approval modes, with one finding for each level of risk;      *)
(*   tasks   two stage tasks of one Skill and two executions;              *)
(*   time, order, risk   small inputs of the rules.                        *)
(***************************************************************************)
EXTENDS Orchestrator, MCCommissionRules, TaskBounds

BothModes == {"wait", "auto"}
OneOfEach ==
    {[deltas |-> <<0, 0>>, score |-> 90, conflict |-> FALSE],
     [deltas |-> <<1, 1>>, score |-> 90, conflict |-> FALSE],
     [deltas |-> <<2, -2>>, score |-> 90, conflict |-> FALSE],
     [deltas |-> <<1, 0>>, score |-> 90, conflict |-> TRUE]}

VARIABLES version, taskStatus, attempt, bound, supersedes, results, effects,
          origin, taskStep, job, claim

taskVars == <<version, taskStatus, attempt, bound, supersedes, results, effects,
              origin, taskStep, job, claim>>

T == INSTANCE StageTasks WITH status <- taskStatus, step <- taskStep

\* The status allows the Skill, then does not, then does again.
EvenVersions == {v \in 0..MaxVersion : v % 2 = 0}
Symmetric == Permutations(Tasks) \cup Permutations(Executions)

NoInput ==
    /\ news = Nothing /\ list = <<>>
    /\ order = AnOrder /\ finding = AGrade

InitOfAll ==
    /\ Init /\ T!Init
    /\ (topic \in {"case", "tasks"} /\ NoInput) \/ InputInit

NextOfOne ==
    \/ topic = "case" /\ Next /\ UNCHANGED <<inputs, taskVars>>
    \/ topic = "tasks" /\ T!Next /\ UNCHANGED <<inputs, vars>>
    \/ InputNext /\ UNCHANGED <<vars, taskVars>>

SpecOfAll == InitOfAll /\ [][NextOfOne]_<<inputs, vars, taskVars>>

-----------------------------------------------------------------------------
\* A row that is not written yet has no version in the book.
Book == INSTANCE TaskBook WITH
    status <- taskStatus,
    Outcomes <- T!Outcomes,
    bound <- [t \in Tasks |-> IF taskStatus[t] = "ABSENT" THEN 0 ELSE bound[t]]

\* Whatever is created late, delivered twice, cancelled or replaced, the tables
\* of stage tasks tell the story of one execution at a time, which had effects
\* on the version of the case it was given and no other, and stopped having
\* them once the task was withdrawn (StageTasks; task_guard.py:25, store.py:402,
\* workflow_persistence.py:97).
ImplementsTaskBook == Book!Spec
=============================================================================
