------------------------------ MODULE TaskBook ------------------------------
(***************************************************************************)
(* What the table of stage tasks promises, whoever executes them: a task   *)
(* belongs to one version of its case; its attempts follow one another;    *)
(* an attempt has effects only while it runs and the case is still at that *)
(* version; and it ends with one result, or with the cancellation of the   *)
(* task.  A task that has ended otherwise than by a retryable failure does *)
(* not run again.                                                          *)
(***************************************************************************)
EXTENDS Naturals

CONSTANTS Tasks, Outcomes, MaxVersion

VARIABLES
  version,   \* of the case
  status,    \* of each task
  attempt,   \* its latest attempt
  bound,     \* the version it belongs to
  results,   \* what attempts ended with
  effects    \* what they did, and at which version

vars == <<version, status, attempt, bound, results, effects>>

Startable == {"PENDING", "FAILED_RETRYABLE"}
Live      == Startable \cup {"RUNNING"}

Init ==
  /\ version = 0
  /\ status = [t \in Tasks |-> "ABSENT"]
  /\ attempt = [t \in Tasks |-> 0]
  /\ bound = [t \in Tasks |-> 0]
  /\ results = {}
  /\ effects = {}

\* A task is written down; the one it replaces, if any, is not running.
Open(t, v, S) ==
  /\ status[t] = "ABSENT"
  /\ v \in 0..version
  /\ \A s \in S : status[s] \in {"FAILED_RETRYABLE", "FAILED_FINAL", "CANCELLED"}
  /\ status' = [s \in Tasks |-> IF s = t THEN "PENDING"
                                ELSE IF s \in S THEN "CANCELLED" ELSE status[s]]
  /\ bound' = [bound EXCEPT ![t] = v]
  /\ UNCHANGED <<version, attempt, results, effects>>

Start(t) ==
  /\ status[t] \in Startable
  /\ bound[t] = version
  /\ status' = [status EXCEPT ![t] = "RUNNING"]
  /\ attempt' = [attempt EXCEPT ![t] = attempt[t] + 1]
  /\ UNCHANGED <<version, bound, results, effects>>

Act(t) ==
  /\ status[t] = "RUNNING"
  /\ bound[t] = version
  /\ effects' = effects \cup {[task |-> t, attempt |-> attempt[t], version |-> version]}
  /\ UNCHANGED <<version, status, attempt, bound, results>>

End(t, o) ==
  /\ status[t] = "RUNNING"
  /\ status' = [status EXCEPT ![t] = o]
  /\ results' = results \cup {[task |-> t, attempt |-> attempt[t], status |-> o]}
  /\ UNCHANGED <<version, attempt, bound, effects>>

\* The case moves on, its tasks are withdrawn, or both at once.
Move(v, S) ==
  /\ v \in version..(version + 1)
  /\ \A s \in S : status[s] \in Live
  /\ version' = v
  /\ status' = [s \in Tasks |-> IF s \in S THEN "CANCELLED" ELSE status[s]]
  /\ UNCHANGED <<attempt, bound, results, effects>>

Next ==
  \/ \E t \in Tasks :
        \/ \E v \in 0..version, S \in SUBSET (Tasks \ {t}) : Open(t, v, S)
        \/ Start(t)
        \/ Act(t)
        \/ \E o \in Outcomes : End(t, o)
  \/ \E v \in 0..MaxVersion, S \in SUBSET Tasks : Move(v, S)

Spec == Init /\ [][Next]_vars
=============================================================================
