------------------------------ MODULE TaskBounds ------------------------------
(***************************************************************************)
(* The constants of StageTasks and what is assumed of them, in a module of *)
(* their own so that a composition which has StageTasks as an instance can *)
(* extend it.                                                              *)
(***************************************************************************)
EXTENDS Naturals

CONSTANTS
  Tasks, Executions,
  Fitting,       \* the versions whose status allows the Skill
  MaxVersion,    \* bound on the versions
  MaxAttempts,   \* bound on the attempts at a task
  NoTask

ASSUME NoTaskIsNoTask == NoTask \notin Tasks
ASSUME BoundsAreNumbers == MaxVersion \in Nat /\ MaxAttempts \in Nat
=============================================================================
