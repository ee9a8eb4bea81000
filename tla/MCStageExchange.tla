--------------------------- MODULE MCStageExchange ---------------------------
(***************************************************************************)
(* Two conversations that are held in Matrix rooms.  A behaviour is of one *)
(* topic, and the other rests:                                             *)
(*   stage    two runs that share a Worker and its room;                   *)
(*   person   two people, and two requests at a time, sign in for the      *)
(*            approval forms of one case, decide them and resume it.       *)
(***************************************************************************)
EXTENDS StageExchange, TLC

CONSTANTS Requests, Persons, MaxForms, MaxLogins, MaxDeployments,
          MaxTurns   \* bound: turns that one behaviour takes

ASSUME NobodyIsNoPerson == Nobody \notin Persons
ASSUME PersonBounds == {MaxForms, MaxLogins, MaxDeployments, MaxTurns} \subseteq Nat

VARIABLES status, form, forms, approvers, deployments, valid, step, held, fresh,
          logins, room, acts, topic

personVars == <<status, form, forms, approvers, deployments, valid, step, held,
                fresh, logins, room, acts>>

H == INSTANCE HumanProof

InitOfBoth == Init /\ H!HumanInit /\ topic \in {"stage", "person"}

\* What keeps a stage from running straight through: commands sent again,
\* second calls for a task, a death or an ignored message.
StageTurns ==
    events + Cardinality({r \in Runs : nudges[r] < MaxNudges})
           + Cardinality({r \in Runs : \E c \in Calls \ {1} : call[r][c] # "none"})

\* What outdates a proof: another form, assertion or allow-list.
PersonTurns == forms + Cardinality(logins) + deployments

NextOfOne ==
    /\ \/ topic = "stage" /\ Next /\ UNCHANGED <<topic, personVars>>
       \/ topic = "person" /\ H!HumanNext /\ UNCHANGED <<topic, vars>>
    /\ StageTurns' <= MaxTurns /\ PersonTurns' <= MaxTurns

SpecOfBoth == InitOfBoth /\ [][NextOfOne]_<<topic, vars, personVars>>

Symmetric ==
    Permutations(Runs) \cup Permutations(Requests) \cup Permutations(Persons)

-----------------------------------------------------------------------------
\* What was done in a person's name, the person signed in for and announced in
\* the room, and no form is decided twice (HumanProof).
ActsAreProven == H!ActsAreProven
=============================================================================
