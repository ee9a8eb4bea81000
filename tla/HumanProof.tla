----------------------------- MODULE HumanProof -----------------------------
(***************************************************************************)
(* The proof of a person (src/revguard/hitl.py) and the three protected    *)
(* steps of a case that ask for it (api.py): approve, reject, resume.  A   *)
(* person signs in with the Matrix account while other requests go on, is  *)
(* given a signed assertion for one approval form and one action, and      *)
(* presents it in a later request.  That request publishes the intent in   *)
(* the team room, waits for it, and only then commits the decision; a      *)
(* reply in the room is verified and committed at once.  Nothing on the    *)
(* server remembers an assertion: what stops a second use is the case.     *)
(*                                                                         *)
(* One case.  Under the runtime barrier a re-preparation never runs beside *)
(* a request, but assertions and room replies outlive it.                  *)
(***************************************************************************)
EXTENDS Naturals, FiniteSets

CONSTANTS
    Requests,       \* HTTP requests that may be under way at once
    Persons,        \* Matrix accounts
    Nobody,         \* no account: what an idle request goes by
    MaxForms,       \* bound: approval forms the case goes through
    MaxLogins,      \* bound: different assertions that are issued
    MaxDeployments  \* bound: restarts of the API with another allow-list

VARIABLES
    status,      \* of the case, as far as these requests tell it apart
    form,        \* its approval form: 0 before there is one
    forms,       \* forms asked for so far
    approvers,   \* REVGUARD_HITL_MATRIX_USERS_JSON of this process
    deployments,
    valid,       \* assertions that still verify
    step, held,  \* of each request: where it is, and the proof it goes by
    fresh,       \* the case row is still the one the request read
    \* history
    logins,      \* what people signed in for
    room,        \* intents published in the team room
    acts         \* what was committed in someone's name

case   == <<status, form, forms>>
server == <<approvers, deployments, valid>>
calls  == <<step, held, fresh>>
past   == <<logins, room, acts>>
humanVars == <<case, server, calls, past>>

Decisions == {"APPROVED", "REJECTED"}
Actions   == Decisions \cup {"RESUME"}
Forms     == 0..MaxForms

\* What an assertion says: who, for which form, to do what.
Proofs    == [person : Persons, form : Forms, action : Actions]
NoProof   == [person |-> Nobody, form |-> 0, action |-> "NONE"]
Acts      == [proof : Proofs, by : {"WEB", "ROOM"}, allowed : BOOLEAN]

HumanTypeOK ==
    /\ status \in {"NEW", "WAITING", "READY", "REJECTED", "RECOVERY"}
    /\ form \in Forms /\ forms \in Forms
    /\ approvers \subseteq Persons /\ deployments \in 0..MaxDeployments
    /\ valid \subseteq logins /\ logins \subseteq Proofs
    /\ step \in [Requests -> {"idle", "signing in", "publishing", "committing"}]
    /\ held \in [Requests -> Proofs \cup {NoProof}]
    /\ fresh \in [Requests -> BOOLEAN]
    /\ room \subseteq Proofs
    /\ acts \subseteq Acts

HumanInit ==
    /\ status = "NEW" /\ form = 0 /\ forms = 0
    /\ approvers = Persons /\ deployments = 0 /\ valid = {}
    /\ step = [r \in Requests |-> "idle"]
    /\ held = [r \in Requests |-> NoProof]
    /\ fresh = [r \in Requests |-> FALSE]
    /\ logins = {} /\ room = {} /\ acts = {}

Go(r, s) == step' = [step EXCEPT ![r] = s]

\* The request is answered, and what it knew is gone.
Answer(r) ==
    /\ Go(r, "idle")
    /\ held' = [held EXCEPT ![r] = NoProof]

\* Every write of the case row makes the snapshots of others stale.
Rewritten == fresh' = [r \in Requests |-> FALSE]

-----------------------------------------------------------------------------
(* Signing in *)

\* The case waits for this decision, or has a form and asks to be resumed.
MayAskFor(a) ==
    /\ form # 0
    /\ a \in Decisions => status = "WAITING"

\* The form is read before the homeserver is asked, which takes its time.
SignIn(r, p, a) ==
    /\ step[r] = "idle" /\ MayAskFor(a)
    /\ Go(r, "signing in")
    /\ held' = [held EXCEPT ![r] = [person |-> p, form |-> form, action |-> a]]
    /\ UNCHANGED <<case, server, fresh, past>>

\* The homeserver knows the password, and the account is on the allow-list.
Authenticated(r) == held[r].person \in approvers

\* The assertion names the form that was read, whatever is current by now.
Issue(r) ==
    /\ step[r] = "signing in" /\ Authenticated(r)
    /\ Cardinality(logins \cup {held[r]}) <= MaxLogins
    /\ logins' = logins \cup {held[r]}
    /\ valid' = valid \cup {held[r]}
    /\ Answer(r)
    /\ UNCHANGED <<case, approvers, deployments, fresh, room, acts>>

\* The password is wrong, the account is not listed, or Matrix is away.
RefuseSignIn(r) ==
    /\ step[r] = "signing in"
    /\ Answer(r)
    /\ UNCHANGED <<case, server, fresh, past>>

\* Two minutes after its issue an assertion verifies no more.
ExpireProof(x) ==
    /\ x \in valid
    /\ valid' = valid \ {x}
    /\ UNCHANGED <<case, approvers, deployments, calls, past>>

-----------------------------------------------------------------------------
(* Presenting the proof *)

\* Mutant: an assertion is for the case and the action, not for one form.
FitsCase(x, i, a) == x \in valid /\ x.action = a /\ x.person \in approvers

\* Signature and expiry, then the exact binding, then today's allow-list.
Fits(x, i, a) ==
    /\ x \in valid
    /\ x.form = i /\ x.action = a
    /\ x.person \in approvers

\* require_human_action: a proof for the case's form of this moment.
Proven(x, a) == form # 0 /\ Fits(x, form, a)

\* What the request commits is for the form that it read, not the one signed.
Present(r, x, a) ==
    /\ step[r] = "idle"
    /\ Proven(x, a)
    /\ a \in Decisions /\ status = "WAITING"
    /\ Go(r, "publishing")
    /\ held' = [held EXCEPT ![r] = [person |-> x.person, form |-> form, action |-> a]]
    /\ fresh' = [fresh EXCEPT ![r] = TRUE]
    /\ UNCHANGED <<case, server, past>>

\* The intent is in the room before anything is decided.  When Matrix fails,
\* or its acknowledgement is lost, the request ends without a decision.
Publish(r) ==
    /\ step[r] = "publishing"
    /\ \/ /\ room' = room \cup {held[r]}
          /\ Go(r, "committing")
          /\ UNCHANGED <<held, fresh>>
       \/ /\ room' \in {room, room \cup {held[r]}}
          /\ Answer(r)
          /\ fresh' = [fresh EXCEPT ![r] = FALSE]
    /\ UNCHANGED <<case, server, logins, acts>>

Decided(i) == \E x \in acts : x.proof.form = i /\ x.proof.action \in Decisions

Record(x, way) ==
    acts' = acts \cup {[proof |-> x, by |-> way, allowed |-> x.person \in approvers]}

\* One transaction writes the form, the audit event and the case.
Take(x, way) ==
    /\ ~Decided(x.form)
    /\ Record(x, way)
    /\ status' = IF x.action = "APPROVED" THEN "READY" ELSE "REJECTED"
    /\ Rewritten

\* The case must be the one that was read.  The commit may go unacknowledged:
\* the person is then told to look, and may come back with the same assertion.
CommitDecision(r) ==
    /\ step[r] = "committing"
    /\ fresh[r] /\ status = "WAITING"
    /\ Take(held[r], "WEB")
    /\ Answer(r)
    /\ UNCHANGED <<form, forms, server, logins, room>>

\* The case has changed meanwhile, or the database fails before the commit.
RefuseDecision(r) ==
    /\ step[r] = "committing"
    /\ Answer(r)
    /\ fresh' = [fresh EXCEPT ![r] = FALSE]
    /\ UNCHANGED <<case, server, past>>

\* A reply to request i: its sender is looked up, an assertion is issued and
\* verified on the spot, and the reply itself is the event that is referred to.
DecideInRoom(p, i, a) ==
    /\ p \in approvers /\ i # 0 /\ i = form
    /\ a \in Decisions /\ status = "WAITING"
    /\ Take([person |-> p, form |-> i, action |-> a], "ROOM")
    /\ UNCHANGED <<form, forms, server, step, held, logins, room>>

\* The whole of resume_interrupted_team_run is one step: nothing is awaited
\* between the reads, the proof and the transaction that compares them.
ResumeRun(x) ==
    /\ status = "RECOVERY" /\ Proven(x, "RESUME")
    /\ Record([person |-> x.person, form |-> form, action |-> "RESUME"], "WEB")
    /\ status' = "READY"
    /\ Rewritten
    /\ UNCHANGED <<form, forms, server, step, held, logins, room>>

-----------------------------------------------------------------------------
(* Beside the requests *)

\* The investigation reaches its gate and asks with a form of its own.
AskForApproval ==
    /\ status = "NEW" /\ forms < MaxForms
    /\ status' = "WAITING" /\ form' = forms + 1 /\ forms' = forms + 1
    /\ Rewritten
    /\ UNCHANGED <<server, step, held, past>>

\* The run that asked writes the case once more while it waits.
RunReports ==
    /\ status = "WAITING"
    /\ Rewritten
    /\ UNCHANGED <<case, server, step, held, past>>

\* The execution stops in doubt.
RunStops ==
    /\ status = "READY" /\ status' = "RECOVERY"
    /\ Rewritten
    /\ UNCHANGED <<form, forms, server, step, held, past>>

\* The barrier lets a re-preparation in when no request is under way.
ReprepareCase ==
    /\ \A r \in Requests : step[r] = "idle"
    /\ status # "NEW"
    /\ status' = "NEW" /\ form' = 0
    /\ Rewritten
    /\ UNCHANGED <<forms, server, step, held, past>>

\* Requests under way die; assertions are only a signature and live on.
Redeploy(A) ==
    /\ deployments < MaxDeployments /\ A # approvers
    /\ deployments' = deployments + 1 /\ approvers' = A
    /\ step' = [r \in Requests |-> "idle"]
    /\ held' = [r \in Requests |-> NoProof]
    /\ Rewritten
    /\ UNCHANGED <<case, valid, past>>

HumanNext ==
    \/ \E r \in Requests :
          \/ \E p \in Persons, a \in Actions : SignIn(r, p, a)
          \/ Issue(r) \/ RefuseSignIn(r)
          \/ \E x \in valid, a \in Decisions : Present(r, x, a)
          \/ Publish(r) \/ CommitDecision(r) \/ RefuseDecision(r)
    \/ \E x \in valid : ExpireProof(x) \/ ResumeRun(x)
    \/ \E p \in Persons, i \in Forms, a \in Decisions : DecideInRoom(p, i, a)
    \/ AskForApproval \/ RunReports \/ RunStops \/ ReprepareCase
    \/ \E A \in SUBSET Persons : Redeploy(A)

HumanSpec == HumanInit /\ [][HumanNext]_humanVars

-----------------------------------------------------------------------------
\* Whatever was done in a person's name, that person was on the allow-list at
\* that moment.  On the web they had signed in for exactly that form and that
\* action, and a decision can be found in the room as their intent; and no form
\* is decided twice.  Assertions outlive re-preparations and restarts, can be
\* presented again and again, and two people may decide at once: this is what
\* the binding (hitl.py:176-197), the snapshot (mocks.py:438) and the order of
\* event and commit (api.py:1003) are for.
ActsAreProven ==
    /\ \A x \in acts :
          /\ x.allowed
          /\ x.by = "WEB" => x.proof \in logins
          /\ x.by = "WEB" /\ x.proof.action \in Decisions => x.proof \in room
    /\ \A x, y \in acts :
          /\ x.proof.action \in Decisions /\ y.proof.action \in Decisions
          /\ x.proof.form = y.proof.form
          => x = y

-----------------------------------------------------------------------------
(* The inductive invariant of the proofs *)

\* A request on its way to a decision carries what its person has signed in
\* for and is still allowed to do, for the form of the row that it has read.
RequestIsProven(r) ==
    /\ step[r] \in {"publishing", "committing"} =>
          /\ held[r] \in logins
          /\ held[r].person \in approvers
          /\ held[r].action \in Decisions
          /\ fresh[r] => held[r].form = form
    /\ step[r] = "committing" => held[r] \in room
    /\ step[r] = "signing in" => held[r] \in Proofs

RequestsAreProven == \A r \in Requests : RequestIsProven(r)

HumanInductive == HumanTypeOK /\ RequestsAreProven /\ ActsAreProven
=============================================================================
