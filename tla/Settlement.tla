----------------------------- MODULE Settlement -----------------------------
(***************************************************************************)
(* The amounts of a settlement: cases that are worked on at the same time  *)
(* and concern one order.  Each reads the order's commission ledger,       *)
(* computes what is missing per component (skills.py), has it approved,    *)
(* posts it under a capability bounded by the approval (mocks.py), lets    *)
(* the verifier read the ledger again, and takes its postings back when    *)
(* they do not add up (mcp_team.py).                                       *)
(*                                                                         *)
(* How a call reaches its effect exactly once is MoneyJournal; how a case  *)
(* is driven, interrupted and resumed is CaseLifecycle.  Here a batch is   *)
(* posted or reversed in one step, and a run may stop before any step.  A  *)
(* posting under way outlives its run, and a recovery renews the token     *)
(* without revoking the one such a posting carries.                        *)
(***************************************************************************)
EXTENDS Integers, Functions

CONSTANTS
    Cases,        \* cases about the order
    Components,   \* commission components
    Applied,      \* those whose conditions the order meets
    Entitled,     \* what the policy gives for each of them
    Prior,        \* what the ledger has for the order before any case
    Faulty,       \* cases armed with the injected posting deviation
    Deviation,    \* REVGUARD_POSTING_TAMPER_AMOUNT
    MaxRecordings \* bound: how often a case is prepared again

ASSUME AmountAssumption ==
    /\ Applied \subseteq Components
    /\ Entitled \in [Components -> Int]
    /\ Prior \in [Components -> Int]
    /\ Faulty \subseteq Cases
    /\ Deviation \in Int
    /\ MaxRecordings \in Nat

VARIABLES
    \* the case row and its verification
    status,
    delta,        \* root_cause_report.diffs: missing per component
    verdict,      \* verification_status
    \* what the approval allows
    quota,        \* component_quota of the approval
    capability,   \* what the token in the approval row still allows
    ticket,       \* a rollback token that can be used
    \* calls under way
    posting,      \* a posting whose task is open; it carries the row's token
    late,         \* what replaced tokens allow that cancelled postings carry
    \* the gateway
    ledger,       \* net amount of the order per component
    executed,     \* the case's executions: none, submitted or rolled back
    own,          \* amounts of the case's own entries
    before,       \* net amounts of before_snapshot
    bare,         \* before_snapshot has no entries
    armed,        \* cases whose next posting deviates
    recording,    \* recording_epochs
    \* the run that drives the case
    live,
    snapshot,     \* the run holds the snapshot of its own reversal
    confirmed     \* ROLLBACK_VERIFIED has been recorded

rights  == <<quota, capability, ticket>>
calls   == <<posting, late>>
effects == <<ledger, executed, own, before, bare, armed, recording>>
vars == <<status, delta, verdict, rights, calls, effects, live, snapshot, confirmed>>

Amounts == [Components -> Int]
Limits  == [Components -> Nat]
Zero    == [k \in Components |-> 0]

Status == {"CREATED", "RISK_REVIEW", "WAITING_FOR_APPROVAL", "REJECTED", "READY_TO_EXECUTE",
           "EXECUTING", "VERIFYING", "ROLLBACK_REQUIRED", "RECOVERY_REQUIRED",
           "CLOSED", "ROLLED_BACK", "FAILED"}

\* Limits and what is left of them are never negative, each case is in a known
\* status and prepared at most as often as the bound allows.
TypeOK ==
    /\ status \in [Cases -> Status]
    /\ delta \in [Cases -> Amounts]
    /\ verdict \in [Cases -> {"NONE", "PASSED", "FAILED", "NOT_APPLICABLE"}]
    /\ quota \in [Cases -> Limits]
    /\ capability \in [Cases -> Limits]
    /\ ticket \in [Cases -> BOOLEAN]
    /\ posting \in [Cases -> BOOLEAN]
    /\ late \in [Cases -> SUBSET Limits]
    /\ ledger \in Amounts
    /\ executed \in [Cases -> {"NONE", "SUBMITTED", "ROLLED_BACK"}]
    /\ own \in [Cases -> Amounts]
    /\ before \in [Cases -> Amounts]
    /\ bare \in [Cases -> BOOLEAN]
    /\ armed \subseteq Cases
    /\ recording \in [Cases -> 0..MaxRecordings]
    /\ live \in [Cases -> BOOLEAN]
    /\ snapshot \in [Cases -> BOOLEAN]
    /\ confirmed \in [Cases -> BOOLEAN]

Init ==
    /\ status = [c \in Cases |-> "CREATED"]
    /\ delta = [c \in Cases |-> Zero]
    /\ verdict = [c \in Cases |-> "NONE"]
    /\ quota = [c \in Cases |-> Zero]
    /\ capability = [c \in Cases |-> Zero]
    /\ ticket = [c \in Cases |-> FALSE]
    /\ posting = [c \in Cases |-> FALSE]
    /\ late = [c \in Cases |-> {}]
    /\ ledger = Prior
    /\ executed = [c \in Cases |-> "NONE"]
    /\ own = [c \in Cases |-> Zero]
    /\ before = [c \in Cases |-> Zero]
    /\ bare = [c \in Cases |-> FALSE]
    /\ armed = Faulty
    /\ recording = [c \in Cases |-> 0]
    /\ live = [c \in Cases |-> FALSE]
    /\ snapshot = [c \in Cases |-> FALSE]
    /\ confirmed = [c \in Cases |-> FALSE]

-----------------------------------------------------------------------------
(* Amounts *)

Magnitude(x) == IF x < 0 THEN -x ELSE x

Plus(f, g)  == [k \in Components |-> f[k] + g[k]]
Minus(f, g) == [k \in Components |-> f[k] - g[k]]

\* What the order should have.
Due == [k \in Components |-> IF k \in Applied THEN Entitled[k] ELSE 0]

\* Mutant: what the policy names is missing whether or not it applies.
DifferenceOfAll == [k \in Components |-> Entitled[k] - ledger[k]]

\* Components whose conditions are not met take no part in the comparison.
Difference == [k \in Components |-> IF k \in Applied THEN Entitled[k] - ledger[k] ELSE 0]

Pending(c) == {k \in Components : delta[c][k] # 0}

\* What the case has in the ledger; a reversal cancels its entry.
Effect(c) == IF executed[c] = "SUBMITTED" THEN own[c] ELSE Zero

\* The drafts that are submitted, whether or not they have been reversed.
Consumed(c) == IF executed[c] = "NONE" THEN Zero
               ELSE [k \in Components |-> Magnitude(delta[c][k])]

\* The order has no ledger entries at all.
NoEntries == Prior = Zero /\ \A c \in Cases : executed[c] = "NONE"

-----------------------------------------------------------------------------
(* Investigation and approval *)

Investigate(c) ==
    /\ status[c] = "CREATED"
    /\ status' = [status EXCEPT ![c] = "RISK_REVIEW"]
    /\ delta' = [delta EXCEPT ![c] = Difference]
    /\ UNCHANGED <<verdict, rights, calls, effects, live, snapshot, confirmed>>

\* Nothing to do, or a risk that a person settles outside the system.
CloseWithoutAction(c) ==
    /\ status[c] = "RISK_REVIEW"
    /\ status' = [status EXCEPT ![c] = "CLOSED"]
    /\ UNCHANGED <<delta, verdict, rights, calls, effects, live, snapshot, confirmed>>

\* A small supplement becomes a draft that nobody posts.
DraftOnly(c) ==
    /\ status[c] = "RISK_REVIEW"
    /\ Pending(c) # {}
    /\ \A k \in Pending(c) : delta[c][k] > 0
    /\ status' = [status EXCEPT ![c] = "CLOSED"]
    /\ verdict' = [verdict EXCEPT ![c] = "NOT_APPLICABLE"]
    /\ UNCHANGED <<delta, rights, calls, effects, live, snapshot, confirmed>>

\* The approval names a limit for every component, whatever its direction.
AskApproval(c) ==
    /\ status[c] = "RISK_REVIEW"
    /\ Pending(c) # {}
    /\ status' = [status EXCEPT ![c] = "WAITING_FOR_APPROVAL"]
    /\ quota' = [quota EXCEPT ![c] = [k \in Components |-> Magnitude(delta[c][k])]]
    /\ UNCHANGED <<delta, verdict, capability, ticket, calls, effects, live, snapshot, confirmed>>

Approve(c) ==
    /\ status[c] = "WAITING_FOR_APPROVAL"
    /\ status' = [status EXCEPT ![c] = "READY_TO_EXECUTE"]
    /\ capability' = [capability EXCEPT ![c] = quota[c]]
    /\ live' = [live EXCEPT ![c] = TRUE]
    /\ UNCHANGED <<delta, verdict, quota, ticket, calls, effects, snapshot, confirmed>>

Reject(c) ==
    /\ status[c] = "WAITING_FOR_APPROVAL"
    /\ status' = [status EXCEPT ![c] = "REJECTED"]
    /\ UNCHANGED <<delta, verdict, rights, calls, effects, live, snapshot, confirmed>>

-----------------------------------------------------------------------------
(* Execution *)

StartExecution(c) ==
    /\ live[c]
    /\ status[c] = "READY_TO_EXECUTE"
    /\ status' = [status EXCEPT ![c] = "EXECUTING"]
    /\ UNCHANGED <<delta, verdict, rights, calls, effects, live, snapshot, confirmed>>

\* A stage call gets the token that is in the approval row.
Inject(c) ==
    /\ live[c]
    /\ status[c] = "EXECUTING"
    /\ executed[c] = "NONE"
    /\ ~posting[c]
    /\ posting' = [posting EXCEPT ![c] = TRUE]
    /\ UNCHANGED <<status, delta, verdict, rights, late, effects, live, snapshot, confirmed>>

\* Mutant: a call is let through although its task has been cancelled.
AdmittedLate(c) == (IF posting[c] THEN {[row |-> TRUE, allows |-> capability[c]]} ELSE {})
                   \cup {[row |-> FALSE, allows |-> limit] : limit \in late[c]}

\* The calls whose task is still open, by the token they carry.
Admitted(c) == IF posting[c] THEN {[row |-> TRUE, allows |-> capability[c]]} ELSE {}

Covers(limit, c) == \A k \in Components : Magnitude(delta[c][k]) <= limit[k]

\* What is written: the drafts, but for the deviation injected into the first.
Written(c) ==
    IF c \notin armed THEN {delta[c]}
    ELSE {[delta[c] EXCEPT ![k] = @ + Deviation] : k \in Pending(c)}

\* commission.submit_adjustment: the whole batch or nothing, for a run that may
\* have ended.  The token of the call is charged with the drafts.
Submit(c) ==
    /\ status[c] = "EXECUTING"
    /\ executed[c] = "NONE"
    /\ \E token \in Admitted(c) :
          /\ Covers(token.allows, c)
          /\ capability' = IF token.row
                           THEN [capability EXCEPT ![c] =
                                   [k \in Components |-> @[k] - Magnitude(delta[c][k])]]
                           ELSE capability
    /\ \E amounts \in Written(c) :
          /\ own' = [own EXCEPT ![c] = amounts]
          /\ ledger' = Plus(ledger, amounts)
    /\ executed' = [executed EXCEPT ![c] = "SUBMITTED"]
    /\ before' = [before EXCEPT ![c] = ledger]
    /\ bare' = [bare EXCEPT ![c] = NoEntries]
    /\ armed' = armed \ {c}
    /\ ticket' = [ticket EXCEPT ![c] = TRUE]
    /\ posting' = [posting EXCEPT ![c] = FALSE]
    /\ UNCHANGED <<status, delta, verdict, quota, late, recording, live, snapshot, confirmed>>

\* Every draft of the case is posted: for a resumed run that has nothing left
\* to post, VERIFY_COMMITTED proves it from the primary's rows.
Posted(c) == executed[c] = "SUBMITTED"

\* The executions are there, from this run or from an earlier one.
HandOver(c) ==
    /\ live[c]
    /\ status[c] = "EXECUTING"
    /\ Posted(c)
    /\ status' = [status EXCEPT ![c] = "VERIFYING"]
    /\ UNCHANGED <<delta, verdict, rights, calls, effects, live, snapshot, confirmed>>

\* finance.get_commission_ledger for the verifier: the snapshot before the
\* case's own postings, and these postings with their reversals.
Scope(c) == Plus(before[c], Effect(c))

\* Mutant: the receipt of the posting is taken for its result.
MatchesReceipt(c) == executed[c] = "SUBMITTED"

\* Each component that applies is right, and so is the total, in which all
\* rows of the order count.
Agrees(found) ==
    /\ \A k \in Applied : found[k] = Entitled[k]
    /\ SumFunction(found) = SumFunction(Due)

Matches(c) == Agrees(Scope(c))

Verify(c) ==
    /\ live[c]
    /\ status[c] = "VERIFYING"
    /\ \/ /\ Matches(c)
          /\ verdict' = [verdict EXCEPT ![c] = "PASSED"]
          /\ status' = [status EXCEPT ![c] = "CLOSED"]
          /\ live' = [live EXCEPT ![c] = FALSE]
       \/ /\ ~Matches(c)
          /\ verdict' = [verdict EXCEPT ![c] = "FAILED"]
          /\ status' = [status EXCEPT ![c] = "ROLLBACK_REQUIRED"]
          /\ UNCHANGED live
    /\ UNCHANGED <<delta, rights, calls, effects, snapshot, confirmed>>

-----------------------------------------------------------------------------
(* Compensation *)

\* commission.reverse_adjustment: every entry of the case once, in one batch.
Reverse(c) ==
    /\ live[c]
    /\ status[c] = "ROLLBACK_REQUIRED"
    /\ executed[c] = "SUBMITTED"
    /\ ticket[c]
    /\ executed' = [executed EXCEPT ![c] = "ROLLED_BACK"]
    /\ ledger' = Minus(ledger, own[c])
    /\ ticket' = [ticket EXCEPT ![c] = FALSE]
    /\ snapshot' = [snapshot EXCEPT ![c] = TRUE]
    /\ UNCHANGED <<status, delta, verdict, quota, capability, calls, own, before, bare, armed,
                   recording, live, confirmed>>

\* A resumed run has the snapshot only if it is not empty.
HasSnapshot(c) == snapshot[c] \/ ~bare[c]

\* Mutant: the reversal is not waited for.
ConfirmEarly(c) ==
    /\ live[c]
    /\ status[c] = "ROLLBACK_REQUIRED"
    /\ HasSnapshot(c)
    /\ status' = [status EXCEPT ![c] = IF Scope(c) = before[c] THEN "ROLLED_BACK" ELSE "FAILED"]
    /\ confirmed' = [confirmed EXCEPT ![c] = TRUE]
    /\ live' = [live EXCEPT ![c] = FALSE]
    /\ UNCHANGED <<delta, verdict, rights, calls, effects, snapshot>>

ConfirmRollback(c) ==
    /\ live[c]
    /\ status[c] = "ROLLBACK_REQUIRED"
    /\ executed[c] = "ROLLED_BACK"
    /\ HasSnapshot(c)
    /\ status' = [status EXCEPT ![c] = IF Scope(c) = before[c] THEN "ROLLED_BACK" ELSE "FAILED"]
    /\ confirmed' = [confirmed EXCEPT ![c] = TRUE]
    /\ live' = [live EXCEPT ![c] = FALSE]
    /\ UNCHANGED <<delta, verdict, rights, calls, effects, snapshot>>

\* Mutant: a reversal that cannot be checked is taken for confirmed.
PassUnconfirmed(c) ==
    /\ live[c]
    /\ status[c] = "ROLLBACK_REQUIRED"
    /\ executed[c] = "ROLLED_BACK"
    /\ ~HasSnapshot(c)
    /\ status' = [status EXCEPT ![c] = "ROLLED_BACK"]
    /\ live' = [live EXCEPT ![c] = FALSE]
    /\ UNCHANGED <<delta, verdict, rights, calls, effects, snapshot, confirmed>>

FailUnconfirmed(c) ==
    /\ live[c]
    /\ status[c] = "ROLLBACK_REQUIRED"
    /\ executed[c] = "ROLLED_BACK"
    /\ ~HasSnapshot(c)
    /\ status' = [status EXCEPT ![c] = "FAILED"]
    /\ live' = [live EXCEPT ![c] = FALSE]
    /\ UNCHANGED <<delta, verdict, rights, calls, effects, snapshot, confirmed>>

-----------------------------------------------------------------------------
(* Interruption and recovery *)

\* Tokens expire; an expired one cannot be told from an exhausted one.
Expire(c) ==
    /\ \/ /\ capability[c] # Zero
          /\ capability' = [capability EXCEPT ![c] = Zero]
          /\ UNCHANGED ticket
       \/ /\ ticket[c]
          /\ ticket' = [ticket EXCEPT ![c] = FALSE]
          /\ UNCHANGED capability
    /\ UNCHANGED <<status, delta, verdict, quota, calls, effects, live, snapshot, confirmed>>

\* The run ends without an outcome; if somebody reports it, the case is marked.
StopRun(c) ==
    /\ \/ UNCHANGED status
       \/ /\ status[c] # "READY_TO_EXECUTE"
          /\ status' = [status EXCEPT ![c] = "RECOVERY_REQUIRED"]
    /\ live' = [live EXCEPT ![c] = FALSE]
    /\ snapshot' = [snapshot EXCEPT ![c] = FALSE]
    /\ UNCHANGED <<delta, verdict, rights, late, effects, confirmed>>

\* The gateway refuses a token that is used up or expired.
Refused(c) ==
    /\ live[c]
    /\ \/ status[c] = "EXECUTING" /\ posting[c] /\ ~Covers(capability[c], c)
       \/ status[c] = "ROLLBACK_REQUIRED" /\ executed[c] = "SUBMITTED" /\ ~ticket[c]
    /\ posting' = [posting EXCEPT ![c] = FALSE]
    /\ StopRun(c)

\* The process of the run dies, an answer is lost, a stage times out: the call
\* it waits for may be under way.
Interrupt(c) == live[c] /\ StopRun(c) /\ UNCHANGED posting

\* A call that outlived its run dies, or is refused: its case or its task has
\* moved on, or its token has expired.
CallEnds(c) ==
    /\ \/ /\ posting[c] /\ ~live[c]
          /\ posting' = [posting EXCEPT ![c] = FALSE]
          /\ UNCHANGED late
       \/ /\ \E limit \in late[c] : late' = [late EXCEPT ![c] = @ \ {limit}]
          /\ UNCHANGED posting
    /\ UNCHANGED <<status, delta, verdict, rights, effects, live, snapshot, confirmed>>

\* Mutant: an expired token renews to nothing.
RenewedFromToken(c) == capability[c]

\* renew_approval_capability: what the approval allows and no draft has used.
Renewed(c) == [k \in Components |->
                  IF Consumed(c)[k] < quota[c][k] THEN quota[c][k] - Consumed(c)[k] ELSE 0]

\* The tasks of the interrupted run are cancelled in the same transaction; its
\* token is replaced in the approval row and stays valid until it expires.
ResumeExecution(c) ==
    /\ ~live[c]
    /\ verdict[c] # "FAILED"
    /\ status[c] \in {"READY_TO_EXECUTE", "EXECUTING", "VERIFYING", "RECOVERY_REQUIRED"}
    /\ status' = [status EXCEPT ![c] = IF @ = "READY_TO_EXECUTE" THEN @ ELSE "EXECUTING"]
    /\ capability' = [capability EXCEPT ![c] = Renewed(c)]
    /\ late' = [late EXCEPT ![c] = IF posting[c] THEN @ \cup {capability[c]} ELSE @]
    /\ posting' = [posting EXCEPT ![c] = FALSE]
    /\ live' = [live EXCEPT ![c] = TRUE]
    /\ UNCHANGED <<delta, verdict, quota, ticket, effects, snapshot, confirmed>>

\* renew_rollback_capability, for the entries that are not reversed.
ResumeRollback(c) ==
    /\ ~live[c]
    /\ verdict[c] = "FAILED"
    /\ status[c] \in {"ROLLBACK_REQUIRED", "RECOVERY_REQUIRED", "FAILED"}
    /\ status' = [status EXCEPT ![c] = "ROLLBACK_REQUIRED"]
    /\ ticket' = [ticket EXCEPT ![c] = executed[c] = "SUBMITTED"]
    /\ live' = [live EXCEPT ![c] = TRUE]
    /\ UNCHANGED <<delta, verdict, quota, capability, calls, effects, snapshot, confirmed>>

AtRest(c) == status[c] \in {"CLOSED", "REJECTED", "ROLLED_BACK", "FAILED"}

\* reprepare_case: the case's entries, drafts and keys are deleted and its
\* deviation is armed again; what others have remembered of it stays.
Reprepare(c) ==
    /\ AtRest(c)
    /\ ~live[c]
    /\ recording[c] < MaxRecordings
    /\ recording' = [recording EXCEPT ![c] = @ + 1]
    /\ ledger' = Minus(ledger, Effect(c))
    /\ executed' = [executed EXCEPT ![c] = "NONE"]
    /\ armed' = armed \cup ({c} \cap Faulty)
    /\ status' = [status EXCEPT ![c] = "CREATED"]
    /\ verdict' = [verdict EXCEPT ![c] = "NONE"]
    /\ delta' = [delta EXCEPT ![c] = Zero]
    /\ quota' = [quota EXCEPT ![c] = Zero]
    /\ capability' = [capability EXCEPT ![c] = Zero]
    /\ ticket' = [ticket EXCEPT ![c] = FALSE]
    /\ own' = [own EXCEPT ![c] = Zero]
    /\ before' = [before EXCEPT ![c] = Zero]
    /\ bare' = [bare EXCEPT ![c] = FALSE]
    /\ snapshot' = [snapshot EXCEPT ![c] = FALSE]
    /\ confirmed' = [confirmed EXCEPT ![c] = FALSE]
    /\ UNCHANGED <<calls, live>>

-----------------------------------------------------------------------------
Runs(c) ==
    \/ StartExecution(c) \/ Inject(c) \/ Submit(c) \/ HandOver(c) \/ Verify(c)
    \/ Reverse(c) \/ ConfirmRollback(c) \/ FailUnconfirmed(c) \/ Refused(c)

Resume(c) == ResumeExecution(c) \/ ResumeRollback(c)

Next ==
    \E c \in Cases :
        \/ Investigate(c) \/ CloseWithoutAction(c) \/ DraftOnly(c)
        \/ AskApproval(c) \/ Approve(c) \/ Reject(c)
        \/ Runs(c)
        \/ Expire(c) \/ Interrupt(c) \/ CallEnds(c) \/ Resume(c) \/ Reprepare(c)

Spec == Init /\ [][Next]_vars

\* No step of a run is interrupted for ever, nor does a token expire before
\* every posting; a case that stopped is resumed in the end.  Interruption,
\* expiry and the end of a call that nobody waits for are not fair.
Fairness ==
    \A c \in Cases :
        /\ SF_vars(StartExecution(c))
        /\ WF_vars(Inject(c))
        /\ SF_vars(Inject(c) /\ Covers(capability[c], c))
        /\ SF_vars(Submit(c))
        /\ SF_vars(HandOver(c))
        /\ SF_vars(Verify(c))
        /\ SF_vars(Reverse(c))
        /\ SF_vars(ConfirmRollback(c) \/ FailUnconfirmed(c))
        /\ WF_vars(Refused(c))
        /\ WF_vars(Resume(c))

FairSpec == Spec /\ Fairness

-----------------------------------------------------------------------------
(* Properties *)

\* What a case has been charged and what the token in its approval row still
\* allows, the one every new posting is given, never exceed the approval: a
\* recovery renews what is unused without revoking the earlier token, and the
\* posting that carries it is never charged afterwards
\* (renew_approval_capability, _submit_single, assert_active_claim).
AuthorityIsBounded ==
    \A c \in Cases, k \in Components : Consumed(c)[k] + capability[c][k] <= quota[c][k]

\* A case comes to rest with its postings in the ledger exactly when the
\* verifier has passed them: what fails verification is reversed first, through
\* interruptions and resumptions (execute_after_approval, resume_rollback).
NothingUnverifiedStays ==
    \A c \in Cases : AtRest(c) => (executed[c] = "SUBMITTED" <=> verdict[c] = "PASSED")

\* A case that rests with its postings reversed has had the reversal verified
\* against the ledger before them; the only one that has not found no entries
\* there and is left FAILED, never ROLLED_BACK (_rollback, resume_rollback).
ReversalIsVerified ==
    \A c \in Cases : AtRest(c) /\ executed[c] = "ROLLED_BACK" =>
        confirmed[c] \/ (bare[c] /\ status[c] = "FAILED")

\* Only postings that leave a component of the order wrong fail verification
\* (difference_explain and _verify_ledger_read compare the same components).
CorrectAdjustmentPasses ==
    \A c \in Cases : verdict[c] = "FAILED" =>
        \E k \in Applied : before[c][k] + own[c][k] # Entitled[k]

\* When every posting in the ledger has passed and one has, the order has
\* what it is entitled to (post_action_verify).
SettledIsEntitled ==
    LET inForce == {c \in Cases : executed[c] = "SUBMITTED"}
    IN  inForce # {} /\ (\A c \in inForce : verdict[c] = "PASSED") => ledger = Due

\* An approved settlement comes to rest although its runs are interrupted, its
\* tokens expire and its capability is renewed in part.
ApprovedComesToRest ==
    \A c \in Cases : status[c] = "READY_TO_EXECUTE" ~> AtRest(c)

-----------------------------------------------------------------------------
(***************************************************************************)
(* The inductive invariant: where a case may be, given what it has in the  *)
(* ledger and what the verifier said of it.                                *)
(***************************************************************************)
Unapproved == {"CREATED", "RISK_REVIEW", "WAITING_FOR_APPROVAL", "REJECTED"}
UnderWay   == {"READY_TO_EXECUTE", "EXECUTING", "VERIFYING", "ROLLBACK_REQUIRED"}

PhaseIsSound(c) ==
    /\ status[c] \in Unapproved => capability[c] = Zero
    /\ status[c] \in Unapproved \cup {"READY_TO_EXECUTE"} =>
          executed[c] = "NONE" /\ verdict[c] = "NONE"
    /\ status[c] = "EXECUTING" => executed[c] # "ROLLED_BACK" /\ verdict[c] = "NONE"
    /\ status[c] = "VERIFYING" => executed[c] = "SUBMITTED" /\ verdict[c] = "NONE"
    /\ status[c] = "CLOSED" =>
          \/ verdict[c] = "PASSED" /\ executed[c] = "SUBMITTED"
          \/ verdict[c] \in {"NONE", "NOT_APPLICABLE"} /\ executed[c] = "NONE"
    /\ status[c] = "RECOVERY_REQUIRED" =>
          \/ verdict[c] = "NONE" /\ executed[c] # "ROLLED_BACK"
          \/ verdict[c] = "FAILED" /\ executed[c] # "NONE"
    /\ status[c] = "ROLLBACK_REQUIRED" => verdict[c] = "FAILED" /\ executed[c] # "NONE"
    /\ status[c] \in {"ROLLED_BACK", "FAILED"} =>
          verdict[c] = "FAILED" /\ executed[c] = "ROLLED_BACK"
    /\ live[c] => status[c] \in UnderWay
    /\ posting[c] => status[c] \in {"EXECUTING", "RECOVERY_REQUIRED"} /\ executed[c] = "NONE"

\* Only a reversal on an order without entries can go unverified.
ReversalIsSound(c) ==
    /\ status[c] = "ROLLED_BACK" => confirmed[c]
    /\ status[c] = "FAILED" => confirmed[c] \/ bare[c]

\* What failed verification left a component or the total wrong.
FailureIsSound(c) == verdict[c] = "FAILED" => ~Agrees(Plus(before[c], own[c]))

\* Together they are kept by every step of every case.
Inductive ==
    /\ TypeOK
    /\ \A c \in Cases : PhaseIsSound(c) /\ ReversalIsSound(c) /\ FailureIsSound(c)
    /\ AuthorityIsBounded

\* No case posts to a component that does not apply: a draft has none, a
\* deviation is injected into a draft, and a reversal takes back what is there.
OthersAreUntouched ==
    \A k \in Components \ Applied :
        /\ ledger[k] = Prior[k]
        /\ \A c \in Cases : /\ delta[c][k] = 0 /\ own[c][k] = 0
                            /\ executed[c] # "NONE" => before[c][k] = Prior[k]

\* The order when every component that applies is right.
Settled == [k \in Components |-> IF k \in Applied THEN Entitled[k] ELSE Prior[k]]
=============================================================================
