---------------------------- MODULE MoneyJournal ----------------------------
(***************************************************************************)
(* The money journal (src/revguard/money_journal.py) and the path every    *)
(* money call takes through it: call_tool (skills.py), ToolGateway.call    *)
(* (mocks.py) with its three database transactions -- read the channel,    *)
(* prepare the intent, commit the effect -- and the reports it writes when *)
(* it fails.  Beside the calls run human recovery (recovery.py), the       *)
(* coordinator's freeze, re-preparation of a recording, process crashes    *)
(* and the out-of-database recovery lock.                                  *)
(*                                                                         *)
(* Every database transaction takes one lock in the database that owns the *)
(* effects (MoneyJournal.transaction), so a transaction is one step.       *)
(* Between two of them anything else may happen.                           *)
(***************************************************************************)
EXTENDS Naturals

CONSTANTS
    Calls,       \* invocations of call_tool with a money tool; each runs once
    Processes,   \* processes that own a ToolGateway
    Cases, Channels, Digests, BaseKeys,
    Requests,    \* what a call may ask for
    MaxEpoch     \* bound on how often a case is re-prepared for recording

\* The channel is "order:" and the order of the draft or ledger entry that the
\* digested parameters name, both immutable: it is a function of the request.
ASSUME RequestAssumption ==
    /\ Requests # {}
    /\ Requests \subseteq
         [key : BaseKeys, case : Cases, digest : Digests, channel : Channels]
    /\ \A r, s \in Requests :
         r.key = s.key /\ r.case = s.case /\ r.digest = s.digest => r = s

ASSUME EpochAssumption == MaxEpoch \in Nat

VARIABLES
    \* money_operations: one row per operation id
    status, generation, intent,
    holds,       \* money_holds: pairs <<channel, case>>
    ledger,      \* operation id -> effects posted under it
    epoch,       \* case -> recording epoch of the gateway image
    locked,      \* REVGUARD_MONEY_RECOVERY_LOCK
    gateway,     \* process -> the call inside ToolGateway._lock, if one is
    \* one call of call_tool
    process, req, claim, pc, key, seen, answer,
    fenced       \* history: calls whose intent a recovery has invalidated

rows  == <<status, generation, intent>>
vars  == <<status, generation, intent, holds, ledger, epoch, locked, gateway,
           process, req, claim, pc, key, seen, answer, fenced>>

Key        == BaseKeys \X (0..MaxEpoch)
Status     == {"ABSENT", "PREPARED", "RESULT_UNKNOWN", "NOT_COMMITTED", "COMMITTED"}
Unresolved == {"PREPARED", "RESULT_UNKNOWN"}
Step       == {"ready", "keyed", "prepared", "rejected", "raised", "freezing", "done"}
Answer     == {"NONE", "OK", "REJECTED", "RESULT_UNKNOWN"}
Claim      == {"NONE", "ACTIVE", "REVOKED"}
Effect     == [call : Calls, request : Requests]

TypeOK ==
    /\ status \in [Key -> Status]
    /\ generation \in [Key -> Nat]
    /\ intent \in [Key -> Requests]
    /\ holds \subseteq Channels \X Cases
    /\ ledger \in [Key -> SUBSET Effect]
    /\ epoch \in [Cases -> 0..MaxEpoch]
    /\ locked \in BOOLEAN
    /\ gateway \in [Processes -> SUBSET Calls]
    /\ process \in [Calls -> Processes]
    /\ req \in [Calls -> Requests]
    /\ claim \in [Calls -> Claim]
    /\ pc \in [Calls -> Step]
    /\ key \in [Calls -> Key]
    /\ seen \in [Calls -> Nat]
    /\ answer \in [Calls -> Answer]
    /\ fenced \subseteq Calls

-----------------------------------------------------------------------------
(* Reading the database *)

SameRequest(r, s) == r.digest = s.digest /\ r.case = s.case

\* Mutant: an unresolved operation is not looked for, only a hold.
ChannelHeldOnly(r) == \E c \in Cases : <<r.channel, c>> \in holds

ChannelBlocked(r) ==
    \/ \E c \in Cases : <<r.channel, c>> \in holds
    \/ \E k \in Key : status[k] \in Unresolved /\ intent[k].channel = r.channel

\* assert_active_claim: a call made outside a Worker task carries no claim
\* and is never refused.
ClaimActive(e) == claim[e] # "REVOKED"

\* ToolGateway._lock is held from the first transaction to the last.
GatewayFree(p) == gateway[p] = {}

CaseChannels(c) ==
    {intent[k].channel : k \in {j \in Key : status[j] # "ABSENT" /\ intent[j].case = c}}

-----------------------------------------------------------------------------
(* How a call goes on *)

Goto(e, step) == pc' = [pc EXCEPT ![e] = step]

\* The call is out of the lock of its gateway, however it left.
LeaveGateway(e) == gateway' = [gateway EXCEPT ![process[e]] = @ \ {e}]

\* A definite error goes back to the Worker; nothing is frozen.
Refuse(e) ==
    /\ Goto(e, "done")
    /\ answer' = [answer EXCEPT ![e] = "REJECTED"]

\* RecoveryRequired and unexpected exceptions: call_tool freezes the case.
Uncertain(e) ==
    /\ Goto(e, "freezing")
    /\ answer' = [answer EXCEPT ![e] = "RESULT_UNKNOWN"]

Succeed(e) ==
    /\ Goto(e, "done")
    /\ answer' = [answer EXCEPT ![e] = "OK"]

callVars == <<process, req, claim, key, seen, fenced>>
dbVars   == <<status, generation, intent, holds, ledger, epoch, locked>>

-----------------------------------------------------------------------------
(* The call *)

\* First transaction: check the claim, read the epoch, fix the key.
Enter(e) ==
    /\ pc[e] = "ready"
    /\ GatewayFree(process[e])
    /\ UNCHANGED <<dbVars, process, req, claim, seen, fenced>>
    /\ \/ /\ ~ClaimActive(e)
          /\ Refuse(e)
          /\ UNCHANGED <<key, gateway>>
       \/ /\ ClaimActive(e)
          /\ gateway' = [gateway EXCEPT ![process[e]] = {e}]
          /\ Goto(e, "keyed")
          /\ key' = [key EXCEPT ![e] = <<req[e].key, epoch[req[e].case]>>]
          /\ UNCHANGED answer

\* MoneyJournal.prepare refuses, or answers from the stored operation.
PrepareAnswers(e) ==
    LET k == key[e] IN
    /\ pc[e] = "keyed"
    /\ UNCHANGED <<dbVars, process, req, claim, key, fenced>>
    /\ \/ /\ LeaveGateway(e)
          /\ UNCHANGED seen
          /\ \/ locked /\ Uncertain(e)
             \/ /\ ~locked
                /\ \/ ~ClaimActive(e)
                   \/ status[k] # "ABSENT" /\ ~SameRequest(req[e], intent[k])
                /\ Refuse(e)
             \/ /\ ~locked
                /\ ClaimActive(e)
                /\ status[k] # "ABSENT" => SameRequest(req[e], intent[k])
                /\ status[k] # "COMMITTED"
                /\ status[k] \in Unresolved \/ ChannelBlocked(req[e])
                /\ Uncertain(e)
       \/ /\ ~locked
          /\ ClaimActive(e)
          /\ status[k] = "COMMITTED"
          /\ SameRequest(req[e], intent[k])
          /\ Goto(e, "prepared")
          /\ seen' = [seen EXCEPT ![e] = generation[k]]
          /\ UNCHANGED <<answer, gateway>>

MayPrepare(e) ==
    LET k == key[e] IN
    /\ ~locked
    /\ ClaimActive(e)
    /\ \/ status[k] = "ABSENT"
       \/ status[k] = "NOT_COMMITTED" /\ SameRequest(req[e], intent[k])
    /\ ~ChannelBlocked(req[e])

\* Second transaction: write the intent.  A NOT_COMMITTED row keeps its
\* generation.  The commit may succeed while its acknowledgement is lost: the
\* exception leaves call without an operation, so nothing is marked.
Prepare(e) ==
    LET k == key[e]
        g == IF status[k] = "ABSENT" THEN 1 ELSE generation[k]
    IN
    /\ pc[e] = "keyed"
    /\ MayPrepare(e)
    /\ status' = [status EXCEPT ![k] = "PREPARED"]
    /\ generation' = [generation EXCEPT ![k] = g]
    /\ intent' = [intent EXCEPT ![k] = IF status[k] = "ABSENT" THEN req[e] ELSE @]
    /\ \/ /\ Goto(e, "prepared")
          /\ seen' = [seen EXCEPT ![e] = g]
          /\ UNCHANGED <<answer, gateway>>
       \/ /\ LeaveGateway(e)
          /\ Uncertain(e)
          /\ UNCHANGED seen
    /\ UNCHANGED <<holds, ledger, epoch, locked, process, req, claim, key, fenced>>

\* Mutant: the generation the intent was prepared with is not compared.
UnfencedEffect(e) == ~locked

\* Third transaction, up to the handler: the claim, the recovery lock and the
\* generation are read again under the effect lock.
Fence(e) ==
    /\ ~locked
    /\ seen[e] = generation[key[e]]

EffectRefused(e) ==
    /\ pc[e] = "prepared"
    /\ LeaveGateway(e)
    /\ \/ /\ ~ClaimActive(e)
          /\ Refuse(e)
       \/ /\ ClaimActive(e)
          /\ ~Fence(e) \/ status[key[e]] \notin {"COMMITTED", "PREPARED"}
          /\ Uncertain(e)
    /\ UNCHANGED <<dbVars, callVars>>

StoredResult(e) ==
    /\ pc[e] = "prepared"
    /\ LeaveGateway(e)
    /\ ClaimActive(e)
    /\ Fence(e)
    /\ status[key[e]] = "COMMITTED"
    /\ Succeed(e)
    /\ UNCHANGED <<dbVars, callVars>>

MayPost(e) ==
    /\ ClaimActive(e)
    /\ Fence(e)
    /\ status[key[e]] = "PREPARED"

\* The handler succeeds: ledger rows, executions, gateway image, status,
\* audit and outbox are one commit, which may succeed unacknowledged.
CommitEffect(e) ==
    LET k == key[e] IN
    /\ pc[e] = "prepared"
    /\ MayPost(e)
    /\ status' = [status EXCEPT ![k] = "COMMITTED"]
    /\ ledger' = [ledger EXCEPT ![k] = @ \cup {[call |-> e, request |-> req[e]]}]
    /\ LeaveGateway(e)
    /\ Succeed(e) \/ (Goto(e, "raised") /\ UNCHANGED answer)
    /\ UNCHANGED <<generation, intent, holds, epoch, locked, callVars>>

\* Mutant: a handler that raises keeps the lock of the gateway.
RejectsInside(e) ==
    /\ pc[e] = "prepared"
    /\ MayPost(e)
    /\ Goto(e, "rejected")
    /\ UNCHANGED <<dbVars, callVars, answer, gateway>>

\* The handler raises a ToolError: the transaction rolls back.
HandlerRejects(e) ==
    /\ pc[e] = "prepared"
    /\ MayPost(e)
    /\ LeaveGateway(e)
    /\ Goto(e, "rejected")
    /\ UNCHANGED <<dbVars, callVars, answer>>

\* Fourth transaction, after the gateway lock is released.  An error type
\* that call_tool does not list as definite (EVIDENCE_GAP) freezes as well.
ReportRejected(e) ==
    LET k == key[e] IN
    /\ pc[e] = "rejected"
    /\ IF status[k] = "PREPARED"
       THEN /\ status' = [status EXCEPT ![k] = "NOT_COMMITTED"]
            /\ generation' = [generation EXCEPT ![k] = @ + 1]
       ELSE UNCHANGED <<status, generation>>
    /\ Refuse(e) \/ Uncertain(e)
    /\ UNCHANGED <<intent, holds, ledger, epoch, locked, gateway, callVars>>

\* Mutant: the update of mark_unknown is not limited to PREPARED rows.
MarkAnyUnknown(e) ==
    /\ pc[e] = "raised"
    /\ status' = [status EXCEPT ![key[e]] = "RESULT_UNKNOWN"]
    /\ Uncertain(e)
    /\ UNCHANGED <<generation, intent, holds, ledger, epoch, locked, gateway, callVars>>

\* Mutant: an exception after the commit is taken for a definite failure.
MarkNotCommitted(e) ==
    /\ pc[e] = "raised"
    /\ Refuse(e)
    /\ UNCHANGED <<dbVars, gateway, callVars>>

\* mark_unknown, after the gateway lock is released.
MarkUnknown(e) ==
    LET k == key[e] IN
    /\ pc[e] = "raised"
    /\ status' = [status EXCEPT ![k] = IF @ = "PREPARED" THEN "RESULT_UNKNOWN" ELSE @]
    /\ Uncertain(e)
    /\ UNCHANGED <<generation, intent, holds, ledger, epoch, locked, gateway, callVars>>

\* call_tool: freeze_case, then RESULT_UNKNOWN to the Worker.
Freeze(e) ==
    /\ pc[e] = "freezing"
    /\ holds' = holds \cup (CaseChannels(req[e].case) \X {req[e].case})
    /\ Goto(e, "done")
    /\ UNCHANGED <<rows, ledger, epoch, locked, gateway, callVars, answer>>

\* The database refuses or drops the connection before a commit.  Only an
\* exception inside the third transaction finds an operation to mark;
\* mark_unknown and freeze_case log their own failure and go on.
DatabaseFails(e) ==
    /\ \/ /\ pc[e] = "ready"
          /\ GatewayFree(process[e])
          /\ Uncertain(e)
          /\ UNCHANGED gateway
       \/ pc[e] = "keyed" /\ LeaveGateway(e) /\ Uncertain(e)
       \/ pc[e] = "prepared" /\ LeaveGateway(e) /\ Goto(e, "raised") /\ UNCHANGED answer
       \/ pc[e] \in {"rejected", "raised"} /\ Uncertain(e) /\ UNCHANGED gateway
       \/ pc[e] = "freezing" /\ Goto(e, "done") /\ UNCHANGED <<answer, gateway>>
    /\ UNCHANGED <<dbVars, callVars>>

-----------------------------------------------------------------------------
(* Beside the calls *)

\* The task behind a call is cancelled, replaced or completed elsewhere, or
\* its case changes: the claim no longer matches.
RevokeClaim(e) ==
    /\ claim[e] = "ACTIVE"
    /\ claim' = [claim EXCEPT ![e] = "REVOKED"]
    /\ UNCHANGED <<dbVars, gateway, process, req, pc, key, seen, answer, fenced>>

RevokeCase(c) ==
    claim' = [e \in Calls |->
                IF req[e].case = c /\ claim[e] = "ACTIVE" THEN "REVOKED" ELSE claim[e]]

\* Mutant: only operations already marked unknown are reconciled.
ReconcileMarked(c) ==
    {k \in Key : status[k] = "RESULT_UNKNOWN" /\ intent[k].case = c /\ k[2] = epoch[c]}

\* Operations of the case in its current recording epoch.
Reconcilable(c) ==
    {k \in Key : /\ status[k] \in Unresolved
                 /\ intent[k].case = c
                 /\ k[2] = epoch[c]}

\* resume_case_run: one transaction under a gateway lock and the effect lock
\* cancels the tasks of the case, reconciles its operations, drops its holds.
Recover(c) ==
    /\ \E p \in Processes : GatewayFree(p)
    /\ ~locked
    /\ LET R == Reconcilable(c) IN
       /\ status' = [k \in Key |-> IF k \in R THEN "NOT_COMMITTED" ELSE status[k]]
       /\ generation' = [k \in Key |-> IF k \in R THEN generation[k] + 1 ELSE generation[k]]
       /\ fenced' = fenced \cup {e \in Calls : pc[e] = "prepared" /\ key[e] \in R}
    /\ holds' = {h \in holds : h[2] # c}
    /\ RevokeCase(c)
    /\ UNCHANGED <<intent, ledger, epoch, locked, gateway, process, req, pc, key, seen, answer>>

\* record_background_failure freezes the case of a run that died while it was
\* writing, verifying or rolling back.
BackgroundFailure(c) ==
    /\ holds' = holds \cup (CaseChannels(c) \X {c})
    /\ UNCHANGED <<rows, ledger, epoch, locked, gateway, callVars, pc, answer>>

\* Mutant: unresolved operations do not stop a re-preparation.
QuiescentTasksOnly(c) ==
    /\ ~locked
    /\ \A e \in Calls : pc[e] \in {"ready", "done"}
    /\ \A h \in holds : h[2] # c

\* assert_recording_quiescent, under the exclusive runtime lease: no request
\* or task of any case is in flight.
Quiescent(c) ==
    /\ ~locked
    /\ \A e \in Calls : pc[e] \in {"ready", "done"}
    /\ \A h \in holds : h[2] # c
    /\ \A k \in Key : status[k] \in Unresolved => intent[k].case # c

\* reprepare_case: a new recording epoch; the task rows of the case are gone.
Reprepare(c) ==
    /\ epoch[c] < MaxEpoch
    /\ Quiescent(c)
    /\ epoch' = [epoch EXCEPT ![c] = @ + 1]
    /\ RevokeCase(c)
    /\ UNCHANGED <<rows, holds, ledger, locked, gateway, process, req, pc, key, seen, answer, fenced>>

\* A process dies: its calls never answer and report nothing.
Kill(P) ==
    /\ pc' = [e \in Calls |->
               IF process[e] \in P /\ pc[e] # "ready" THEN "done" ELSE pc[e]]
    /\ gateway' = [p \in Processes |-> IF p \in P THEN {} ELSE gateway[p]]

Crash(p) ==
    /\ \E e \in Calls : process[e] = p /\ pc[e] \notin {"ready", "done"}
    /\ Kill({p})
    /\ UNCHANGED <<dbVars, callVars, answer>>

\* The lock is an environment variable: every writer restarts to change it.
SetRecoveryLock(b) ==
    /\ locked # b
    /\ locked' = b
    /\ Kill(Processes)
    /\ UNCHANGED <<rows, holds, ledger, epoch, callVars, answer>>

-----------------------------------------------------------------------------
Init ==
    /\ status = [k \in Key |-> "ABSENT"]
    /\ generation = [k \in Key |-> 0]
    /\ intent = [k \in Key |-> CHOOSE r \in Requests : TRUE]
    /\ holds = {}
    /\ ledger = [k \in Key |-> {}]
    /\ epoch = [c \in Cases |-> 0]
    /\ locked = FALSE
    /\ gateway = [p \in Processes |-> {}]
    /\ process \in [Calls -> Processes]
    /\ req \in [Calls -> Requests]
    /\ claim \in [Calls -> {"NONE", "ACTIVE"}]
    /\ pc = [e \in Calls |-> "ready"]
    /\ key = [e \in Calls |-> <<req[e].key, 0>>]
    /\ seen = [e \in Calls |-> 0]
    /\ answer = [e \in Calls |-> "NONE"]
    /\ fenced = {}

\* What a call does of its own accord.
CallStep(e) ==
    \/ Enter(e)
    \/ PrepareAnswers(e)
    \/ Prepare(e)
    \/ EffectRefused(e)
    \/ StoredResult(e)
    \/ CommitEffect(e)
    \/ HandlerRejects(e)
    \/ ReportRejected(e)
    \/ MarkUnknown(e)
    \/ Freeze(e)

Next ==
    \/ \E e \in Calls : CallStep(e) \/ DatabaseFails(e) \/ RevokeClaim(e)
    \/ \E c \in Cases : Recover(c) \/ BackgroundFailure(c) \/ Reprepare(c)
    \/ \E p \in Processes : Crash(p)
    \/ \E b \in BOOLEAN : SetRecoveryLock(b)

Spec == Init /\ [][Next]_vars

-----------------------------------------------------------------------------
(* Safety *)

\* An operation id posts at most once, whatever is retried, re-prepared after
\* recovery or interrupted between its transactions.
AtMostOnePosting ==
    \A k \in Key : \A x, y \in ledger[k] : x = y

\* The journal never disagrees with the ledger: exactly the COMMITTED
\* operations have posted, and what they posted is the intent written down,
\* not the parameters of a later call that reused the id.
LedgerMatchesJournal ==
    \A k \in Key :
        /\ status[k] = "COMMITTED" <=> ledger[k] # {}
        /\ \A x \in ledger[k] : SameRequest(x.request, intent[k])

\* An interrupted intent blocks its settlement channel: no second operation,
\* of this case or another, is ever open beside it.
OneUnresolvedPerChannel ==
    \A j, k \in Key :
        /\ status[j] \in Unresolved
        /\ status[k] \in Unresolved
        /\ intent[j].channel = intent[k].channel
        => j = k

\* Reconciliation skips operations of earlier recording epochs, so an
\* unresolved one may never be left behind by a re-preparation: its channel
\* would stay frozen for good.
UnresolvedIsReconcilable ==
    \A k \in Key : status[k] \in Unresolved => k \in Reconcilable(intent[k].case)

\* A call that was paused between intent and effect while its operation was
\* reconciled never posts, even if the operation was prepared again since.
FencedCallNeverPosts ==
    \A k \in Key : \A x \in ledger[k] : x.call \notin fenced

\* A success told to the Worker is in the ledger as asked; a definite error
\* told to the Worker means that this call posted nothing.
AnswersAreTrue ==
    \A e \in Calls :
        /\ answer[e] = "OK" => /\ ledger[key[e]] # {}
                               /\ SameRequest(req[e], intent[key[e]])
        /\ answer[e] = "REJECTED" => \A k \in Key : \A x \in ledger[k] : x.call # e

\* A committed operation is never reopened, an intent is never rewritten, and
\* no generation is handed out twice.
CommittedIsFinal ==
    [][\A k \in Key :
         /\ status[k] = "COMMITTED" => status'[k] = "COMMITTED" /\ ledger'[k] = ledger[k]
         /\ status[k] # "ABSENT" => intent'[k] = intent[k]
         /\ generation'[k] >= generation[k]]_vars

\* The journal implements the ledger it promises.
Promise == INSTANCE SettlementLedger WITH
    Ops <- Key,
    Intents <- Requests,
    ChannelOf <- [r \in Requests |-> r.channel],
    written <- {<<k, intent[k]>> : k \in {j \in Key : status[j] # "ABSENT"}},
    open <- {k \in Key : status[k] \in Unresolved},
    posted <- {k \in Key : ledger[k] # {}}

ImplementsPromise == Promise!Spec

-----------------------------------------------------------------------------
(* What the safety properties need to be inductive *)

\* A row belongs to its operation id, and an absent one has no generation.
RowsAreWhole ==
    \A k \in Key : IF status[k] = "ABSENT" THEN generation[k] = 0
                                           ELSE intent[k].key = k[1]

\* A call that goes on to write an intent has its own key in the current
\* epoch; one that goes on to the effect asked for the intent in its row.
CallsKnowTheirRow ==
    \A e \in Calls :
        /\ pc[e] = "keyed" => key[e] = <<req[e].key, epoch[req[e].case]>>
        /\ pc[e] = "prepared" => /\ status[key[e]] # "ABSENT"
                                 /\ SameRequest(req[e], intent[key[e]])
                                 /\ seen[e] <= generation[key[e]]

\* A fenced call is past writing an intent, and behind its row.
FencedCallsAreBehind ==
    \A e \in fenced :
        /\ pc[e] \notin {"ready", "keyed"}
        /\ pc[e] = "prepared" => seen[e] < generation[key[e]]

\* A call posts in its last transaction but its reports, and answers last.
PostingEndsTheCall ==
    /\ \A k \in Key : \A x \in ledger[k] : pc[x.call] \in {"raised", "freezing", "done"}
    /\ \A e \in Calls : answer[e] \in {"OK", "REJECTED"} => pc[e] = "done"

Inductive ==
    /\ AtMostOnePosting
    /\ LedgerMatchesJournal
    /\ OneUnresolvedPerChannel
    /\ UnresolvedIsReconcilable
    /\ FencedCallNeverPosts
    /\ AnswersAreTrue
    /\ RowsAreWhole
    /\ CallsKnowTheirRow
    /\ FencedCallsAreBehind
    /\ PostingEndsTheCall

-----------------------------------------------------------------------------
(* What the source says and the code does not do *)

\* "An old coordinator must never freeze a newly recovered run" (recovery.py):
\* an operation prepared again after a recovery is marked unknown only by a
\* call that prepared it in that generation.
OldCallNeverFreezesNewRun ==
    [][\A k \in Key :
         /\ status[k] = "PREPARED" /\ status'[k] = "RESULT_UNKNOWN"
         => \E e \in Calls : /\ pc[e] = "raised" /\ pc'[e] # "raised"
                             /\ key[e] = k /\ seen[e] = generation[k]]_vars

-----------------------------------------------------------------------------
(* Liveness *)

\* Calls run on threads that the scheduler does not starve, and a database
\* that is up answers.  Reconciliation is asked for by an approver: that one
\* keeps answering is an assumption about people, made only here.
LiveSpec ==
    /\ Spec
    /\ \A e \in Calls : WF_vars(CallStep(e))
    /\ \A c \in Cases : WF_vars(Recover(c))

\* Every call gets the lock of its gateway, although calls before it were
\* refused, failed or died inside, and comes back (or dies with its process).
EveryCallReturns ==
    \A e \in Calls : <>(pc[e] = "done")

\* Once the recovery lock is lifted for good, no operation stays unresolved and
\* no hold outlives the recoveries of its case.
RecoveriesClear ==
    <>[]~locked =>
        /\ \A k \in Key : status[k] \in Unresolved ~> status[k] \notin Unresolved
        /\ \A h \in Channels \X Cases : h \in holds ~> h \notin holds
=============================================================================
