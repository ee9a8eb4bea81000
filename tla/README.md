# RevGuard in TLA+

RevGuard handles revenue cases: a billing complaint arrives, a team of agents
normalises it, collects evidence, matches the policy, computes the difference
and its cause, rates the risk, and, when a person has approved, posts an
adjustment to the settlement ledger, verifies it independently and takes it back
if the verification fails. The agents are workers in Matrix rooms; the control
is in `src/revguard/*.py`, and it is the control that is modelled here.

Money is what makes the system hard. A call that posts an adjustment commits its
intent, its effect and its result in three transactions, may be interrupted
between any two of them, and may be retried or reconciled by a person while the
first attempt is still paused somewhere. Around it a case is driven by
background runs that hold a snapshot of the row across many awaits, hand their
stages to workers that answer late or never, and are replaced by other runs when
a person resumes the case. And what a case says, to an approver, an auditor or
the next run, is read from lists, replicas, rooms and chains that move while
they are read.

## Files

| file | what it is |
|---|---|
| `MoneyJournal.tla` | the money journal and the calls that use it, transaction by transaction |
| `SettlementLedger.tla` | what the money path promises: one operation at a time in doubt on a channel, an outcome decided once, a posting only out of an open intent |
| `CaseLifecycle.tla` | one case: its row, the runs that drive it, the tasks of its stages, the workers, the human decisions |
| `CaseInvariant.tla` | the inductive invariant of `CaseLifecycle`, in parts |
| `Settlement.tla` | the amounts: cases about one order, their differences, approvals, capabilities, postings, verification and reversal |
| `StageTasks.tla`, `TaskBounds.tla` | the tables of stage tasks and results, the executions that work on them |
| `TaskBook.tla` | what the task tables promise: one attempt at a time, a result that is final |
| `StageExchange.tla` | one stage between the coordinator, the Worker's room and agent, and the API |
| `HumanProof.tla` | people who sign in, decide and resume with a signed proof |
| `RuntimeBarrier.tla` | leases of requests, runs and workers, destructive actions, the deployment |
| `ReadersWriter.tla` | what the barrier promises: side by side, or one alone |
| `ApprovalBridge.tla` | approvals that are decided in the Matrix room or on the web |
| `ApprovalGate.tla` | what an approval promises: asked once, decided once |
| `Orchestrator.tla` | the in-process orchestrator under concurrent requests |
| `CaseVerdict.tla` | what a case promises to its readers: one granted plan posts, conclusions describe the ledger |
| `CommissionRules.tla` | policy versions and tiers, the rules, the comparison, the risk |
| `EvidenceReads.tla` | the reads behind a case's facts and the receipts a posting names |
| `ReadReplica.tla` | lists that are served by a replica, page by page |
| `AuditChain.tla` | the hash chain of audit rows |
| `MoneyJournalProofs.tla` | theorems of `MoneyJournal`, `SettlementLedger` and `AuditChain` |
| `CaseLifecycleProofs.tla` | theorems of `CaseLifecycle` |
| `SettlementProofs.tla` | theorems of `Settlement` |
| `RuntimeBarrierProofs.tla` | theorems of `RuntimeBarrier` and `ReadersWriter` |
| `ApprovalBridgeProofs.tla` | theorems of `ApprovalBridge` and `ApprovalGate` |
| `WorkflowProofs.tla` | theorems of `Orchestrator` and `CaseVerdict`, `StageTasks` and `TaskBook`, `CommissionRules` |
| `RoomProofs.tla` | theorems of `StageExchange` and `HumanProof` |
| `ReadsProofs.tla` | theorems of `EvidenceReads` and `ReadReplica` |
| `MC*.tla`, `*.cfg` | the instances that TLC checks; `RuntimeBarrier` and `AuditChain` are checked as they are |
| `PROJECT.json` | index: components, runs, mutants of every property, the source lines of every definition, hazards, findings, theorems |

`tlc -workers 2 -config MCMoneyJournal.cfg MCMoneyJournal` checks a run, `tlapm
MoneyJournalProofs.tla` a proof module. Every run takes less than five minutes.

## Inventory

Paths are under `src/revguard/`. "State" is what survives a call.

| component | state | operations | interacts with | modelled in |
|---|---|---|---|---|
| Money journal `money_journal.py` | operations (intent, status, generation, epoch), channel holds, recovery generation | prepare, begin effect, commit, not committed, mark unknown, freeze, reconcile | called by the gateway and by recovery, in their transactions | `MoneyJournal` |
| Tool gateway `mocks.py` | draft, approval, ledger and token-quota rows; saved receipts; an in-memory lock | `call` (validate, fence, effect, record), `decide_case_approval`, `reprepare_case` | journal, task guard, every worker | `MoneyJournal`, `Settlement`, `EvidenceReads` |
| Tool call wrapper `skills.py` | none | `call_tool`: classifies errors, freezes on an unknown result; `collect_evidence` | gateway, journal | `MoneyJournal`, `EvidenceReads` |
| Skills `skills.py`, `policy_matcher.py`, `rule_engine.py`, `risk.py` | none | match policy, calculate, compare, rate, approve, post, verify | gateway | `CommissionRules`, `Settlement` |
| Case state machine `state_machine.py`, `workflow_persistence.py` | case rows (revision, state version, status) | transition, compare-and-set write, `commit_case_stage`, `update_case_run` | every coordinator | `CaseLifecycle`, `Orchestrator` |
| Stage tasks `agent_bridge.py`, `task_guard.py`, `workflow_persistence.py` | task and result rows | dispatch, reassign, replace, claim, execute, complete, cancel | coordinators, workers, operators | `StageTasks`, `CaseLifecycle` |
| Matrix coordinator `matrix_team.py`, `mcp_team.py` | a snapshot of the case across awaits | `run_to_human_gate`, `execute_after_approval`, `resume_rollback`, `finalize_terminal`; per stage: clear, publish, trigger, poll, nudge, listen | state machine, stage tasks, rooms | `CaseLifecycle`, `StageExchange` |
| In-process orchestrator `orchestrator.py` | as above, without tasks | `run`, `execute_after_approval`, the simulated approver | state machine, skills | `Orchestrator` |
| HTTP API `api.py` | background tasks of this process | start, decide, resume, re-prepare, evidence, tasks, reset | everything | all of the above |
| Human proofs `hitl.py` | nothing on the server | sign in, verify, publish the intent | API, rooms | `HumanProof` |
| Human recovery `recovery.py` | none of its own | `resume_case_run`, `record_background_failure` | journal, state machine, stage tasks | `MoneyJournal`, `CaseLifecycle` |
| Runtime barrier `runtime_barrier.py` and deployment scripts | leases of this process, lock files, advisory locks, the fence file | shared and exclusive lease, handover, quiescence | API, workers, recovery | `RuntimeBarrier` |
| Approval bridge `matrix_approval.py` | sync position | announce, poll, decide from a reply | API | `ApprovalBridge` |
| Evidence and references `adapters.py`, `execution_reference.py` | receipts | paged reads, errors, the monitor of postings | gateway, ERPNext | `EvidenceReads` |
| Storage `storage.py`, `store.py`, `postgres_store.py` | tables, replica status | transactions, read routing, paging | everything | `ReadReplica`, and each module's transactions |
| Audit chain `migrations/polardb/001_core.sql` | audit rows and their hashes | append, verify, export | every transaction | `AuditChain` |

Not control of their own: data classes and settings, most of the MCP server (a
transport for the gateway), reports, traces and dashboards (views), the
signature algorithm, schema validation, the database high-availability scripts,
web clients.

**How it fits together.** The API reads a case, spawns a background task and
answers. The task is a coordinator: it reads the row and its recording, then for
every stage publishes a task, waits until a worker has claimed and completed it
or the stage times out, writes what the stage produced and moves the status with
a compare-and-set on the row. A worker claims a task, runs its Skill, and, for
the two Skills that move money, calls the gateway: intent, fence and effect,
result, each a transaction. If the gateway cannot tell what happened the worker
freezes the settlement channel and the case waits for a person. A person decides
approvals, in the room or on the web, resumes interrupted cases (which
reconciles what is in doubt, lifts the hold and starts a new generation) and
re-prepares closed ones. Requests, runs and workers hold shared leases of the
runtime barrier; reset, re-preparation of the recording and deployment hold it
alone. Without Matrix the same stages are run by the in-process orchestrator.

The modules divide this by what is shared. `MoneyJournal` has operations and no
cases' statuses; `CaseLifecycle` has the status and one step for a money
operation; `Settlement` has amounts and one step for a batch; `StageTasks` has
attempts and only the version of the case; `StageExchange` has messages and one
task per stage. Each takes from the next what that module shows of it.

**What is hard, and what makes each part correct.**

* *Journal and gateway.* A call paused between two transactions while a person
  reconciles the operation; a commit whose acknowledgement is lost; two
  processes on one channel; an operation id that is prepared again. Correct when
  an operation never posts twice, the ledger has posted exactly what the journal
  calls committed, nobody is told otherwise, and what is in doubt can be found
  and resolved.
* *Case and coordinators.* A snapshot that is out of date; a superseded run that
  goes on; a failure report that is late; a process that dies between a commit
  and the task it would start. Correct when a superseded run writes nothing, a
  case tells the truth about its money, and no approved case is stranded.
* *Tasks and workers.* A claim that is overtaken by a move of the case, a
  cancellation or a recovery; a command that is delivered twice; an answer that
  comes late or never; an adapter that gives up on a call that goes on. Correct
  when a task takes effect once, in its phase, with one result, and every run
  ends.
* *People.* A proof that outlives a restart or a re-preparation; a reply that is
  repeated, late or out of thread; two people who decide at once. Correct when
  what is done in a person's name is what that person meant, and each form is
  decided once.
* *Barrier and deployment.* A lease that is handed from a request to its
  background task; a room reply that is no request; a process that dies with its
  leases. Correct when requests and destructive actions exclude each other and
  no lock stays.
* *Reads.* Pages of a list that is modified meanwhile; measurements of a replica
  that overtake each other; receipts of several batches. Correct when nothing
  untouched is lost or counted twice and a posting names facts that agree.
* *Rules.* Credits and claw-backs that offset each other; a policy published
  later; components that one step counts and another does not. Correct when the
  past is stable, risk is monotone, and a correct posting passes verification.

The hazards are listed one by one, with their lines, in `PROJECT.json`.

## MoneyJournal

| in the model | in the code |
|---|---|
| `status`, `generation`, `intent` | `money_operations` rows, by operation id: status, generation, and the request the row was written for |
| `holds` | `money_holds`: a channel and the case that froze it |
| `ledger` | what has been posted under an operation id |
| `epoch` | `_recording_epochs` of the gateway, which the operation id ends in |
| `locked` | `REVGUARD_MONEY_RECOVERY_LOCK` |
| `gateway` | `ToolGateway._lock`, one per process: the call that holds it |
| `process`, `req`, `claim` | a call: where it runs, what it asks for, whether the task it claims is still its own |
| `pc`, `key`, `seen`, `answer` | the frame of `ToolGateway.call`: where it is, its operation id, the generation it prepared with; and what its caller learns |
| `fenced` | calls whose intent a recovery has invalidated (for the properties only) |

A transaction is one action: the code takes the journal's advisory lock
(`pg_advisory_xact_lock`, or `BEGIN IMMEDIATE` in SQLite) at its start, and a
second connection sees nothing of it before the commit. What lies between two
transactions is an interleaving point: `Enter` reads the epoch, `Prepare` writes
the intent, `CommitEffect` rechecks claim, lock and generation and commits effect
and result together, and the error paths (`ReportRejected`, `MarkUnknown`,
`Freeze`) come after it; each step may fail (`DatabaseFails`). An intent or an effect
that commits may lose its acknowledgement. The lock of the gateway is taken by
`Enter` and given back by whichever step leaves it, on its own (`LeaveGateway`): one
that does not (`RejectsInside`) keeps every later call of the process waiting, which
`EveryCallReturns` shows. A process may die at any point and loses its calls, its
lock and nothing else. `Recover` is asked for by a person.

`SettlementLedger` states what this amounts to for somebody who looks only at
operations, and `MoneyJournal` implements it: `ImplementsPromise` in TLC,
`JournalImplementsPromise` by proof.

Left out: ledger arithmetic, approval tokens and quotas (`Settlement`), and what
a handler returns.

## CaseLifecycle

| in the model | in the code |
|---|---|
| `status`, `runStatus`, `runStage`, `risk`, `approval`, `verification` | the case row, `team_run`, and the projections stored with it |
| `settle`, `reverse`, `hold`, `known` | the journal's two operations of the case, its hold, and whether the journal has a channel for it |
| `pc`, `job`, `stage` of a run | a background task: the step of the coordinator, its entry point, the Skill it waits for |
| `revisionOk`, `versionOk`, `generationOk` | whether the snapshot of a coordinator would pass the comparison with the row's revision, domain version and recovery generation |
| `task`, `bound`, `work` | the task row of the stage, whether its case version still matches, and what the worker is doing |
| `current` | history only: started by the latest recovery or preparation |

The code compares a remembered number with the row's and the row's never returns
to an old value, so the model keeps the outcome of the comparison: a write by
one clears the flag of all others. This makes the state space finite without a
bound on the number of writes, recoveries or re-preparations.

A run is a place that is used again when its last run and worker are gone.
`Home` says in which process it lives, because "is this case running" is asked
of the process's own task table (`_has_live_team_task`), while rows are shared.
The handlers `StartInvestigation`, `Decide`, `Resume` and `Reprepare` are the
API; a coordinator may `Raise` at any await (`Fail` is the path of the
investigation, `Unwind` and `Report` that of the others), may `Vanish` with its
process, and its worker may die. A stage deadline can expire at any time, the
ten minutes after which an execution counts as stale may have passed at any time.

Abstractions, and why they lose nothing the properties speak of:

* a money operation is one step to open it and one to end it, since its
  transactions are `MoneyJournal`'s;
* attempts of one task are sequential and carry no number (`StageTasks` has them);
* `IdempotencyGuardSkill` and the draft are the decision "found posted" in
  `Permitted`;
* the `save_case` that follows a verification or a rollback check is in the step
  that commits it, as it changes nothing a property reads; the first `save_case`
  of an investigation changes no domain field and is in `Handshake`;
* token counters, nudges, rooms and messages are `StageExchange`'s.

`WAITING_FOR_EVIDENCE` ends the model's case here, because evidence is resumed
with the in-process orchestrator (`Orchestrator`). The `MCP_TEAM` transport is
left out.

## Settlement

Cases about one order read one ledger at different times and write to it later.
`MoneyJournal` says that a posting happens once and `CaseLifecycle` that it
happens in its phase; here it has an amount.

| in the model | in the code |
|---|---|
| `ledger` | the net of the order's `POSTED` entries per component |
| `delta` | the deltas in `root_cause_report.diffs` |
| `quota` | `component_quota` of the approval |
| `capability` | what the token in the approval row still allows per component: its `component_quota` less `_token_consumed_by_component`, zero when it has expired |
| `posting` | a `LedgerAdjustSkill` under way whose task is open: it carries the token that was in the row when it was given to it (`hydrate_server_secrets`) |
| `late` | what the replaced tokens allow that postings under way still carry, whose tasks the recovery has cancelled |
| `ticket` | rollback tokens that can be used |
| `executed`, `own` | the case's executions and the amounts of their entries |
| `before`, `bare` | `before_snapshot` of the batch: its net amounts, and whether it is the empty list |
| `armed` | cases that the injected posting deviation (`REVGUARD_POSTING_TAMPER_AMOUNT`) will still hit |
| `verdict`, `confirmed` | `verification_status`, and whether `ROLLBACK_VERIFIED` was recorded |
| `live`, `snapshot` | a run drives the case; it still has the snapshot of its own reversal |

Amounts are integers (the code has `Decimal`, and only adds, negates and
compares them). A batch is posted or reversed in one action and a run may stop
before any action, since what happens inside a batch is `MoneyJournal`'s. A
recovered case hands over only when what it recorded is posted (`Posted`, the
check of `skill_runtime.py`). A recovery renews the token in the row and revokes
nothing: the earlier one stays valid until it expires, with its own counters, and
the two together may allow more than the approval. `AuthorityIsBounded` therefore
speaks of what has been charged and of the token in the row, which is the one that
every new posting is given. A posting that carries an earlier one stands in
`late`; the recovery has cancelled its task in the same transaction, and the claim
check in front of the effect (`Admitted`) is why it is not charged. Without it
(`AdmittedLate`) TLC finds the approval exceeded. `RESOLVED`, archiving and `CLOSED` are one status,
and the stages before the comparison are `CREATED`. `Expire` may take a token at
any time.

Left out: the deviation injected into one reading of the verifier (a second
reading follows it and decides), holds of the channel (`MoneyJournal`), failing
archives (`CaseLifecycle`), and calls of the gateway with a token by hand, outside
a task: no program of the repository makes them.

## StageTasks and TaskBook

| in the model | in the code |
|---|---|
| `version` | the domain version of the case; `Fitting` are the versions whose status allows the Skill |
| `status`, `attempt`, `bound`, `supersedes` | rows of `agent_tasks`: status, attempt, the version the row was made for, the task it replaces |
| `results` | rows of `agent_task_results`, one per task and attempt |
| `origin` | who is between its check and its write of the row: a dispatch, a reassignment |
| `step`, `job`, `claim` | an execution over REST or MCP: where it is, its task, the attempt and version it claimed |
| `effects` | history: tool calls that committed, with the task, attempt and version |

A coordinator writes a row in one step, an operator in two (the check that the
case allows the Skill, then the row), a reassignment in three (the check, the
new row, the cancellation of the old one); between them the case may move
(`DomainWrite`) and a recovery may cancel whatever is open (`CancelOpenTasks`).
An execution validates, claims, calls tools, each behind `assert_active_claim`,
and completes; the claim binds the version of the row, and a second execution of
the same task may be anywhere in this. `TaskBook` keeps of all that one status
and one attempt per task, and what the tables tell implements it (the mapping is
in `MCWorkflow`): `ImplementsTaskBook` in TLC, `TasksImplementTheBook` by proof.

Left out: what a result says; the agent's status, which nothing decides by; and
`transition_agent_task`, which only tests call.

## StageExchange

| in the model | in the code |
|---|---|
| `phase`, `seen`, `nudges` | `_invoke_transport` of `matrix_team.py`: which request it is at, what it last read of the task, how many nudges are left |
| `acked` | runs for which the room has a "History Cleared" after their cursor |
| `got`, `quoted` | the result that the stage returned, the reply recorded with it |
| `inbox`, `agent`, `asked` | the room, the agent's command, the call its adapter waits for |
| `row`, `call`, `ran` | the task row, the calls of the adapter in the API, and whether their Skill has taken effect |

The coordinator clears the Worker's history, publishes the task, sends the
command, polls, nudges, listens for the reply and measures the usage. Every
request to Matrix may fail although it was carried out (`RequestFails`), every
wait has a deadline (`GiveUp`), and the adapter stops waiting for a call that
goes on in the API (`Reply`). The notes made on the way (message ids, usage,
reply) are writes to the task row after its task may have ended. The API may die
at any point. What a handoff says, and what the agent writes besides the
adapter's answer, is left out: nothing acts on it.

## HumanProof

An assertion is the triple it binds: person, approval form, action. `SignIn` and
`Issue` are `hitl.py`; `Present`, `Publish` and `CommitDecision` are the decision
of `api.py`, which reads the case, sends the intent to the team room, waits, and
commits with a comparison to the row it read; `ResumeRun` and `DecideInRoom` act
at once. `valid` are the assertions that still verify (they expire after two
minutes, at any time here); `Redeploy` restarts the API with another allow-list;
`ReprepareCase` makes the case forget its form, not the assertions their own.
`logins`, `room` and `acts` are history. That a signature cannot be forged is
taken as given.

## RuntimeBarrier and ReadersWriter

| in the model | in the code |
|---|---|
| `lock`, `refs` | a resource (file handle with `flock`, or session with an advisory lock) and the number of leases that refer to it |
| `http`, `kind` | requests in the middleware: lease, fence, handler, response |
| `run`, `leaseOf`, `slot` | background tasks, the resource their lease refers to, `BACKGROUND_TEAM_TASKS` |
| `worker`, `workOf`, `orphan` | executions of stage tasks in processes of their own; `RUNNING` rows whose worker has died |
| `phase` | what `assert_recording_quiescent` reads of a case |
| `reply` | a room decision that is committed and not yet dispatched |
| `api`, `fence`, `op` | the container, the fence file, the deployment script |

A lease is taken at once or refused (`RuntimeBusy`); a request forks its lease
for the run it spawns, and the run's callback returns it. The bridge's replies
are no requests: neither lease nor fence is before their commit, and their run
takes a resource of its own. The deployment takes the barrier alone, writes the
fence, stops the API (which ends the process that holds the lease), seeds alone,
starts the API, and removes the fence alone and at rest. The script that holds the
barrier to stop the API runs in its container (`docker exec`): when the container
dies, its lease goes with it and the script fails, unless it has just been told that
all is quiet and stops the container that came up instead. A
worker is a process of its own and may die at any step. `ReadersWriter` has only who works and who works alone.

## ApprovalBridge and ApprovalGate

A run that reaches the gate publishes its request and then records it
(`SendRequest`, `RecordRequest`); the bridge reads a batch of messages, compares
each with the requests that were open when it came, and decides through the
transaction that the web uses. `row` and `before` are the case rows and what a
replica may still have of them; `direct` and `replica` are the two settings that
matter. Messages are decisions in reply to a request, or plain; others are left
out. The bridge may be restarted from its stored position at any step, and a
case may be prepared again under a request. `ApprovalGate` has only the request
and its one decision.

## Orchestrator and CaseVerdict

Requests run the stages of a case in parallel threads of one process; each has a
snapshot (`fresh`: it is still the row), a plan of its own, a form it holds. The
case row names a form (`stored`, `storedStatus`), the gateway has all of them
(`gate`), and the ledger has plans `posted` and `undone`. Any call may raise at
any step, and a request may die between any two. The simulated approver of the
demonstrations (`Modes`) decides in a commit of its own. Risk and routing come
from `CommissionRules`. `CaseVerdict` is what a reader relies on: one granted
plan posts at most, and a conclusion describes what was posted and reversed.

## CommissionRules

Pure operators: which version and tier applied on a day, what the policy pays
for an order, what the ledger lacks, whether the verification passes, how risky
it is. A list is a function from positions, so that two entries of one date keep
the order in which the code's stable sort leaves them. Formula strings are
values; an amount is a number of the finest fractions it may have, and is
rounded to units as the policy says.

## EvidenceReads

One batch reads all sources in parallel, one at a time in the gateway; the call
for refunds fetches page after page by offset from a list ordered by
modification time while people change it (`Touch`, `Reassign`). `ReadFails` is an
error the adapter maps to a gap and the wrapper may retry, `ReadIsTorn` one it
does not map. A read leaves a receipt in the saved state; `Submit` is a posting
that the monitor accepts when it finds receipts for the order, its contract and
its ledger. `ReadApart` is a read outside the batch, `Restart` a death of the
process and what it loads again.

## ReadReplica and AuditChain

`ReadReplica`: callers measure the lag of a replica without a lock and publish in
any order; a client pages through the cases, newest first, each page from the
primary or the replica; cases move meanwhile. `AuditChain`: the number of a row is
drawn before the trigger takes the lock of the chain, transactions of the
journal have taken another lock before that and others have not.

## Runs

| run | what it shows |
|---|---|
| `journal` | two calls in two processes, two cases on one channel, one re-preparation per case: the journal and the ledger agree, whatever is in doubt can be reconciled, a fenced call never posts, answers are true, and `SettlementLedger` is implemented |
| `journal_live` | every call gets the lock of its gateway and returns, whatever became of the calls before it, and each recovery of a case leaves neither an operation in doubt nor a hold behind |
| `case` | two processes that do not see each other's runs: money follows approval, the case tells the truth, claimable tasks fit the status, nothing posts outside its phase, superseded runs write nothing, whatever was interrupted can be taken up |
| `case_live` | every run ends; an operation in doubt and an approved case in recovery are taken up |
| `settlement` | two cases about one order without rows, with a component that does not apply, a posting deviation of one that the other may find, interruption, expiry, recovery with replaced tokens under way and re-preparation: authority is bounded, nothing unverified stays, reversals are verified, correct adjustments pass |
| `settlement_live` | one case on an order without rows, with a component that does not apply: what passes is the order's due, and an approved settlement comes to rest although tokens expire |
| `barrier` | a request at a time, two runs, a worker, room replies and the deployment exclude each other like readers and a writer, and every lock is let go of |
| `approval` | two approvals, of two cases or of one that is prepared again, two messages and a web decision: the room is told the truth, what it decides was meant, each form is decided once, a reply in time counts or is overtaken |
| `workflow` | three topics. Three requests to the in-process orchestrator: one granted plan posts, samples are true, what waits can be decided. Two tasks and two executions: the tables implement `TaskBook`. The rules on all small inputs: the past is stable, risk never falls, settling settles |
| `room` | two topics. Two runs that share a Worker and its room: a task takes effect once and a stage returns that result. Two people and two requests: acts are proven |
| `reads` | two topics. A case that reads and posts while ERPNext changes: untouched refunds count once, references agree. A client that pages through cases while a replica catches up: its reads are recent, settled cases are listed once |
| `audit` | finding: two writers of one case's audit chain |

A run with topics explores, from each initial state, one of its systems while the
others rest: what it says of each is what a run of its own would say.

Beside the runs there are configurations for what the code does not guarantee
(Observations, below).

**Bounds and why they are enough.**

* *journal.* `MaxEpoch` is the only numeric bound: an operation's key has the
  epoch, so an old epoch matters only as "not the current one", for which two are
  enough. Every race in the journal is between a call and at most one other actor
  over one operation or one channel: two calls cover it (the proofs are for any
  number). A run has one call that is `Settle`; any other pair of requests
  is such a pair with keys, cases or digests renamed (`SpecOfPairs`).
* *case.* A case is driven by a run and the one that overtakes it; a third
  behaves towards the second as the second towards the first, since a superseded
  run can only be told by its flags. For liveness the places of runs, which are
  alike, are taken in order, and the case is prepared once (`LiveSpecOfOnce`): a
  case that is prepared again is quiet and starts over as it started, but for what
  the journal knows of its channel. The run `case` is under neither restriction.
* *settlement.* Two components are the least of which one can be wrong and the
  other right, the third is one whose conditions the order does not meet although
  the policy names an amount for it, and two cases are the least of which one reads
  what the other has written. The order starts without rows: the case that posts
  first has an empty snapshot, the one that posts after it has not, and what the
  injected deviation has overpaid the other finds and corrects. `MaxRecordings` bounds re-preparations: without it two cases that
  correct each other's unverified postings and are prepared again let amounts
  grow for ever.
* *barrier.* A lease is shared by a request and the run it spawns; the second
  run, with a lease of its own or of a later request, and the worker are those who
  come between, and one case is the one whose slot they contend for.
* *approval.* `MaxApprovals` and `MaxMessages` are two: a reply can be taken for
  the other approval or overtaken by the other message. `MaxRecordings` is one,
  so that an approval may be of the recording before. `MaxTurns` allows four of
  these and of forms that lapse in one behaviour: two approvals and two replies,
  or one of each, a lapse and a re-preparation.
* *workflow.* Two requests race for a case, the third finds what they left. There
  is one finding for each level of risk. Two tasks and two executions let one
  replace or overtake the other; three versions let the case leave the Skill's
  statuses and return to them, and `MaxAttempts` allows two retries. Lists of
  three versions over five days have a position before, between and after for the
  version that is published; two rules and three components allow a component that
  is paid twice, one that is not paid and one the policy does not know.
* *room.* `MaxNudges` is one and `MaxCalls` two: the command is delivered twice,
  and a retried task runs twice; `MaxEvents` allows one death of the API or one
  message that the agent passes over. Two forms, two assertions and one restart
  let a proof be of the form before, of the other person or of the old list.
  `MaxTurns` is three: a nudge, the second call that it leads to and a death of the
  API in between, or three of form, assertion and restart.
* *reads.* Two returns on pages of one record let one be moved across the
  boundary either way by the one change that `MaxChanges` allows. Two cases on
  pages of one, and a third commit that moves one of them; seven ticks hold a
  measurement of `MaxLag`, an answer that lives for `Interval` and a call of
  `CallTime` one after the other, which is how old a read may be.

Permutations of calls, of runs, of requests and of people are symmetries where
nothing tells them apart; liveness is checked without symmetry.

Deadlock is not checked: a system whose calls have returned, whose cases are
closed and that nobody asks for anything stops. What must not stop is stated as
liveness.

**Fairness.** `journal_live`: a call that has started goes on (threads of a
running process), a stopped process's calls end, and the approver resumes: the
last is an assumption about a person, without which nothing in doubt is resolved
by design. `case_live`: coordinators are tasks of a running event loop and wait
at most until the stage deadline; a worker need not claim anything, but a call
that one did claim returns or dies; the approver resumes. Nothing is assumed of
messages, and crashes need not stop. `settlement_live`: no step of a run
is interrupted for ever (strong fairness: crashes and timeouts are failures, not
a scheduler), nor does each token expire before the posting it is given to, and
the approver resumes.
`barrier`: requests that were admitted, runs, their callbacks and workers go on,
and the deployment does, since its script either takes its next step or fails;
nothing is assumed of who asks for what.

Every property of a passing run has a mutant in `PROJECT.json`: a plausible bug
in a modelled definition under which TLC finds that property violated.

## What is proved

The assumptions are those the modules declare: keys and channels are functions
of requests, the bounds are numbers, `Home` maps runs to processes, places of
different kinds are different. Nothing is assumed finite, unless stated.

*MoneyJournalProofs.* `AtMostOnePosting`, `LedgerMatchesJournal`,
`FencedCallNeverPosts` and `AnswersAreTrue` are not inductive: whether a call
may post depends on what it remembered when it prepared. `Inductive` adds that a
row belongs to its operation id and an absent one has no generation
(`RowsAreWhole`); that a call about to write an intent has its own id in the
present epoch, and one about to have its effect asked for what its row says, in a
generation that is not ahead of the row's (`CallsKnowTheirRow`); that a fenced call
is behind its row (`FencedCallsAreBehind`); and that a call posts in its last
transaction but its reports, and answers last (`PostingEndsTheCall`). From it follow

* `TypeCorrect`, `InductiveInvariant`;
* `JournalIsTruthful`, `NothingLeftBehind`, `FencingIsSound`, `AnswersAreSound`:
  the invariants of `journal`;
* `NoDoublePosting` and `ChannelIsSerial`: what `journal` checks only as a part
  of `ImplementsPromise`;
* `CommitIsFinal`: a committed operation is never changed;
* `JournalImplementsPromise`: `Spec => Promise!Spec`, step by step.

*CaseLifecycleProofs.* The safety properties of `CaseLifecycle` depend on what
actors remember. `CaseInvariant` says what each may rely on, in this order:

* a coordinator writes only with the present revision, and a snapshot of the
  present revision is of the present version and generation (`ViewIsSound`);
* such a coordinator finds the case where it has brought it itself
  (`PlaceIsSound`, `RunIsSound`), so each write makes the row and the projections
  stored with it true (`RowIsSound`, `MoneyIsSound`);
* a claim that is still active is for the present domain version, so its Skill
  fits the status of the case (`WorkIsSound`), and the operation a worker has
  opened is the one the row has in doubt (`EffectIsSound`);
* whatever is approved and not finished has a run that is active or has been
  reported (`ProgressIsSound`), which is what `resume_interrupted_team_run` asks.

`CaseInductive` proves them together; `CaseTypeCorrect`, `MoneyFollowsApproval`,
`OutcomeIsTold`, `ClaimsFitTheCase`, `DoubtIsResumable`, `EffectsStayInPhase`,
`TransitionsStayInTable` and `SupersededRunsAreSilent` follow.

*SettlementProofs.* `PhaseIsSound` says, for each status, whether the case has
postings and what the verifier has said: it is what makes "closed" mean
"verified" through interruptions. `ReversalIsSound` adds that only a reversal on
an order without rows can end unverified, and then in `FAILED`; `FailureIsSound`
that what failed left a component or the total wrong. The limits need no more than
their own invariant: a renewal starts from what the drafts say was used, not from
the token, and only a call whose task is open is charged (`OnlyRowIsCharged`).
`SettlementInductive` proves them; `SettlementTypeCorrect`,
`AuthorityStaysBounded`, `OnlyVerifiedStays` and `ReversalsAreVerified` follow for
all constants. That a rollback interrupted between reversal and verification takes
the empty snapshot of an order without rows for a missing one
(`mcp_team.py:542-549`) is the one way in which a reversal stays unverified. `OthersStayUntouched`
adds that a component which does not apply keeps what the order had been paid for it,
so that what the verifier counts beside its checks is known before any case
begins (`Settled` is the order with every component that applies put right).

Three theorems have a hypothesis that the code needs:

* `CorrectAdjustmentsPass`: `Settled` adds up to the order's due, that is, what was
  paid for components that do not apply adds up to nothing.
* `NothingPassesBesideOthers`: it does not. Then no adjustment of the order ever
  passes, however many cases, recoveries and re-preparations there are: the
  hypothesis of `CorrectAdjustmentsPass` is exactly what the verifier needs, and
  `MCSettlementExtra.cfg` is its smallest instance.
* `SoleCaseSettles`: the order has one case and was paid only for components that
  apply. Then `SettledIsEntitled` holds; `MCSettlementDirty.cfg` shows what three
  cases do to it.

*WorkflowProofs, the tasks.* The refinement of `TaskBook` needs the two tables to
agree and each claim to be of one execution. `Inductive` of `StageTasks` says so:
an attempt that an execution holds is the row's latest or has been taken from it,
and nobody else holds it (`AttemptsHaveOneExecution`); results are of attempts
that were made, and only the last one is final (`ResultsMatchTasks`); a row nobody
has written is blank (`NewRowsAreBlank`); an effect is of the version its task was
made for (`EffectsFitTheTask`). `TasksAreInductive` proves it, one lemma per
action; `TablesAgree` and `TasksImplementTheBook` (`T!Spec => ImplementsTaskBook`)
follow, for any tasks, executions, versions and bounds.

*WorkflowProofs, the orchestrator.* Everything hangs on which request still has
the row as it is (`fresh`). That is not always one: several may have read a case
that is created, lacks evidence or waits, and only in those statuses
(`OneIsFresh`). A request that has the row finds the case where its own step has
left it (`PlaceIsSound`) with its own report in it (`ReportIsSound`); from a
decision to the sample there is such a request or nobody works (`OwnersAreFresh`).
`PlanIsSound` and `FormsAreNew` say that what it carries out is what the report
says and its form allows, and that a form is asked for once; `WaitingIsSound`,
that while the case waits only the run that asked and those who decide can write
it. `LedgerIsSound` gives, for each status, what has been posted and reversed,
`WorkIsSound` the same for the step of the request that is at it. `WorkflowInductive`
proves them together, for any requests, modes and findings;
`WorkflowSamplesAreTrue`, `WorkflowWaitingCanBeDecided` and
`WorkflowImplementsCaseVerdict` follow.

*WorkflowProofs, the rules.* The prover cannot instantiate an induction over data,
so the laws of sums that the rules need are proved from a smallest counterexample:
the natural numbers are well founded, so a set of subsets of a finite set that is
not empty has one none of whose smaller subsets is in it (`SmallestSet`). It gives
that what `SumFunctionOnSet` chooses exists and is unique (`RunningExists`,
`RunningIsUnique`), and from that a sum may begin with any of its terms
(`SumFromAny`), is monotone, splits over disjoint sets and does not depend on the
names of its terms. `PostingTheDeltasSettles` says for any lines and any ledger when
posting the deltas makes the verification pass; `WorseIsNoLower` compares two
findings with any number of deltas; `PublishingKeepsThePast` takes a list of any
length with a version inserted anywhere in it, and shows that the choice of a day
moves with its version (`ChoicesMove`) and stays the only one (`ChoicesAreUnique`).
`DeltasSettle`, `RiskDoesNotFall` and `ThePastIsStable` apply them to the inputs of
the run.

*ApprovalBridgeProofs.* What the bridge decides depends on a batch it fetched, on
the requests it knew when it fetched it, and on a row it has read since.
`ApprovalsFitTheirCase` ties an approval to the recording and the status of its
case, `RecordedIsSent` and `KnownIsSent` a recorded request to the room,
`NotesAreKept` what was noted of a message to what can still be read of its
request. `DecisionsAreBehind` says that the bridge has answered, or is about to,
for each message it has decided by; `TakenIsMeant`, that the reply in its hands
counts for the approval it has taken; `BatchIsComplete`, that a reply to a request
that is still open is a reply to one it knows. `BridgeInductive` proves them;
`BridgeAnswersAreTrue`, `BridgeRoomDecisionsAreMeant`, the action property
`BridgeTimelyRepliesCount` and the refinement `BridgeImplementsApprovalGate`
follow.

*RoomProofs.* For a stage: one call works on a task at a time, under its row, and
what it has done while the row says `RUNNING` is all that was done (`WorkedOnce`);
a row that is not written has no calls (`NewTasksAreQuiet`); a coordinator past its
poll has the result of the row (`SuccessIsKept`). Hence `StageHasOneEffect`, for any
runs, nudges, calls and losses. For a person: a request between its check and its
commit carries a proof that was issued, to one who may still act, and, if the row
is as it was read, for the form of the row (`RequestIsProven`). Hence
`PersonsActsAreProven`.

*ReadsProofs.* `PagesAreBehind` is why offsets work for what is not touched: a
record only moves to the end, all others only move up, so what has been fetched
and not touched is behind the next offset, and if nothing was touched what was
fetched is the list so far. `RefundsAreCountedOnce` follows, and
`PostingsNameOneRelation` from the way the monitor chooses (receipts are only
added, so that a posting keeps what it named). For the replica, a measurement is
worth what it was when its call began, wherever the call is now (`CallIsTrue`), and
so is the cached answer (`CacheIsTrue`): the lag a reader may meet is the sum of
the three bounds (`ReplicaListsAreRecent`). `WalkIsTrue` says that a case to which
nothing has happened since the walk began is listed once exactly when the cursor
has passed its row; its row is the same in all that the replica and the primary
know (`RowStays`), a page is an initial segment of what remains and its last row
the cursor (`PageTurns`), so that `WalksListSettledCasesOnce` holds for pages of
any size from any mixture of the two. Cases are finitely many.

*MoneyJournalProofs, the audit chain.* `GuardedChainVerifies`: if every writer takes
the journal's lock before it draws a number, the chain verifies, for any number of
writers and rows. The invariant is that a number drawn is larger than every row
there is. The hypothesis is what the finding is about.

*RuntimeBarrierProofs.* What makes the barrier work is a count: the references of
a resource are the leases that refer to it (`LeasesAreCounted`), a resource is
locked as long as it has one (`LocksAreHeld`), and the lock fits the use
(`LocksFitTheirUse`). `RunsAreNotWorkers` says whose resource a run may borrow,
`StoppedIsSilent` what a container that is stopped cannot have. One lemma for each
way in which references change (taken, returned, dropped with a process, handed
to a run) carries the count through every action. `BarrierInductive`,
`BarrierImplementsReadersWriter` (`Spec => Barrier!Spec`) and
`MaintenanceStaysClosed` are for any number of requests, workers and cases, and
any finite number of runs.

**Only model-checked.** Liveness (`EveryCallReturns`, `RecoveriesClear`,
`EveryRunEnds`, `DoubtEnds`, `ApprovedComesToRest`, `LocksAreReleased`): fairness and
`ENABLED` are outside the prover. Every other property of a passing run is stated
by a theorem, `CorrectAdjustmentPasses` and `SettledIsEntitled` under the
hypotheses above.

## Finding

`audit`: `verify_audit_chain` walks the rows by number, the trigger links them in
the order in which transactions take the chain's lock, and the number is drawn
before it (`001_core.sql:86`). Two appends at the same time leave a chain that is
reported as broken although nobody has touched it. Transactions of the journal
are serialised by their own lock before, those that claim, complete, replace or
cancel an agent task among them; `store.audit` appends in a transaction that does
not take it.

## Observations

What the code does not guarantee, and the configuration that shows it:

* `MCMoneyJournalOldCall.cfg`: a late report of a call fenced by a recovery turns
  the operation its successor has just prepared again into `RESULT_UNKNOWN`
  (`money_journal.py:215` compares the status, not the generation).
* `MCCaseLifecycleInterrupted.cfg`: an investigation that dies in the middle is
  shown as interrupted and "continue" is refused, because the proof of the person
  names an approval (`api.py:536`) and only execution statuses are resumable.
* `MCCaseLifecycleOldRun.cfg`: a rollback resumed twice in two processes; the
  first coordinator starts late, reads the second's generation and freezes the
  case under it (`api.py:378`).
* `MCCaseLifecycleHold.cfg`: a worker that outlived its run freezes the channel
  after the recovery lifted the hold (`skills.py:54`); the case closes, the hold
  stays and no operation can lift it.
* `MCSettlementDirty.cfg`: the verifier compares with the snapshot that the
  executor recorded when it posted (`mocks.py:629`), which may contain another
  case's posting that is reversed later; all remaining postings have passed and
  the order has less than its due.
* `MCSettlementExtra.cfg`: the verified total counts rows of components that do
  not apply (`skills.py:483`), so a correct adjustment of such an order is
  reversed; `NothingPassesBesideOthers` proves it for every such order.
* `RuntimeBarrierMaintenance.cfg`: until its acceptance a new API answers no
  writing request, but a reply in the room decides and starts a run
  (`docs/deployment.md:26`).
* `MCApprovalBridgeOther.cfg`: with unthreaded replies allowed, a reply to a
  request that is not recorded yet counts for the one that is open.
* `MCReadsGaps.cfg`: an answer that breaks off, a number that cannot be read or a
  missing field is not mapped to an adapter error (`adapters.py:198-214`) and
  ends the batch, not the source, although such errors are to be evidence gaps
  (`adapters.py:4-6`).
* `MCReadsReplaced.cfg`: a posting names the latest receipts of the case, which
  need not be those its amount came from (`docs/execution-reference-monitor.md:34-35`).

And what the models show without a configuration of their own:

* *Tasks.* A cancelled task may be replaced twice, and only the last replacement
  is named in its row; a `RUNNING` task whose worker has died can only be
  cancelled; after a stage deadline its task stays claimable, so a stage that has
  failed may still have its effect, which the claim fences to its phase.
* *Exchange.* Any "History Cleared" of the Worker counts as the acknowledgement
  of a run; the usage of a stage includes that of other runs on the same Worker;
  the recorded reply may be one that reports a failure.
* *People.* An assertion is not used up: the status of the case is what stops a
  second decision. Its expiry is checked before the intent is published, and an
  intent in the room may have no decision.
* *Approvals.* A bridge whose task ends on an unexpected error is not started
  again; replies that are further back than one limited sync are passed over.
* *Orchestrator.* A failure after `RESOLVED` turns a case to `FAILED`; an
  exception in the approval path of the API leaves `EXECUTING`; a failing ticket
  in an escalation fails a case that was waiting.
* *Cases.* A failure while a resolved case is archived moves it from `RESOLVED`
  to `FAILED`; a decision made while the run that asked for it is still ending is
  committed and its execution must be resumed by hand.
* *Reads.* A call to ERPNext holds the gateway over all its pages; receipts
  outlive a re-preparation.

## Plan

In order of what matters to the system, with what has been done:

1. `MoneyJournal`, `SettlementLedger`: modelled, checked, proved.
2. `CaseLifecycle`: modelled, checked, proved.
3. `Settlement`: modelled, checked, proved.
4. `StageTasks`, `TaskBook`: modelled, checked, proved.
5. `RuntimeBarrier`, `ReadersWriter`: modelled, checked, proved.
6. `AuditChain`: modelled; its chain proved for guarded writers.
7. `Orchestrator`, `CaseVerdict`; `ApprovalBridge`, `ApprovalGate`: modelled,
   checked, proved.
8. `StageExchange`, `HumanProof`; `EvidenceReads`, `ReadReplica`: modelled, checked,
   proved.
9. `CommissionRules`: modelled, checked, proved.
10. Not begun: the `MCP_TEAM` transport as a coordinator of its own.

## Not modelled, and why

Liveness stays with TLC. Signature
algorithms, schema validation, HTTP clients beyond the ERPNext adapter, views,
traces, user interfaces and agent prompts have no control of interest here.
Intake (normalising names and dates) is data. The database's own replication and
the shell loops that promote a standby (`ops/polardb-ha/`) are taken as given: a
transaction commits once or not at all. To say more, the external database would
have to be modelled, which is not in the repository.
