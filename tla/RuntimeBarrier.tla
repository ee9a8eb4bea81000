--------------------------- MODULE RuntimeBarrier ---------------------------
(***************************************************************************)
(* The runtime barrier: leases of requests, of the background runs they    *)
(* spawn and of workers, the destructive actions that must not overlap     *)
(* them, and the deployment that closes the API, replaces it and opens it  *)
(* again.                                                                  *)
(*                                                                         *)
(* A lease is a reference to a resource: a file handle with a flock, or a  *)
(* database session with an advisory lock.  A resource is named by its     *)
(* owner, the place that acquired it.  A request hands its resource on to  *)
(* the run it spawns; a reply in the Matrix room is not a request, and its *)
(* run acquires a resource of its own.                                     *)
(***************************************************************************)
EXTENDS Naturals, FiniteSets

CONSTANTS
  Requests,    \* places for HTTP requests of the API process
  Runs,        \* places for background team tasks of the API process
  Workers,     \* places for StageTask executions, in processes of their own
  Operator,    \* the deployment script
  Cases,
  NoOne

ASSUME PlacesAreDistinct ==
  /\ Requests \cap Runs = {}
  /\ Requests \cap Workers = {}
  /\ Runs \cap Workers = {}
  /\ Operator \notin Requests \cup Runs \cup Workers
  /\ NoOne \notin Requests \cup Runs \cup Workers \cup {Operator}
  /\ NoOne \notin Cases

ASSUME RunsAreFinite == IsFiniteSet(Runs)
ASSUME CasesExist == Cases # {}

Owners == Requests \cup Runs \cup Workers \cup {Operator}

VARIABLES
  lock,      \* how each resource is locked
  refs,      \* the reference count of each resource
  http,      \* the step of each request
  kind,      \* what the request asks for
  run,       \* the state of each background task
  leaseOf,   \* whose resource the lease of a run refers to
  caseOf,    \* the case of a run
  slot,      \* BACKGROUND_TEAM_TASKS
  worker,    \* the step of each execution
  workOf,    \* the case of its task
  orphan,    \* cases with a RUNNING task whose worker has died
  phase,     \* at rest, waiting for an approval, or at work
  reply,     \* the case of a room decision that is not yet dispatched
  api,       \* the API container
  fence,     \* the deployment fence
  op         \* the step of the deployment

places  == <<http, kind>>
tasks   == <<run, leaseOf, caseOf, slot>>
workers == <<worker, workOf, orphan>>
deploy  == <<api, fence, op>>
vars    == <<lock, refs, places, tasks, workers, phase, reply, deploy>>

Kinds       == {"read", "write", "reset"}
HttpSteps   == {"idle", "leased", "serving", "clearing", "closing"}
RunStates   == {"none", "active", "ended"}
WorkerSteps == {"idle", "leased", "executing"}
Phases      == {"rest", "waiting", "work"}
OpSteps     == {"idle", "holding", "quiet", "stopping", "stopped", "fenced",
                "seeding", "seeded", "started", "accepting"}

\* The steps at which the deployment holds the exclusive lease.
OpHolds == {"holding", "quiet", "seeding", "accepting"}

TypeOK ==
  /\ lock \in [Owners -> {"free", "shared", "exclusive"}]
  /\ refs \in [Owners -> Nat]
  /\ http \in [Requests -> HttpSteps]
  /\ kind \in [Requests -> Kinds]
  /\ run \in [Runs -> RunStates]
  /\ leaseOf \in [Runs -> Owners]
  /\ caseOf \in [Runs -> Cases]
  /\ slot \in [Cases -> Runs \cup {NoOne}]
  /\ worker \in [Workers -> WorkerSteps]
  /\ workOf \in [Workers -> Cases]
  /\ orphan \subseteq Cases
  /\ phase \in [Cases -> Phases]
  /\ reply \in Cases \cup {NoOne}
  /\ api \in {"up", "stopped"}
  /\ fence \in BOOLEAN
  /\ op \in OpSteps

Init ==
  /\ lock = [o \in Owners |-> "free"]
  /\ refs = [o \in Owners |-> 0]
  /\ http = [q \in Requests |-> "idle"]
  /\ kind = [q \in Requests |-> "read"]
  /\ run = [r \in Runs |-> "none"]
  /\ leaseOf = [r \in Runs |-> r]
  /\ caseOf \in [Runs -> {CHOOSE c \in Cases : TRUE}]
  /\ slot = [c \in Cases |-> NoOne]
  /\ worker = [w \in Workers |-> "idle"]
  /\ workOf \in [Workers -> {CHOOSE c \in Cases : TRUE}]
  /\ orphan = {}
  /\ phase = [c \in Cases |-> "rest"]
  /\ reply = NoOne
  /\ api = "up"
  /\ fence = FALSE
  /\ op = "idle"

-----------------------------------------------------------------------------
\* Resources and leases.

CanShare == \A o \in Owners : lock[o] # "exclusive"
CanOwn   == \A o \in Owners : lock[o] = "free"

\* Try once: where the lock is not to be had the caller is told RuntimeBusy
\* and nothing has changed.
Acquire(o, mode) ==
  /\ IF mode = "exclusive" THEN CanOwn ELSE CanShare
  /\ lock' = [lock EXCEPT ![o] = mode]
  /\ refs' = [refs EXCEPT ![o] = 1]

\* A lease of the same resource: only a live shared lease can be forked.
Fork(o) ==
  /\ lock[o] = "shared"
  /\ refs' = [refs EXCEPT ![o] = @ + 1]
  /\ UNCHANGED lock

\* The last reference closes the handle or the session, and with it the lock.
CloseLease(o) ==
  /\ refs' = [refs EXCEPT ![o] = @ - 1]
  /\ lock' = [lock EXCEPT ![o] = IF refs[o] = 1 THEN "free" ELSE @]

-----------------------------------------------------------------------------
\* Requests.

\* The middleware takes the lease before anything else.  A place is used
\* again when the run that took over its resource has returned it.
Admit(q, k) ==
  /\ api = "up"
  /\ http[q] = "idle"
  /\ lock[q] = "free"
  /\ Acquire(q, IF k = "reset" THEN "exclusive" ELSE "shared")
  /\ http' = [http EXCEPT ![q] = "leased"]
  /\ kind' = [kind EXCEPT ![q] = k]
  /\ UNCHANGED <<tasks, workers, phase, reply, deploy>>

\* Then it looks for the fence, under the lease: a request that does more
\* than read is answered 503 when there is one.
CheckFence(q) ==
  /\ http[q] = "leased"
  /\ http' = [http EXCEPT ![q] =
                IF fence /\ kind[q] # "read" THEN "closing" ELSE "serving"]
  /\ UNCHANGED <<lock, refs, kind, tasks, workers, phase, reply, deploy>>

\* A handler that spawns nothing.  A rejection lets a waiting case rest.
Handle(q) ==
  /\ http[q] = "serving"
  /\ kind[q] # "reset"
  /\ http' = [http EXCEPT ![q] = "closing"]
  /\ \/ UNCHANGED phase
     \/ /\ kind[q] = "write"
        /\ \E c \in Cases :
              /\ phase[c] = "waiting"
              /\ phase' = [phase EXCEPT ![c] = "rest"]
  /\ UNCHANGED <<lock, refs, kind, tasks, workers, reply, deploy>>

\* A task of this process that has not finished.
Live(c) == slot[c] # NoOne /\ run[slot[c]] = "active"

\* _spawn_team_background: the task enters the slot of its case, where one
\* that has finished may still wait for its callback.
Spawn(c, r, o) ==
  /\ ~Live(c)
  /\ run[r] = "none"
  /\ run' = [run EXCEPT ![r] = "active"]
  /\ leaseOf' = [leaseOf EXCEPT ![r] = o]
  /\ caseOf' = [caseOf EXCEPT ![r] = c]
  /\ slot' = [slot EXCEPT ![c] = r]

\* Mutant: the run uses its parent's lease without a reference of its own.
DispatchUnforked(q, c, r) ==
  /\ http[q] = "serving"
  /\ kind[q] = "write"
  /\ Spawn(c, r, q)
  /\ phase' = [phase EXCEPT ![c] = "work"]
  /\ orphan' = orphan \ {c}
  /\ http' = [http EXCEPT ![q] = "closing"]
  /\ UNCHANGED <<lock, refs, kind, worker, workOf, reply, deploy>>

\* Start, decide and resume: the row is committed and the run is spawned
\* under a lease forked from the request's.  A recovery cancels the tasks
\* that are still open.
Dispatch(q, c, r) ==
  /\ http[q] = "serving"
  /\ kind[q] = "write"
  /\ Spawn(c, r, q)
  /\ Fork(q)
  /\ phase' = [phase EXCEPT ![c] = "work"]
  /\ orphan' = orphan \ {c}
  /\ http' = [http EXCEPT ![q] = "closing"]
  /\ UNCHANGED <<kind, worker, workOf, reply, deploy>>

\* The row is committed and the task cannot be created: the failure is
\* recorded, which leaves an approved case in need of recovery.
DispatchFails(q, c) ==
  /\ http[q] = "serving"
  /\ kind[q] = "write"
  /\ phase[c] # "work"
  /\ phase' = [phase EXCEPT ![c] = IF @ = "waiting" THEN "work" ELSE "rest"]
  /\ http' = [http EXCEPT ![q] = "closing"]
  /\ UNCHANGED <<lock, refs, kind, tasks, workers, reply, deploy>>

\* assert_recording_quiescent
Quiescent ==
  \A c \in Cases :
     /\ phase[c] # "work"
     /\ c \notin orphan
     /\ \A w \in Workers : workOf[w] = c => worker[w] # "executing"

\* Reset and re-preparation: the check is one transaction ...
CheckQuiet(q) ==
  /\ http[q] = "serving"
  /\ kind[q] = "reset"
  /\ http' = [http EXCEPT ![q] = IF Quiescent THEN "clearing" ELSE "closing"]
  /\ UNCHANGED <<lock, refs, kind, tasks, workers, phase, reply, deploy>>

\* ... and the replacement of the rows another.  A re-preparation replaces
\* the row of a terminal case, compared with what it has read.
Clear(q) ==
  /\ http[q] = "clearing"
  /\ http' = [http EXCEPT ![q] = "closing"]
  /\ \/ phase' = [c \in Cases |-> "rest"]
     \/ UNCHANGED phase
  /\ UNCHANGED <<lock, refs, kind, tasks, workers, reply, deploy>>

\* The lease is held through the complete response.
Respond(q) ==
  /\ http[q] = "closing"
  /\ http' = [http EXCEPT ![q] = "idle"]
  /\ CloseLease(q)
  /\ UNCHANGED <<kind, tasks, workers, phase, reply, deploy>>

-----------------------------------------------------------------------------
\* Replies in the Matrix room.  The bridge is a task of the API process, not a
\* request: neither the lease nor the fence stands before its decisions.

\* The decision is committed ...
Decide(c) ==
  /\ api = "up"
  /\ reply = NoOne
  /\ phase[c] = "waiting"
  /\ \/ /\ phase' = [phase EXCEPT ![c] = "work"]
        /\ reply' = c
     \/ /\ phase' = [phase EXCEPT ![c] = "rest"]
        /\ UNCHANGED reply
  /\ UNCHANGED <<lock, refs, places, tasks, workers, deploy>>

\* ... and its run takes a shared lease of its own.
DispatchReply(r) ==
  /\ reply # NoOne
  /\ Acquire(r, "shared")
  /\ Spawn(reply, r, r)
  /\ reply' = NoOne
  /\ UNCHANGED <<places, workers, phase, deploy>>

\* An exclusive lease is out, the last run is not over, or the database
\* cannot be reached: the failure is recorded.
DispatchReplyFails ==
  /\ reply # NoOne
  /\ reply' = NoOne
  /\ UNCHANGED <<lock, refs, places, tasks, workers, phase, deploy>>

-----------------------------------------------------------------------------
\* Background runs.

\* The case waits for its approval while the run is still busy publishing
\* the request.
ReachGate(r) ==
  /\ run[r] = "active"
  /\ phase[caseOf[r]] = "work"
  /\ phase' = [phase EXCEPT ![caseOf[r]] = "waiting"]
  /\ UNCHANGED <<lock, refs, places, tasks, workers, reply, deploy>>

\* The coroutine ends: the case is closed, waits, or is left in doubt.
Finish(r) ==
  /\ run[r] = "active"
  /\ run' = [run EXCEPT ![r] = "ended"]
  /\ \/ UNCHANGED phase
     \/ /\ phase[caseOf[r]] = "work"
        /\ phase' = [phase EXCEPT ![caseOf[r]] = "rest"]
  /\ UNCHANGED <<lock, refs, places, leaseOf, caseOf, slot, workers, reply,
                 deploy>>

\* Mutant: only the task that is still in its slot closes its lease.
DiscardCurrent(r) ==
  /\ run[r] = "ended"
  /\ run' = [run EXCEPT ![r] = "none"]
  /\ IF slot[caseOf[r]] = r THEN CloseLease(leaseOf[r])
                            ELSE UNCHANGED <<lock, refs>>
  /\ slot' = [c \in Cases |->
                IF c = caseOf[r] /\ slot[c] = r THEN NoOne ELSE slot[c]]
  /\ UNCHANGED <<places, leaseOf, caseOf, workers, phase, reply, deploy>>

\* The callback of the finished task closes the lease, and clears the slot if
\* no other task has taken it.
Discard(r) ==
  /\ run[r] = "ended"
  /\ run' = [run EXCEPT ![r] = "none"]
  /\ CloseLease(leaseOf[r])
  /\ slot' = [c \in Cases |->
                IF c = caseOf[r] /\ slot[c] = r THEN NoOne ELSE slot[c]]
  /\ UNCHANGED <<places, leaseOf, caseOf, workers, phase, reply, deploy>>

-----------------------------------------------------------------------------
\* StageTask executions.

\* A claimable task exists only for a case at work.
TakeTask(w, c) ==
  /\ worker[w] = "idle"
  /\ phase[c] = "work"
  /\ Acquire(w, "shared")
  /\ worker' = [worker EXCEPT ![w] = "leased"]
  /\ workOf' = [workOf EXCEPT ![w] = c]
  /\ UNCHANGED <<places, tasks, orphan, phase, reply, deploy>>

\* Under the lease: no fence, and the task still fits its case.
ClaimTask(w) ==
  /\ worker[w] = "leased"
  /\ ~fence
  /\ phase[workOf[w]] = "work"
  /\ worker' = [worker EXCEPT ![w] = "executing"]
  /\ UNCHANGED <<lock, refs, places, tasks, workOf, orphan, phase, reply,
                 deploy>>

\* The task is completed, or could not be claimed.
LeaveTask(w) ==
  /\ \/ worker[w] = "executing"
     \/ worker[w] = "leased" /\ (fence \/ phase[workOf[w]] # "work")
  /\ worker' = [worker EXCEPT ![w] = "idle"]
  /\ CloseLease(w)
  /\ UNCHANGED <<places, tasks, workOf, orphan, phase, reply, deploy>>

\* The kernel or the server lets go of the lock; the row stays RUNNING.
WorkerDies(w) ==
  /\ worker[w] # "idle"
  /\ worker' = [worker EXCEPT ![w] = "idle"]
  /\ lock' = [lock EXCEPT ![w] = "free"]
  /\ refs' = [refs EXCEPT ![w] = 0]
  /\ orphan' = IF worker[w] = "executing" THEN orphan \cup {workOf[w]}
                                          ELSE orphan
  /\ UNCHANGED <<places, tasks, workOf, phase, reply, deploy>>

-----------------------------------------------------------------------------
\* The API process and its deployment.

\* Everything that runs in the container is gone, also what the deployment
\* executes there; rows and the fence stay.
ProcessEnds ==
  /\ lock' = [o \in Owners |-> IF o \in Workers THEN lock[o] ELSE "free"]
  /\ refs' = [o \in Owners |-> IF o \in Workers THEN refs[o] ELSE 0]
  /\ http' = [q \in Requests |-> "idle"]
  /\ run' = [r \in Runs |-> "none"]
  /\ slot' = [c \in Cases |-> NoOne]
  /\ reply' = NoOne
  /\ UNCHANGED <<kind, leaseOf, caseOf, workers, phase>>

\* The container dies and is started again, and with it dies the process that
\* holds the deployment's lease.  The script fails, unless it has seen the
\* fence in place and is about to stop the container.
Crash ==
  /\ api = "up"
  /\ ProcessEnds
  /\ \/ op \notin OpHolds /\ UNCHANGED op
     \/ op \in OpHolds /\ op' = "idle"
     \/ op = "quiet" /\ op' = "stopping"
  /\ UNCHANGED <<api, fence>>

\* quiesce_api: with the API running, the exclusive lease comes first ...
Quiesce ==
  /\ op = "idle"
  /\ api = "up"
  /\ Acquire(Operator, "exclusive")
  /\ op' = "holding"
  /\ UNCHANGED <<places, tasks, workers, phase, reply, api, fence>>

\* ... then the check and the fence ...
PrepareFence ==
  /\ op = "holding"
  /\ Quiescent
  /\ fence' = TRUE
  /\ op' = "quiet"
  /\ UNCHANGED <<lock, refs, places, tasks, workers, phase, reply, api>>

\* ... and docker stop, which also ends the process that holds the lease.
StopApi ==
  /\ op \in {"quiet", "stopping"}
  /\ ProcessEnds
  /\ api' = "stopped"
  /\ op' = "stopped"
  /\ UNCHANGED fence

\* Nothing runs, there is nothing to quiesce.
FindStopped ==
  /\ op = "idle"
  /\ api = "stopped"
  /\ op' = "stopped"
  /\ UNCHANGED <<lock, refs, places, tasks, workers, phase, reply, api, fence>>

\* The fence of this deployment is put in place before anything is changed.
KeepFence ==
  /\ op = "stopped"
  /\ fence' = TRUE
  /\ op' = "fenced"
  /\ UNCHANGED <<lock, refs, places, tasks, workers, phase, reply, api>>

\* Migration and seeding, alone.
TakeForSeeding ==
  /\ op = "fenced"
  /\ Acquire(Operator, "exclusive")
  /\ op' = "seeding"
  /\ UNCHANGED <<places, tasks, workers, phase, reply, api, fence>>

Seed ==
  /\ op = "seeding"
  /\ Quiescent
  /\ \/ phase' = [c \in Cases |-> "rest"]
     \/ UNCHANGED phase
  /\ CloseLease(Operator)
  /\ op' = "seeded"
  /\ UNCHANGED <<places, tasks, workers, reply, api, fence>>

StartApi ==
  /\ op = "seeded"
  /\ api' = "up"
  /\ op' = "started"
  /\ UNCHANGED <<lock, refs, places, tasks, workers, phase, reply, fence>>

\* The full profile loads the discovered Matrix settings into a new container.
Recreate ==
  /\ op = "started"
  /\ ProcessEnds
  /\ UNCHANGED deploy

\* The checks have passed: the fence goes, alone and at rest.  While the
\* lease is not to be had the script tries again.
TakeForRelease ==
  /\ op = "started"
  /\ Acquire(Operator, "exclusive")
  /\ op' = "accepting"
  /\ UNCHANGED <<places, tasks, workers, phase, reply, api, fence>>

ReleaseFence ==
  /\ op = "accepting"
  /\ Quiescent
  /\ fence' = FALSE
  /\ CloseLease(Operator)
  /\ op' = "idle"
  /\ UNCHANGED <<places, tasks, workers, phase, reply, api>>

TryReleaseAgain ==
  /\ op = "accepting"
  /\ ~Quiescent
  /\ CloseLease(Operator)
  /\ op' = "started"
  /\ UNCHANGED <<places, tasks, workers, phase, reply, api, fence>>

\* The script fails, or is stopped, anywhere: the lease is closed with its
\* process and the fence stays.
Abort ==
  /\ op # "idle"
  /\ lock' = [lock EXCEPT ![Operator] = "free"]
  /\ refs' = [refs EXCEPT ![Operator] = 0]
  /\ op' = "idle"
  /\ UNCHANGED <<places, tasks, workers, phase, reply, api, fence>>

-----------------------------------------------------------------------------
Work(w) == ClaimTask(w) \/ LeaveTask(w)

Serve(q) ==
  \/ CheckFence(q)
  \/ Handle(q)
  \/ \E c \in Cases : DispatchFails(q, c) \/ \E r \in Runs : Dispatch(q, c, r)
  \/ CheckQuiet(q)
  \/ Clear(q)
  \/ Respond(q)

Deployment ==
  \/ Quiesce
  \/ PrepareFence
  \/ StopApi
  \/ FindStopped
  \/ KeepFence
  \/ TakeForSeeding
  \/ Seed
  \/ StartApi
  \/ Recreate
  \/ TakeForRelease
  \/ ReleaseFence
  \/ TryReleaseAgain
  \/ Abort

Next ==
  \/ \E q \in Requests : Serve(q) \/ \E k \in Kinds : Admit(q, k)
  \/ \E c \in Cases : Decide(c)
  \/ \E r \in Runs : DispatchReply(r) \/ ReachGate(r) \/ Finish(r) \/ Discard(r)
  \/ DispatchReplyFails
  \/ \E w \in Workers :
        \/ \E c \in Cases : TakeTask(w, c)
        \/ Work(w) \/ WorkerDies(w)
  \/ Crash
  \/ Deployment

Spec == Init /\ [][Next]_vars

\* Handlers return, runs end (every stage has a deadline) and their callbacks
\* are called, executions return or die with their process, and the script
\* goes on or fails.
Fairness ==
  /\ \A q \in Requests : WF_vars(Serve(q))
  /\ \A r \in Runs : WF_vars(Finish(r)) /\ WF_vars(Discard(r))
  /\ \A w \in Workers : WF_vars(Work(w))
  /\ WF_vars(Deployment)

LiveSpec == Spec /\ Fairness

-----------------------------------------------------------------------------
\* The barrier as its users see it: a request is covered from its lease to its
\* response, a run while its coroutine runs, a worker while it has a task.
Actors == Owners

Doing ==
  [a \in Actors |->
     IF a \in Requests
     THEN IF http[a] = "idle" THEN "idle"
          ELSE IF kind[a] = "reset" THEN "alone" ELSE "sharing"
     ELSE IF a \in Runs
     THEN IF run[a] = "active" THEN "sharing" ELSE "idle"
     ELSE IF a \in Workers
     THEN IF worker[a] = "idle" THEN "idle" ELSE "sharing"
     ELSE IF op \in OpHolds THEN "alone" ELSE "idle"]

Barrier == INSTANCE ReadersWriter WITH doing <- Doing

(***************************************************************************)
(* The barrier implements readers and writers: a reset, a re-preparation   *)
(* and the deployment's own actions overlap no request, no background run  *)
(* that outlives its request, and no execution of a worker, whatever is    *)
(* handed over, fails to start or dies (runtime_barrier.py, api.py:405).   *)
(***************************************************************************)
ImplementsReadersWriter == Barrier!Spec

(***************************************************************************)
(* While the fence stands no request changes anything, and from the        *)
(* seeding to the release no worker executes: the check for the fence is   *)
(* made under a lease, and the fence is set under the exclusive one or     *)
(* while no API runs (deployment.py, docs/deployment.md:26).               *)
(***************************************************************************)
MaintenanceIsClosed ==
  /\ fence => \A q \in Requests :
                 ~(http[q] \in {"serving", "clearing"} /\ kind[q] # "read")
  /\ op \in {"seeded", "started", "accepting"}
       => \A w \in Workers : worker[w] # "executing"

(***************************************************************************)
(* As the deployment guide has it, nothing is at work between the start of *)
(* the new API and the release of the fence.  (A reply in the room is not  *)
(* stopped by the fence.)                                                  *)
(***************************************************************************)
MaintenanceIsQuiet ==
  op = "started" => \A r \in Runs : run[r] # "active"

(***************************************************************************)
(* Every lock is let go of: no handover, failure or crash leaves a         *)
(* resource with a reference that nobody will close.                       *)
(***************************************************************************)
LocksAreReleased ==
  \A o \in Owners : (lock[o] # "free") ~> (lock[o] = "free")

-----------------------------------------------------------------------------
\* What makes the barrier work: the references of a resource are the leases
\* that refer to it, and a resource is locked as long as it has one.

Borrowers(o) == {r \in Runs : run[r] # "none" /\ leaseOf[r] = o}

Holds(o) ==
  IF o \in Requests THEN http[o] # "idle"
  ELSE IF o \in Workers THEN worker[o] # "idle"
  ELSE o = Operator /\ op \in OpHolds

Leases(o) == (IF Holds(o) THEN 1 ELSE 0) + Cardinality(Borrowers(o))

LeasesAreCounted == \A o \in Owners : refs[o] = Leases(o)

LocksAreHeld ==
  \A o \in Owners :
     /\ lock[o] = "free" <=> refs[o] = 0
     /\ lock[o] = "exclusive" => \A p \in Owners \ {o} : lock[p] = "free"

LocksFitTheirUse ==
  /\ \A q \in Requests :
        http[q] # "idle" => lock[q] = IF kind[q] = "reset" THEN "exclusive"
                                                           ELSE "shared"
  /\ op \in OpHolds => lock[Operator] = "exclusive"
  /\ \A r \in Runs : run[r] # "none" => lock[leaseOf[r]] = "shared"
  /\ \A w \in Workers : worker[w] # "idle" => lock[w] = "shared"

RunsAreNotWorkers ==
  \A r \in Runs : run[r] # "none" => leaseOf[r] \in Requests \cup {r}

\* A container that is stopped serves nothing.
StoppedIsSilent ==
  /\ api = "stopped" => /\ \A q \in Requests : http[q] = "idle"
                        /\ \A r \in Runs : run[r] = "none"
                        /\ reply = NoOne
  /\ op \in {"stopped", "fenced", "seeding", "seeded"} => api = "stopped"
  /\ op \in OpSteps \ {"idle", "holding", "stopped"} => fence

Inductive ==
  /\ TypeOK
  /\ LeasesAreCounted
  /\ LocksAreHeld
  /\ LocksFitTheirUse
  /\ RunsAreNotWorkers
  /\ StoppedIsSilent
  /\ MaintenanceIsClosed
=============================================================================
