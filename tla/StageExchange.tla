---------------------------- MODULE StageExchange ----------------------------
(***************************************************************************)
(* One stage of a run between three parties: the coordinator that sends    *)
(* the task to a Worker's Matrix room and waits, the Worker's agent that   *)
(* reads its room and runs the adapter command, and the API that executes  *)
(* the Skill.  A Worker is shared by the runs of all cases.  Every wait    *)
(* has a deadline that the awaited party does not know of: the adapter     *)
(* gives up on a call that goes on in the API, and the coordinator sends   *)
(* the command again to a Worker that may be at it already.                *)
(*                                                                         *)
(* Each run has one stage and one task here; StageTasks has the versions,  *)
(* the cancelling and the replacing of tasks.  Left out: the handoff and   *)
(* the envelope (nobody acts on them), the counters of tokens, and what    *)
(* the agent writes besides the adapter's answer.                          *)
(***************************************************************************)
EXTENDS Naturals, Sequences, FiniteSets

CONSTANTS
    Runs,         \* runs with a stage for the same Worker
    MaxNudges,    \* retry_nudge_seconds: times the command is sent again
    MaxCalls,     \* bound of the model: adapter calls for one task
    MaxEvents,    \* bound of the model: deaths of the API, messages the agent ignores
    Nobody        \* the agent is idle

ASSUME ExchangeAssumption ==
    /\ {MaxNudges, MaxEvents} \subseteq Nat
    /\ MaxCalls \in Nat \ {0}
    /\ Nobody \notin Runs

VARIABLES
    phase,      \* the coordinator of a run
    acked,      \* runs that may see a "History Cleared" since their cursor
    seen,       \* while it polls: status of the task as last seen
    nudges,     \* nudges that are left
    got,        \* the result that the stage returned: the call that made it
    quoted,     \* the run whose reply is recorded as the task's
    inbox,      \* messages in the room that the agent has not read
    agent,      \* the run whose command the agent has begun
    asked,      \* the call that its adapter waits for; 0 = none
    replies,    \* runs whose task a reply in the room has named
    row,        \* agent_tasks
    call,       \* per run and number: a call of the adapter in the API
    ran,        \* per run: the calls whose Skill has taken effect
    events

coordinator == <<phase, acked, seen, nudges, got, quoted>>
worker == <<inbox, agent, asked, replies>>
api == <<row, call, ran>>
vars == <<coordinator, worker, api, events>>

Calls == 1..MaxCalls
Claimable == {"PENDING", "FAILED_RETRYABLE"}
Terminal == {"SUCCEEDED", "FAILED_FINAL"}    \* RESULT_UNKNOWN ends a task like FAILED_FINAL
Outcomes == Terminal \cup {"FAILED_RETRYABLE"}
Absent == [status |-> "ABSENT", result |-> 0, notes |-> {}]

TypeOK ==
    /\ phase \in [Runs -> {"start", "clearing", "saved", "triggered",
                           "polling", "nudging", "listening", "measuring",
                           "returned", "failed"}]
    /\ acked \subseteq Runs
    /\ seen \in [Runs -> Outcomes \cup {"ABSENT", "PENDING", "RUNNING"}]
    /\ nudges \in [Runs -> 0..MaxNudges]
    /\ got \in [Runs -> 0..MaxCalls]
    /\ quoted \in [Runs -> Runs \cup {Nobody}]
    /\ inbox \in Seq([kind : {"clear", "command"}, run : Runs])
    /\ agent \in Runs \cup {Nobody} /\ asked \in 0..MaxCalls
    /\ replies \subseteq Runs
    /\ row \in [Runs -> [status : Outcomes \cup {"ABSENT", "PENDING", "RUNNING"},
                         result : 0..MaxCalls,
                         notes : SUBSET {"trigger", "retry", "reply", "usage"}]]
    /\ call \in [Runs -> [Calls ->
          Outcomes \cup {"none", "sent", "valid", "armed", "claimed", "over"}]]
    /\ ran \in [Runs -> SUBSET Calls]
    /\ events \in 0..MaxEvents

Init ==
    /\ phase = [r \in Runs |-> "start"]
    /\ acked = {}
    /\ seen = [r \in Runs |-> "ABSENT"]
    /\ nudges = [r \in Runs |-> MaxNudges]
    /\ got = [r \in Runs |-> 0]
    /\ quoted = [r \in Runs |-> Nobody]
    /\ inbox = <<>> /\ agent = Nobody /\ asked = 0 /\ replies = {}
    /\ row = [r \in Runs |-> Absent]
    /\ call = [r \in Runs |-> [c \in Calls |-> "none"]]
    /\ ran = [r \in Runs |-> {}]
    /\ events = 0

Enter(r, p) == phase' = [phase EXCEPT ![r] = p]
Send(kind, r) == inbox' = Append(inbox, [kind |-> kind, run |-> r])

-----------------------------------------------------------------------------
(* The coordinator.                                                         *)

\* The cursor is taken, then the Worker is told to forget its session.
Clear(r) ==
    /\ phase[r] = "start"
    /\ Enter(r, "clearing")
    /\ Send("clear", r)
    /\ UNCHANGED <<acked, seen, nudges, got, quoted, agent, asked, replies, api, events>>

\* Any "History Cleared" of the Worker will do; then the row is written.
SaveTask(r) ==
    /\ phase[r] = "clearing" /\ r \in acked
    /\ acked' = acked \ {r}
    /\ Enter(r, "saved")
    /\ row' = [row EXCEPT ![r].status = "PENDING"]
    /\ UNCHANGED <<seen, nudges, got, quoted, worker, call, ran, events>>

Trigger(r) ==
    /\ phase[r] = "saved"
    /\ Enter(r, "triggered")
    /\ Send("command", r)
    /\ UNCHANGED <<acked, seen, nudges, got, quoted, agent, asked, replies, api, events>>

\* Mutant: the coordinator saves its own copy of the task.
MergeSnapshot(r, note) ==
    row' = [row EXCEPT ![r] = [status |-> "PENDING", result |-> 0,
                               notes |-> row[r].notes \cup {note}]]

\* update_task_metadata: into the row as it is now.
Merge(r, note) == row' = [row EXCEPT ![r].notes = @ \cup {note}]

\* The id of a message is known, and noted, after the message is out.
NoteTrigger(r) ==
    /\ phase[r] = "triggered"
    /\ Merge(r, "trigger")
    /\ Enter(r, "polling")
    /\ UNCHANGED <<acked, seen, nudges, got, quoted, worker, call, ran, events>>

Poll(r) ==
    /\ phase[r] = "polling" /\ seen[r] # row[r].status
    /\ LET status == row[r].status IN
       /\ Enter(r, CASE status = "SUCCEEDED" -> "listening"
                     [] status \in Terminal \ {"SUCCEEDED"} -> "failed"
                     [] OTHER -> "polling")
       /\ seen' = [seen EXCEPT ![r] = IF status \in Terminal THEN "ABSENT" ELSE status]
    /\ UNCHANGED <<acked, nudges, got, quoted, worker, api, events>>

\* By what it last saw: nothing has come of the command yet.
Nudge(r) ==
    /\ phase[r] = "polling" /\ seen[r] \in Claimable /\ nudges[r] > 0
    /\ nudges' = [nudges EXCEPT ![r] = @ - 1]
    /\ Enter(r, "nudging")
    /\ Send("command", r)
    /\ UNCHANGED <<acked, seen, got, quoted, agent, asked, replies, api, events>>

NoteNudge(r) ==
    /\ phase[r] = "nudging"
    /\ Merge(r, "retry")
    /\ Enter(r, "polling")
    /\ UNCHANGED <<acked, seen, nudges, got, quoted, worker, call, ran, events>>

\* No "History Cleared", or no end of the task, in time.  The task is left as
\* it is: it may still succeed, and the stage has failed.
GiveUp(r) ==
    /\ phase[r] \in {"clearing", "polling"}
    /\ Enter(r, "failed")
    /\ UNCHANGED <<acked, seen, nudges, got, quoted, worker, api, events>>

\* A request to Matrix is not answered in time, whether or not it was carried
\* out: a message may be out that the coordinator knows nothing of.  The
\* stage fails, and no request is tried twice.
RequestFails(r) ==
    /\ phase[r] \in {"start", "clearing", "saved", "triggered", "nudging", "listening"}
    /\ Enter(r, "failed")
    /\ UNCHANGED <<acked, seen, nudges, got, quoted, worker, api, events>>

\* A reply that names the task; it is evidence only, and may be missing.
Names(named, r) == named = r

Listen(r) ==
    /\ phase[r] = "listening"
    /\ got' = [got EXCEPT ![r] = row[r].result]
    /\ Enter(r, "measuring")
    /\ \/ UNCHANGED <<row, quoted>>
       \/ \E named \in replies :
             /\ Names(named, r)
             /\ quoted' = [quoted EXCEPT ![r] = named]
             /\ Merge(r, "reply")
    /\ UNCHANGED <<acked, seen, nudges, worker, call, ran, events>>

\* The Worker's counters are read, growth or not, and noted with the task.
CaptureUsage(r) ==
    /\ phase[r] = "measuring"
    /\ Merge(r, "usage")
    /\ Enter(r, "returned")
    /\ UNCHANGED <<acked, seen, nudges, got, quoted, worker, call, ran, events>>

-----------------------------------------------------------------------------
(* The Worker's agent reads its room in order.                              *)

ClearSession ==
    /\ agent = Nobody /\ inbox # <<>> /\ Head(inbox).kind = "clear"
    /\ inbox' = Tail(inbox)
    /\ acked' = acked \cup {r \in Runs : phase[r] = "clearing"}
    /\ UNCHANGED <<phase, seen, nudges, got, quoted, agent, asked, replies, api, events>>

TakeCommand ==
    /\ agent = Nobody /\ inbox # <<>> /\ Head(inbox).kind = "command"
    /\ inbox' = Tail(inbox)
    /\ agent' = Head(inbox).run
    /\ UNCHANGED <<coordinator, asked, replies, api, events>>

\* External: the model answers in words, or the Worker has restarted.
Ignore ==
    /\ agent = Nobody /\ inbox # <<>> /\ events < MaxEvents
    /\ events' = events + 1
    /\ inbox' = Tail(inbox)
    /\ UNCHANGED <<coordinator, agent, asked, replies, api>>

\* The API gives out the binding of a task only while it may be claimed.
Offered(r) == row[r].status \in Claimable

\* --from-task: the binding is read first, then the Skill is called with it.
Ask ==
    /\ agent # Nobody /\ asked = 0
    /\ Offered(agent)
    /\ \E c \in Calls :
          /\ call[agent][c] = "none" /\ \A b \in 1..(c - 1) : call[agent][b] # "none"
          /\ asked' = c
          /\ call' = [call EXCEPT ![agent][c] = "sent"]
    /\ UNCHANGED <<coordinator, inbox, agent, replies, row, ran, events>>

\* The agent says what the adapter printed: the answer of the API, or that
\* the gateway failed, the binding was refused or its own time was up.
Reply ==
    /\ agent # Nobody
    /\ replies' = replies \cup {agent}
    /\ agent' = Nobody /\ asked' = 0
    /\ UNCHANGED <<coordinator, inbox, api, events>>

-----------------------------------------------------------------------------
(* The API: each call is on its own.                                        *)

Go(r, c, state) == call' = [call EXCEPT ![r][c] = state]

\* The capabilities of the case are put into the input, or are not there.
Hydrated == {"armed", "over"}

\* The contract of the Skill, the Worker's identity and the capabilities: the
\* call goes on or ends here.
Hydrate(r, c) ==
    /\ call[r][c] = "sent"
    /\ \E state \in Hydrated : Go(r, c, state)
    /\ UNCHANGED <<coordinator, worker, row, ran, events>>

\* A first look at the task, before anything is locked.
Validate(r, c) ==
    /\ call[r][c] = "armed"
    /\ Go(r, c, IF row[r].status \in Claimable THEN "valid" ELSE "over")
    /\ UNCHANGED <<coordinator, worker, row, ran, events>>

\* The task row is locked, and its status read again.
Claim(r, c) ==
    /\ call[r][c] = "valid"
    /\ IF row[r].status \in Claimable
       THEN Go(r, c, "claimed") /\ row' = [row EXCEPT ![r].status = "RUNNING"]
       ELSE Go(r, c, "over") /\ UNCHANGED row
    /\ UNCHANGED <<coordinator, worker, ran, events>>

\* What may pass has had no effect; a result that breaks the Skill's own
\* contract, and one that is unknown, may have had one.
Invoke(r, c) ==
    /\ call[r][c] = "claimed"
    /\ \E outcome \in Outcomes, effect \in BOOLEAN :
          /\ outcome = "SUCCEEDED" => effect
          /\ outcome = "FAILED_RETRYABLE" => ~effect
          /\ Go(r, c, outcome)
          /\ ran' = IF effect THEN [ran EXCEPT ![r] = @ \cup {c}] ELSE ran
    /\ UNCHANGED <<coordinator, worker, row, events>>

Complete(r, c) ==
    /\ call[r][c] \in Outcomes
    /\ Go(r, c, "over")
    /\ row' = [row EXCEPT ![r].status = call[r][c],
                          ![r].result = IF call[r][c] = "SUCCEEDED" THEN c ELSE 0]
    /\ UNCHANGED <<coordinator, worker, ran, events>>

\* The API dies, and the coordinators with it; rooms and rows stay.
Crash ==
    /\ events < MaxEvents
    /\ events' = events + 1
    /\ phase' = [r \in Runs |-> IF phase[r] \in {"start", "returned"} THEN phase[r]
                                                                      ELSE "failed"]
    /\ call' = [r \in Runs |-> [c \in Calls |->
                   IF call[r][c] = "none" THEN "none" ELSE "over"]]
    /\ UNCHANGED <<acked, seen, nudges, got, quoted, worker, row, ran>>

Next ==
    \/ \E r \in Runs :
          \/ Clear(r) \/ SaveTask(r) \/ Trigger(r) \/ NoteTrigger(r) \/ RequestFails(r)
          \/ Poll(r) \/ Nudge(r) \/ NoteNudge(r) \/ GiveUp(r) \/ Listen(r)
          \/ CaptureUsage(r)
          \/ \E c \in Calls :
                Hydrate(r, c) \/ Validate(r, c) \/ Claim(r, c) \/ Invoke(r, c) \/ Complete(r, c)
    \/ ClearSession \/ TakeCommand \/ Ignore \/ Ask \/ Reply
    \/ Crash

Spec == Init /\ [][Next]_vars

-----------------------------------------------------------------------------
\* However often the command is sent, run or given up on, and whatever is
\* noted about it late ("Late transport/usage metadata must never replace a
\* committed result", workflow_persistence.py:137), the Skill of a task takes
\* effect once; and a stage that returned did so with the result of that one
\* call, which stays the task's, as the reply that is recorded is the task's.
OneEffectPerTask ==
    \A r \in Runs :
        /\ Cardinality(ran[r]) <= 1
        /\ phase[r] = "returned" =>
              row[r].status = "SUCCEEDED" /\ row[r].result = got[r] /\ ran[r] = {got[r]}
        /\ quoted[r] \in {r, Nobody}

-----------------------------------------------------------------------------
(* The inductive invariant of the proofs *)

Working == {"claimed"} \cup Outcomes

\* Nobody calls for a task whose row is not written yet.
NewTasksAreQuiet ==
    \A r \in Runs :
        /\ phase[r] \in {"start", "clearing"} => row[r].status = "ABSENT"
        /\ row[r].status = "ABSENT" => ran[r] = {}

\* One call works on a task at a time, under its row; what it has done while
\* the row says that it runs is all that was done.
WorkedOnce(r) ==
    /\ row[r].status \in Claimable \cup {"ABSENT"} => ran[r] = {}
    /\ \A c \in Calls : call[r][c] \in Working =>
          /\ row[r].status = "RUNNING"
          /\ \A b \in Calls \ {c} : call[r][b] \notin Working
          /\ ran[r] \subseteq {c}
          /\ call[r][c] \in {"claimed", "FAILED_RETRYABLE"} => ran[r] = {}
          /\ call[r][c] = "SUCCEEDED" => ran[r] = {c}
    /\ row[r].status = "SUCCEEDED" => ran[r] = {row[r].result}
    /\ \A b, c \in ran[r] : b = c

OneCallWorks == \A r \in Runs : WorkedOnce(r)

\* A coordinator that has seen the success goes by it.
SuccessIsKept ==
    \A r \in Runs :
        /\ phase[r] \in {"listening", "measuring", "returned"} => row[r].status = "SUCCEEDED"
        /\ phase[r] \in {"measuring", "returned"} => got[r] = row[r].result
        /\ quoted[r] \in {r, Nobody}

ExchangeInductive == TypeOK /\ NewTasksAreQuiet /\ OneCallWorks /\ SuccessIsKept
=============================================================================
