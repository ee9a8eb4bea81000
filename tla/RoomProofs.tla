----------------------------- MODULE RoomProofs -----------------------------
(***************************************************************************)
(* Theorems about what goes on in the Matrix rooms, for any number of      *)
(* runs, calls, commands, people, requests and forms: the task of a stage  *)
(* (StageExchange) and the proof of a person (HumanProof).                 *)
(***************************************************************************)
EXTENDS MCStageExchange, FiniteSetTheorems, SequenceTheorems, TLAPS

-----------------------------------------------------------------------------
(* The stage: what its two row-writers and its many reports do to the task *)

Notes    == {"trigger", "retry", "reply", "usage"}
Row      == [status : Outcomes \cup {"ABSENT", "PENDING", "RUNNING"},
             result : 0..MaxCalls, notes : SUBSET Notes]
Message  == [kind : {"clear", "command"}, run : Runs]

LEMMA InitIsQuiet == Init => ExchangeInductive
  <1> SUFFICES ASSUME Init PROVE ExchangeInductive
    OBVIOUS
  <1>1. TypeOK
    BY ExchangeAssumption DEF Init, TypeOK, Absent, Outcomes, Terminal, Calls
  <1>2. NewTasksAreQuiet /\ OneCallWorks /\ SuccessIsKept
    BY DEF Init, NewTasksAreQuiet, OneCallWorks, WorkedOnce, SuccessIsKept, Absent, Claimable,
           Outcomes, Terminal, Working
  <1> QED BY <1>1, <1>2 DEF ExchangeInductive

\* A step that touches no call, no effect and no status or result of a row
\* keeps what is said about them.
LEMMA QuietSteps ==
    ASSUME ExchangeInductive, UNCHANGED <<call, ran>>,
           \A r \in Runs : row'[r].status = row[r].status /\ row'[r].result = row[r].result
    PROVE  /\ OneCallWorks'
           /\ \A r \in Runs : row'[r].status = "ABSENT" => ran'[r] = {}
  BY DEF ExchangeInductive, OneCallWorks, WorkedOnce, NewTasksAreQuiet

\* A coordinator that moves before it has seen the success, or after it is
\* done with the task, says nothing about the result.
LEMMA CoordinatorMoves ==
    ASSUME ExchangeInductive, NEW r \in Runs, NEW p, Enter(r, p),
           \A s \in Runs : row'[s].status = row[s].status /\ row'[s].result = row[s].result,
           UNCHANGED <<call, ran, got, quoted>>,
           p \in {"start", "clearing"} => phase[r] \in {"start", "clearing"},
           p \in {"listening", "measuring", "returned"} => row[r].status = "SUCCEEDED",
           p \in {"measuring", "returned"} => got[r] = row[r].result
    PROVE  NewTasksAreQuiet' /\ OneCallWorks' /\ SuccessIsKept'
  <1> USE DEF ExchangeInductive
  <1>1. /\ phase'[r] = p
        /\ \A s \in Runs \ {r} : phase'[s] = phase[s]
    BY DEF Enter, TypeOK
  <1>2. OneCallWorks' /\ \A s \in Runs : row'[s].status = "ABSENT" => ran'[s] = {}
    BY QuietSteps
  <1>3. NewTasksAreQuiet'
    BY <1>1, <1>2 DEF NewTasksAreQuiet
  <1>4. SuccessIsKept'
    BY <1>1 DEF SuccessIsKept
  <1> QED BY <1>2, <1>3, <1>4

LEMMA MergeKeepsTheRow ==
    ASSUME TypeOK, NEW r \in Runs, NEW note \in Notes, Merge(r, note)
    PROVE  /\ row' \in [Runs -> Row]
           /\ \A s \in Runs : row'[s].status = row[s].status /\ row'[s].result = row[s].result
  <1>1. row \in [Runs -> Row]
    BY DEF TypeOK, Row, Notes
  <1>2. row' = [row EXCEPT ![r] = [row[r] EXCEPT !.notes = row[r].notes \cup {note}]]
    BY DEF Merge
  <1>3. [row[r] EXCEPT !.notes = row[r].notes \cup {note}] \in Row
    BY <1>1 DEF Row
  <1> QED BY <1>1, <1>2, <1>3 DEF Row

LEMMA SendKeepsTheRoom ==
    ASSUME TypeOK, NEW r \in Runs, NEW kind \in {"clear", "command"}, Send(kind, r)
    PROVE  inbox' \in Seq(Message)
  BY DEF TypeOK, Send, Message

-----------------------------------------------------------------------------
(* The coordinator *)

LEMMA ClearWorks == ASSUME ExchangeInductive, NEW r \in Runs, Clear(r) PROVE ExchangeInductive'
  <1> USE DEF ExchangeInductive
  <1>1. TypeOK'
    <2>1. inbox' \in Seq(Message)
      BY SendKeepsTheRoom DEF Clear
    <2> QED BY <2>1 DEF TypeOK, Clear, Enter, api, Message
  <1>2. NewTasksAreQuiet' /\ OneCallWorks' /\ SuccessIsKept'
    BY CoordinatorMoves DEF Clear, api
  <1> QED BY <1>1, <1>2

LEMMA SaveTaskWorks ==
    ASSUME ExchangeInductive, NEW r \in Runs, SaveTask(r) PROVE ExchangeInductive'
  <1> USE DEF ExchangeInductive
  <1>1. TypeOK'
    <2>1. row \in [Runs -> Row]
      BY DEF TypeOK, Row, Notes
    <2>2. row' = [row EXCEPT ![r] = [row[r] EXCEPT !.status = "PENDING"]]
      BY DEF SaveTask
    <2>3. [row[r] EXCEPT !.status = "PENDING"] \in Row
      BY <2>1 DEF Row
    <2>4. row' \in [Runs -> Row]
      BY <2>1, <2>2, <2>3
    <2> QED BY <2>4 DEF TypeOK, SaveTask, Enter, worker, Row, Notes
  <1>2. /\ row[r].status = "ABSENT" /\ ran[r] = {}
        /\ phase[r] = "clearing" /\ phase'[r] = "saved"
        /\ row'[r].status = "PENDING"
        /\ \A s \in Runs \ {r} : phase'[s] = phase[s] /\ row'[s] = row[s]
        /\ UNCHANGED <<call, ran, got, quoted>>
    BY DEF TypeOK, SaveTask, Enter, NewTasksAreQuiet
  <1>3. NewTasksAreQuiet'
    BY <1>2 DEF NewTasksAreQuiet
  <1>4. OneCallWorks'
    BY <1>2 DEF OneCallWorks, WorkedOnce
  <1>5. SuccessIsKept'
    BY <1>2 DEF SuccessIsKept
  <1> QED BY <1>1, <1>3, <1>4, <1>5

LEMMA TriggerWorks ==
    ASSUME ExchangeInductive, NEW r \in Runs, Trigger(r) PROVE ExchangeInductive'
  <1> USE DEF ExchangeInductive
  <1>1. TypeOK'
    <2>1. inbox' \in Seq(Message)
      BY SendKeepsTheRoom DEF Trigger
    <2> QED BY <2>1 DEF TypeOK, Trigger, Enter, api, Message
  <1>2. NewTasksAreQuiet' /\ OneCallWorks' /\ SuccessIsKept'
    BY CoordinatorMoves DEF Trigger, api
  <1> QED BY <1>1, <1>2

LEMMA NoteWorks ==
    ASSUME ExchangeInductive, NEW r \in Runs, NoteTrigger(r) \/ NoteNudge(r)
    PROVE  ExchangeInductive'
  <1> USE DEF ExchangeInductive
  <1>1. PICK note \in Notes : Merge(r, note)
    BY DEF NoteTrigger, NoteNudge, Notes
  <1>2. /\ Enter(r, "polling")
        /\ UNCHANGED <<acked, seen, nudges, got, quoted, worker, call, ran, events>>
    BY DEF NoteTrigger, NoteNudge
  <1>3. /\ row' \in [Runs -> Row]
        /\ \A s \in Runs : row'[s].status = row[s].status /\ row'[s].result = row[s].result
    BY <1>1, MergeKeepsTheRow
  <1>4. TypeOK'
    BY <1>2, <1>3 DEF TypeOK, Enter, worker, Row, Notes
  <1>5. NewTasksAreQuiet' /\ OneCallWorks' /\ SuccessIsKept'
    BY <1>2, <1>3, CoordinatorMoves
  <1> QED BY <1>4, <1>5

LEMMA PollWorks == ASSUME ExchangeInductive, NEW r \in Runs, Poll(r) PROVE ExchangeInductive'
  <1> USE DEF ExchangeInductive
  <1>1. PICK p \in {"listening", "failed", "polling"} :
           /\ Enter(r, p)
           /\ p = "listening" => row[r].status = "SUCCEEDED"
    <2>1. CASE row[r].status = "SUCCEEDED"
      BY <2>1 DEF Poll, Terminal
    <2>2. CASE row[r].status = "FAILED_FINAL"
      BY <2>2 DEF Poll, Terminal
    <2>3. CASE row[r].status \notin Terminal
      BY <2>3 DEF Poll, Terminal
    <2> QED BY <2>1, <2>2, <2>3 DEF Terminal
  <1>2. /\ seen' = [seen EXCEPT ![r] = IF row[r].status \in Terminal THEN "ABSENT"
                                                                     ELSE row[r].status]
        /\ UNCHANGED <<acked, nudges, got, quoted, worker, api, events>>
    BY DEF Poll
  <1>3. TypeOK'
    BY <1>1, <1>2 DEF TypeOK, Enter, worker, api
  <1>4. NewTasksAreQuiet' /\ OneCallWorks' /\ SuccessIsKept'
    BY <1>1, <1>2, CoordinatorMoves DEF api
  <1> QED BY <1>3, <1>4

LEMMA NudgeWorks == ASSUME ExchangeInductive, NEW r \in Runs, Nudge(r) PROVE ExchangeInductive'
  <1> USE DEF ExchangeInductive
  <1>1. TypeOK'
    <2>1. inbox' \in Seq(Message)
      BY SendKeepsTheRoom DEF Nudge
    <2>2. nudges' \in [Runs -> 0..MaxNudges]
      BY ExchangeAssumption DEF Nudge, TypeOK
    <2> QED BY <2>1, <2>2 DEF TypeOK, Nudge, Enter, api, Message
  <1>2. NewTasksAreQuiet' /\ OneCallWorks' /\ SuccessIsKept'
    BY CoordinatorMoves DEF Nudge, api
  <1> QED BY <1>1, <1>2

LEMMA GiveUpWorks ==
    ASSUME ExchangeInductive, NEW r \in Runs, GiveUp(r) \/ RequestFails(r)
    PROVE  ExchangeInductive'
  <1> USE DEF ExchangeInductive
  <1>1. /\ Enter(r, "failed")
        /\ UNCHANGED <<acked, seen, nudges, got, quoted, worker, api, events>>
    BY DEF GiveUp, RequestFails
  <1>2. TypeOK'
    BY <1>1 DEF TypeOK, Enter, worker, api
  <1>3. NewTasksAreQuiet' /\ OneCallWorks' /\ SuccessIsKept'
    BY <1>1, CoordinatorMoves DEF api
  <1> QED BY <1>2, <1>3

\* The result is read from the row that is final by now.
LEMMA ListenWorks ==
    ASSUME ExchangeInductive, NEW r \in Runs, Listen(r) PROVE ExchangeInductive'
  <1> USE DEF ExchangeInductive
  <1>1. /\ phase[r] = "listening"
        /\ Enter(r, "measuring")
        /\ got' = [got EXCEPT ![r] = row[r].result]
        /\ UNCHANGED <<acked, seen, nudges, worker, call, ran, events>>
        /\ \/ UNCHANGED <<row, quoted>>
           \/ Merge(r, "reply") /\ quoted' = [quoted EXCEPT ![r] = r]
    BY DEF Listen, Names
  <1>2. /\ row' \in [Runs -> Row]
        /\ \A s \in Runs : row'[s].status = row[s].status /\ row'[s].result = row[s].result
    <2>1. CASE UNCHANGED <<row, quoted>>
      BY <2>1 DEF TypeOK, Row, Notes
    <2>2. CASE Merge(r, "reply")
      BY <2>2, MergeKeepsTheRow DEF Notes
    <2> QED BY <1>1, <2>1, <2>2
  <1>3. TypeOK'
    <2>1. got' \in [Runs -> 0..MaxCalls]
      BY <1>1 DEF TypeOK
    <2>2. quoted' \in [Runs -> Runs \cup {Nobody}]
      BY <1>1 DEF TypeOK
    <2>3. phase' \in [Runs -> {"start", "clearing", "saved", "triggered",
                               "polling", "nudging", "listening", "measuring",
                               "returned", "failed"}]
      BY <1>1 DEF TypeOK, Enter
    <2> QED BY <1>1, <1>2, <2>1, <2>2, <2>3 DEF TypeOK, worker, Row, Notes
  <1>4. /\ phase'[r] = "measuring" /\ got'[r] = row[r].result
        /\ quoted'[r] \in {r, Nobody}
        /\ \A s \in Runs \ {r} :
              phase'[s] = phase[s] /\ got'[s] = got[s] /\ quoted'[s] = quoted[s]
    BY <1>1 DEF TypeOK, Enter, SuccessIsKept
  <1>5. OneCallWorks' /\ \A s \in Runs : row'[s].status = "ABSENT" => ran'[s] = {}
    BY <1>1, <1>2, QuietSteps
  <1>6. NewTasksAreQuiet'
    BY <1>2, <1>4, <1>5 DEF NewTasksAreQuiet
  <1>7. SuccessIsKept'
    BY <1>1, <1>2, <1>4 DEF SuccessIsKept
  <1> QED BY <1>3, <1>5, <1>6, <1>7

LEMMA CaptureUsageWorks ==
    ASSUME ExchangeInductive, NEW r \in Runs, CaptureUsage(r) PROVE ExchangeInductive'
  <1> USE DEF ExchangeInductive
  <1>1. /\ phase[r] = "measuring"
        /\ Merge(r, "usage")
        /\ Enter(r, "returned")
        /\ UNCHANGED <<acked, seen, nudges, got, quoted, worker, call, ran, events>>
    BY DEF CaptureUsage
  <1>2. /\ row' \in [Runs -> Row]
        /\ \A s \in Runs : row'[s].status = row[s].status /\ row'[s].result = row[s].result
    BY <1>1, MergeKeepsTheRow DEF Notes
  <1>3. TypeOK'
    BY <1>1, <1>2 DEF TypeOK, Enter, worker, Row, Notes
  <1>4. row[r].status = "SUCCEEDED" /\ got[r] = row[r].result
    BY <1>1 DEF SuccessIsKept
  <1>5. NewTasksAreQuiet' /\ OneCallWorks' /\ SuccessIsKept'
    BY <1>1, <1>2, <1>4, CoordinatorMoves
  <1> QED BY <1>3, <1>5

-----------------------------------------------------------------------------
(* The agent *)

LEMMA AgentWorks ==
    ASSUME ExchangeInductive, ClearSession \/ TakeCommand \/ Ignore \/ Reply
    PROVE  ExchangeInductive'
  <1> USE DEF ExchangeInductive
  <1>1. UNCHANGED <<phase, got, quoted, api>>
    BY DEF ClearSession, TakeCommand, Ignore, Reply, coordinator
  <1>2. inbox \in Seq(Message)
    BY DEF TypeOK, Message
  <1>3. inbox # <<>> => Head(inbox) \in Message /\ Tail(inbox) \in Seq(Message)
    BY <1>2, HeadTailProperties
  <1>4. /\ inbox' \in Seq(Message)
        /\ agent' \in Runs \cup {Nobody}
    BY <1>2, <1>3 DEF TypeOK, ClearSession, TakeCommand, Ignore, Reply, Message
  <1>5. /\ asked' \in 0..MaxCalls /\ acked' \subseteq Runs /\ replies' \subseteq Runs
        /\ events' \in 0..MaxEvents
        /\ UNCHANGED <<seen, nudges>>
    BY SMTT(30), ExchangeAssumption DEF TypeOK, ClearSession, TakeCommand, Ignore, Reply, coordinator
  <1>7. TypeOK'
    BY <1>1, <1>4, <1>5 DEF TypeOK, Message, api
  <1>8. NewTasksAreQuiet' /\ OneCallWorks' /\ SuccessIsKept'
    BY <1>1 DEF NewTasksAreQuiet, OneCallWorks, WorkedOnce, SuccessIsKept, api
  <1> QED BY <1>7, <1>8

-----------------------------------------------------------------------------
(* The API *)

States == Outcomes \cup {"none", "sent", "valid", "armed", "claimed", "over"}

\* A call that goes on without claiming or leaving the task's row.
LEMMA CallMoves ==
    ASSUME ExchangeInductive, NEW r \in Runs, NEW c \in Calls, NEW state \in States,
           call' = [call EXCEPT ![r][c] = state], state \notin Working,
           UNCHANGED <<phase, got, quoted, row, ran>>
    PROVE  /\ call' \in [Runs -> [Calls -> States]]
           /\ NewTasksAreQuiet' /\ OneCallWorks' /\ SuccessIsKept'
  <1> USE DEF ExchangeInductive
  <1>1. /\ call' \in [Runs -> [Calls -> States]]
        /\ call'[r][c] = state
        /\ \A s \in Runs, b \in Calls : <<s, b>> # <<r, c>> => call'[s][b] = call[s][b]
    BY DEF TypeOK, States
  <1>2. \A s \in Runs, b \in Calls :
           call'[s][b] \in Working => call'[s][b] = call[s][b]
    BY <1>1
  <1>3. OneCallWorks'
    BY <1>2 DEF OneCallWorks, WorkedOnce
  <1>4. NewTasksAreQuiet' /\ SuccessIsKept'
    BY DEF NewTasksAreQuiet, SuccessIsKept
  <1> QED BY <1>1, <1>3, <1>4

LEMMA AskWorks == ASSUME ExchangeInductive, Ask PROVE ExchangeInductive'
  <1> USE DEF ExchangeInductive
  <1>1. PICK c \in Calls : asked' = c /\ call' = [call EXCEPT ![agent][c] = "sent"]
    BY DEF Ask
  <1>2. agent \in Runs /\ UNCHANGED <<coordinator, inbox, agent, replies, row, ran, events>>
    BY DEF Ask, TypeOK
  <1>3. /\ call' \in [Runs -> [Calls -> States]]
        /\ NewTasksAreQuiet' /\ OneCallWorks' /\ SuccessIsKept'
    BY <1>1, <1>2, CallMoves DEF States, Working, Outcomes, Terminal, coordinator
  <1>4. TypeOK'
    BY <1>1, <1>2, <1>3 DEF TypeOK, coordinator, States, Calls
  <1> QED BY <1>3, <1>4

LEMMA HydrateWorks ==
    ASSUME ExchangeInductive, NEW r \in Runs, NEW c \in Calls, Hydrate(r, c)
    PROVE  ExchangeInductive'
  <1> USE DEF ExchangeInductive
  <1>1. PICK state \in Hydrated : call' = [call EXCEPT ![r][c] = state]
    BY DEF Hydrate, Go
  <1>2. UNCHANGED <<coordinator, worker, row, ran, events>>
    BY DEF Hydrate
  <1>3. /\ call' \in [Runs -> [Calls -> States]]
        /\ NewTasksAreQuiet' /\ OneCallWorks' /\ SuccessIsKept'
    BY <1>1, <1>2, CallMoves DEF States, Hydrated, Working, Outcomes, Terminal, coordinator
  <1>4. TypeOK'
    BY <1>2, <1>3 DEF TypeOK, coordinator, worker, States
  <1> QED BY <1>3, <1>4

LEMMA ValidateWorks ==
    ASSUME ExchangeInductive, NEW r \in Runs, NEW c \in Calls, Validate(r, c)
    PROVE  ExchangeInductive'
  <1> USE DEF ExchangeInductive
  <1>1. PICK state \in {"valid", "over"} : call' = [call EXCEPT ![r][c] = state]
    BY DEF Validate, Go
  <1>2. UNCHANGED <<coordinator, worker, row, ran, events>>
    BY DEF Validate
  <1>3. /\ call' \in [Runs -> [Calls -> States]]
        /\ NewTasksAreQuiet' /\ OneCallWorks' /\ SuccessIsKept'
    BY <1>1, <1>2, CallMoves DEF States, Working, Outcomes, Terminal, coordinator
  <1>4. TypeOK'
    BY <1>2, <1>3 DEF TypeOK, coordinator, worker, States
  <1> QED BY <1>3, <1>4

\* The row that the claim reads under its lock says that nobody works on the
\* task and that nothing has been done for it.
LEMMA ClaimWorks ==
    ASSUME ExchangeInductive, NEW r \in Runs, NEW c \in Calls, Claim(r, c)
    PROVE  ExchangeInductive'
  <1> USE DEF ExchangeInductive
  <1>1. UNCHANGED <<coordinator, worker, ran, events>>
    BY DEF Claim
  <1>2. CASE row[r].status \in Claimable
    <2>1. /\ call' = [call EXCEPT ![r][c] = "claimed"]
          /\ row' = [row EXCEPT ![r].status = "RUNNING"]
      BY <1>2 DEF Claim, Go
    <2>2. /\ call'[r][c] = "claimed"
          /\ \A s \in Runs, b \in Calls : <<s, b>> # <<r, c>> => call'[s][b] = call[s][b]
          /\ row'[r].status = "RUNNING"
          /\ \A s \in Runs \ {r} : row'[s] = row[s]
      BY <2>1 DEF TypeOK
    <2>3. ran[r] = {} /\ \A b \in Calls : call[r][b] \notin Working
      BY <1>2 DEF OneCallWorks, WorkedOnce, Claimable
    <2>4. TypeOK'
      <3>1. row \in [Runs -> Row]
        BY DEF TypeOK, Row, Notes
      <3>2. row' = [row EXCEPT ![r] = [row[r] EXCEPT !.status = "RUNNING"]]
        BY <2>1
      <3>3. [row[r] EXCEPT !.status = "RUNNING"] \in Row
        BY <3>1 DEF Row
      <3>4. row' \in [Runs -> Row]
        BY <3>1, <3>2, <3>3
      <3>5. call' \in [Runs -> [Calls -> States]]
        BY <2>1 DEF TypeOK, States
      <3> QED BY <1>1, <3>4, <3>5 DEF TypeOK, coordinator, worker, Row, Notes, States
    <2>5. OneCallWorks'
      <3> SUFFICES ASSUME NEW s \in Runs PROVE WorkedOnce(s)'
        BY DEF OneCallWorks
      <3>1. CASE s = r
        BY <3>1, <1>1, <2>2, <2>3 DEF WorkedOnce, Claimable, Working, Outcomes, Terminal
      <3>2. CASE s # r
        BY <3>2, <1>1, <2>2 DEF OneCallWorks, WorkedOnce
      <3> QED BY <3>1, <3>2
    <2>6. NewTasksAreQuiet' /\ SuccessIsKept'
      BY <1>1, <1>2, <2>2 DEF NewTasksAreQuiet, SuccessIsKept, coordinator, Claimable
    <2> QED BY <2>4, <2>5, <2>6
  <1>3. CASE row[r].status \notin Claimable
    <2>1. call' = [call EXCEPT ![r][c] = "over"] /\ UNCHANGED row
      BY <1>3 DEF Claim, Go
    <2>2. /\ call' \in [Runs -> [Calls -> States]]
          /\ NewTasksAreQuiet' /\ OneCallWorks' /\ SuccessIsKept'
      BY <1>1, <2>1, CallMoves DEF States, Working, Outcomes, Terminal, coordinator
    <2>3. TypeOK'
      BY <1>1, <2>1, <2>2 DEF TypeOK, coordinator, worker, States
    <2> QED BY <2>2, <2>3
  <1> QED BY <1>2, <1>3

LEMMA InvokeWorks ==
    ASSUME ExchangeInductive, NEW r \in Runs, NEW c \in Calls, Invoke(r, c)
    PROVE  ExchangeInductive'
  <1> USE DEF ExchangeInductive
  <1>1. PICK outcome \in Outcomes, effect \in BOOLEAN :
           /\ outcome = "SUCCEEDED" => effect
           /\ outcome = "FAILED_RETRYABLE" => ~effect
           /\ call' = [call EXCEPT ![r][c] = outcome]
           /\ ran' = IF effect THEN [ran EXCEPT ![r] = @ \cup {c}] ELSE ran
    BY DEF Invoke, Go
  <1>2. call[r][c] = "claimed" /\ UNCHANGED <<coordinator, worker, row, events>>
    BY DEF Invoke
  <1>3. /\ row[r].status = "RUNNING"
        /\ ran[r] = {}
        /\ \A b \in Calls \ {c} : call[r][b] \notin Working
    BY <1>2 DEF OneCallWorks, WorkedOnce, Working
  <1>4. /\ call'[r][c] = outcome
        /\ \A s \in Runs, b \in Calls : <<s, b>> # <<r, c>> => call'[s][b] = call[s][b]
    BY <1>1 DEF TypeOK
  <1>5. /\ ran'[r] = IF effect THEN {c} ELSE {}
        /\ \A s \in Runs \ {r} : ran'[s] = ran[s]
    BY <1>1, <1>3 DEF TypeOK
  <1>6. TypeOK'
    <2>1. ran' \in [Runs -> SUBSET Calls]
      BY <1>1 DEF TypeOK
    <2>2. call' \in [Runs -> [Calls -> States]]
      BY <1>1 DEF TypeOK, States
    <2> QED BY <1>2, <2>1, <2>2 DEF TypeOK, coordinator, worker, States
  <1>7. OneCallWorks'
    <2> SUFFICES ASSUME NEW s \in Runs PROVE WorkedOnce(s)'
      BY DEF OneCallWorks
    <2>1. CASE s = r
      BY <2>1, <1>1, <1>2, <1>3, <1>4, <1>5
         DEF WorkedOnce, Claimable, Working, Outcomes, Terminal
    <2>2. CASE s # r
      BY <2>2, <1>2, <1>4, <1>5 DEF OneCallWorks, WorkedOnce
    <2> QED BY <2>1, <2>2
  <1>8. NewTasksAreQuiet' /\ SuccessIsKept'
    BY <1>2, <1>3, <1>5 DEF NewTasksAreQuiet, SuccessIsKept, coordinator
  <1> QED BY <1>6, <1>7, <1>8

LEMMA CompleteWorks ==
    ASSUME ExchangeInductive, NEW r \in Runs, NEW c \in Calls, Complete(r, c)
    PROVE  ExchangeInductive'
  <1> USE DEF ExchangeInductive
  <1>1. PICK outcome \in Outcomes :
           /\ call[r][c] = outcome
           /\ row' = [row EXCEPT ![r].status = outcome,
                                 ![r].result = IF outcome = "SUCCEEDED" THEN c ELSE 0]
    BY DEF Complete
  <1>2. /\ call' = [call EXCEPT ![r][c] = "over"]
        /\ UNCHANGED <<coordinator, worker, ran, events>>
    BY DEF Complete, Go
  <1>3. /\ row[r].status = "RUNNING"
        /\ \A b \in Calls \ {c} : call[r][b] \notin Working
        /\ outcome = "FAILED_RETRYABLE" => ran[r] = {}
        /\ outcome = "SUCCEEDED" => ran[r] = {c}
    BY <1>1 DEF OneCallWorks, WorkedOnce, Working
  <1>4. /\ call'[r][c] = "over"
        /\ \A s \in Runs, b \in Calls : <<s, b>> # <<r, c>> => call'[s][b] = call[s][b]
    BY <1>2 DEF TypeOK
  <1>5. /\ row'[r].status = outcome
        /\ row'[r].result = IF outcome = "SUCCEEDED" THEN c ELSE 0
        /\ \A s \in Runs \ {r} : row'[s] = row[s]
    BY <1>1 DEF TypeOK
  <1>6. TypeOK'
    <2>1. call' \in [Runs -> [Calls -> States]]
      BY <1>2 DEF TypeOK, States
    <2>2. c \in 0..MaxCalls /\ 0 \in 0..MaxCalls
      BY ExchangeAssumption DEF Calls
    <2>3. row \in [Runs -> Row]
      BY DEF TypeOK, Row, Notes
    <2>4. PICK k \in 0..MaxCalls :
             row' = [row EXCEPT ![r] = [row[r] EXCEPT !.status = outcome, !.result = k]]
      BY <1>1, <2>2
    <2>5. [row[r] EXCEPT !.status = outcome, !.result = k] \in Row
      BY <2>3 DEF Row
    <2>6. row' \in [Runs -> Row]
      BY <2>3, <2>4, <2>5
    <2> QED BY <1>2, <2>1, <2>6 DEF TypeOK, coordinator, worker, States, Row, Notes
  <1>7. OneCallWorks'
    <2> SUFFICES ASSUME NEW s \in Runs PROVE WorkedOnce(s)'
      BY DEF OneCallWorks
    <2>1. CASE s = r
      <3>1. \A b \in Calls : call'[r][b] \notin Working
        BY <1>3, <1>4 DEF Working, Outcomes, Terminal
      <3> QED BY <2>1, <3>1, <1>2, <1>3, <1>5
              DEF OneCallWorks, WorkedOnce, Claimable, Outcomes, Terminal
    <2>2. CASE s # r
      BY <2>2, <1>2, <1>4, <1>5 DEF OneCallWorks, WorkedOnce
    <2> QED BY <2>1, <2>2
  <1>8. NewTasksAreQuiet' /\ SuccessIsKept'
    BY <1>2, <1>3, <1>5 DEF NewTasksAreQuiet, SuccessIsKept, coordinator, Outcomes, Terminal
  <1> QED BY <1>6, <1>7, <1>8

LEMMA CrashWorks == ASSUME ExchangeInductive, Crash PROVE ExchangeInductive'
  <1> USE DEF ExchangeInductive
  <1>1. /\ \A r \in Runs : phase'[r] \in {phase[r], "failed"}
        /\ \A r \in Runs : \A c \in Calls : call'[r][c] \in {"none", "over"}
        /\ UNCHANGED <<acked, seen, nudges, got, quoted, worker, row, ran>>
    BY DEF Crash
  <1>2. TypeOK'
    <2>1. events' \in 0..MaxEvents
      BY ExchangeAssumption DEF Crash, TypeOK
    <2>2. DOMAIN phase' = Runs /\ phase' = [r \in Runs |-> phase'[r]]
      BY DEF Crash
    <2>3. call' = [r \in Runs |-> [c \in Calls |-> call'[r][c]]]
      BY DEF Crash
    <2>4. call' \in [Runs -> [Calls -> States]]
      BY <2>3, <1>1 DEF States
    <2>5. phase' \in [Runs -> {"start", "clearing", "saved", "triggered",
                               "polling", "nudging", "listening", "measuring",
                               "returned", "failed"}]
      BY <1>1, <2>2 DEF TypeOK
    <2> QED BY <1>1, <2>1, <2>4, <2>5 DEF TypeOK, worker, States
  <1>3. OneCallWorks'
    BY <1>1 DEF OneCallWorks, WorkedOnce, Working, Outcomes, Terminal
  <1>4. NewTasksAreQuiet' /\ SuccessIsKept'
    BY <1>1 DEF NewTasksAreQuiet, SuccessIsKept
  <1> QED BY <1>2, <1>3, <1>4

-----------------------------------------------------------------------------
LEMMA StageSteps == ASSUME ExchangeInductive, [Next]_vars PROVE ExchangeInductive'
  <1>1. CASE UNCHANGED vars
    BY <1>1 DEF vars, coordinator, worker, api, ExchangeInductive, TypeOK,
                NewTasksAreQuiet, OneCallWorks, WorkedOnce, SuccessIsKept
  <1>2. ASSUME NEW r \in Runs,
               \/ Clear(r) \/ SaveTask(r) \/ Trigger(r) \/ NoteTrigger(r) \/ RequestFails(r)
               \/ Poll(r) \/ Nudge(r) \/ NoteNudge(r) \/ GiveUp(r) \/ Listen(r)
               \/ CaptureUsage(r)
        PROVE  ExchangeInductive'
    BY <1>2, ClearWorks, SaveTaskWorks, TriggerWorks, NoteWorks, GiveUpWorks, PollWorks,
       NudgeWorks, ListenWorks, CaptureUsageWorks
  <1>3. ASSUME NEW r \in Runs, NEW c \in Calls,
               Hydrate(r, c) \/ Validate(r, c) \/ Claim(r, c) \/ Invoke(r, c) \/ Complete(r, c)
        PROVE  ExchangeInductive'
    BY <1>3, HydrateWorks, ValidateWorks, ClaimWorks, InvokeWorks, CompleteWorks
  <1>4. CASE ClearSession \/ TakeCommand \/ Ignore \/ Reply
    BY <1>4, AgentWorks
  <1>5. CASE Ask
    BY <1>5, AskWorks
  <1>6. CASE Crash
    BY <1>6, CrashWorks
  <1> QED BY <1>1, <1>2, <1>3, <1>4, <1>5, <1>6 DEF Next

\* The invariant that the runs of a stage keep, whatever arrives late.
THEOREM ExchangeInvariant == Spec => []ExchangeInductive
  <1> QED BY InitIsQuiet, StageSteps, PTL DEF Spec

LEMMA OneEffectFollows == ASSUME ExchangeInductive PROVE OneEffectPerTask
  <1> SUFFICES ASSUME NEW r \in Runs
               PROVE  /\ Cardinality(ran[r]) <= 1
                      /\ phase[r] = "returned" =>
                            row[r].status = "SUCCEEDED" /\ row[r].result = got[r]
                            /\ ran[r] = {got[r]}
                      /\ quoted[r] \in {r, Nobody}
    BY DEF OneEffectPerTask
  <1>1. \A b, c \in ran[r] : b = c
    BY DEF ExchangeInductive, OneCallWorks, WorkedOnce
  <1>2. Cardinality(ran[r]) <= 1
    <2>1. CASE ran[r] = {}
      BY <2>1, FS_EmptySet
    <2>2. ASSUME NEW c \in ran[r] PROVE Cardinality(ran[r]) <= 1
      <3>1. \A b \in ran[r] : b = c
        BY <1>1, <2>2
      <3>2. ran[r] = {c}
        BY <2>2, <3>1
      <3>3. Cardinality({c}) = 1
        BY FS_Singleton
      <3> QED BY <3>2, <3>3
    <2> QED BY <2>1, <2>2
  <1>3. /\ phase[r] = "returned" => row[r].status = "SUCCEEDED" /\ row[r].result = got[r]
        /\ row[r].status = "SUCCEEDED" => ran[r] = {row[r].result}
        /\ quoted[r] \in {r, Nobody}
    BY DEF ExchangeInductive, SuccessIsKept, OneCallWorks, WorkedOnce
  <1> QED BY <1>2, <1>3

\* However often a command is sent, taken up, given up on or answered, the
\* Skill of a task takes effect once at most, and what a stage returns is what
\* that one call has made.
THEOREM StageHasOneEffect == Spec => []OneEffectPerTask
  <1> QED BY ExchangeInvariant, OneEffectFollows, PTL
-----------------------------------------------------------------------------
(* The proof of a person *)

LEMMA InitIsProven == H!HumanInit => H!HumanInductive
  <1> SUFFICES ASSUME H!HumanInit PROVE H!HumanInductive
    OBVIOUS
  <1>1. H!HumanTypeOK
    BY PersonBounds DEF H!HumanInit, H!HumanTypeOK, H!Forms
  <1>2. H!RequestsAreProven /\ H!ActsAreProven
    BY DEF H!HumanInit, H!RequestsAreProven, H!RequestIsProven, H!ActsAreProven
  <1> QED BY <1>1, <1>2 DEF H!HumanInductive

LEMMA ProofIsItsParts ==
    ASSUME NEW x \in H!Proofs
    PROVE  x = [person |-> x.person, form |-> x.form, action |-> x.action]
  BY DEF H!Proofs

\* A request that is answered keeps nothing.
LEMMA AnswerLetsGo ==
    ASSUME H!HumanTypeOK, NEW r \in Requests, H!Answer(r)
    PROVE  /\ step' \in [Requests -> {"idle", "signing in", "publishing", "committing"}]
           /\ held' \in [Requests -> H!Proofs \cup {H!NoProof}]
           /\ step'[r] = "idle"
           /\ \A q \in Requests \ {r} : step'[q] = step[q] /\ held'[q] = held[q]
  BY DEF H!HumanTypeOK, H!Answer, H!Go

\* What is known about a request in the course of things, when assertions,
\* intents and acts only grow and its own state is what it was.
LEMMA OthersAreKept ==
    ASSUME H!HumanInductive, NEW q \in Requests,
           step'[q] = step[q], held'[q] = held[q], fresh'[q] => fresh[q] /\ form' = form,
           logins \subseteq logins', room \subseteq room', approvers' = approvers
    PROVE  H!RequestIsProven(q)'
  BY DEF H!HumanInductive, H!RequestsAreProven, H!RequestIsProven

\* Acts stay proven while nothing is done: sign-ins and intents are kept.
LEMMA ActsStayProven ==
    ASSUME H!HumanInductive, UNCHANGED acts, logins \subseteq logins', room \subseteq room'
    PROVE  H!ActsAreProven'
  BY DEF H!HumanInductive, H!ActsAreProven

LEMMA SignInWorks ==
    ASSUME H!HumanInductive, NEW r \in Requests, NEW p \in Persons, NEW a \in H!Actions,
           H!SignIn(r, p, a)
    PROVE  H!HumanInductive'
  <1> USE DEF H!HumanInductive
  <1> DEFINE x == [person |-> p, form |-> form, action |-> a]
  <1>1. x \in H!Proofs
    BY DEF H!Proofs, H!HumanTypeOK
  <1>2. /\ step' = [step EXCEPT ![r] = "signing in"]
        /\ held' = [held EXCEPT ![r] = x]
        /\ UNCHANGED <<status, form, forms, approvers, deployments, valid, fresh,
                       logins, room, acts>>
    BY DEF H!SignIn, H!Go, H!case, H!server, H!past
  <1> HIDE DEF x
  <1>3. H!HumanTypeOK'
    BY <1>1, <1>2 DEF H!HumanTypeOK
  <1>4. /\ step'[r] = "signing in" /\ held'[r] = x
        /\ \A q \in Requests \ {r} : step'[q] = step[q] /\ held'[q] = held[q]
    BY <1>2 DEF H!HumanTypeOK
  <1>5. H!RequestsAreProven'
    <2>1. \A q \in Requests \ {r} : H!RequestIsProven(q)'
      BY <1>2, <1>4, OthersAreKept
    <2> QED BY <1>1, <1>4, <2>1 DEF H!RequestsAreProven, H!RequestIsProven
  <1>6. H!ActsAreProven'
    BY <1>2, ActsStayProven
  <1> QED BY <1>3, <1>5, <1>6

LEMMA IssueWorks ==
    ASSUME H!HumanInductive, NEW r \in Requests, H!Issue(r)
    PROVE  H!HumanInductive'
  <1> USE DEF H!HumanInductive
  <1>1. /\ step[r] = "signing in"
        /\ logins' = logins \cup {held[r]}
        /\ valid' = valid \cup {held[r]}
        /\ H!Answer(r)
        /\ UNCHANGED <<status, form, forms, approvers, deployments, fresh, room, acts>>
    BY DEF H!Issue, H!case
  <1>2. held[r] \in H!Proofs
    BY <1>1 DEF H!RequestsAreProven, H!RequestIsProven
  <1>3. /\ step' \in [Requests -> {"idle", "signing in", "publishing", "committing"}]
        /\ held' \in [Requests -> H!Proofs \cup {H!NoProof}]
        /\ step'[r] = "idle"
        /\ \A q \in Requests \ {r} : step'[q] = step[q] /\ held'[q] = held[q]
    BY <1>1, AnswerLetsGo
  <1>4. H!HumanTypeOK'
    BY <1>1, <1>2, <1>3 DEF H!HumanTypeOK
  <1>5. H!RequestsAreProven'
    <2>1. \A q \in Requests \ {r} : H!RequestIsProven(q)'
      BY <1>1, <1>3, OthersAreKept
    <2> QED BY <1>3, <2>1 DEF H!RequestsAreProven, H!RequestIsProven
  <1>6. H!ActsAreProven'
    BY <1>1, ActsStayProven
  <1> QED BY <1>4, <1>5, <1>6

\* A refusal, of a sign-in or of a decision.
LEMMA RefusalWorks ==
    ASSUME H!HumanInductive, NEW r \in Requests, H!RefuseSignIn(r) \/ H!RefuseDecision(r)
    PROVE  H!HumanInductive'
  <1> USE DEF H!HumanInductive
  <1>1. /\ H!Answer(r)
        /\ fresh' \in {fresh, [fresh EXCEPT ![r] = FALSE]}
        /\ UNCHANGED <<status, form, forms, approvers, deployments, valid, logins, room, acts>>
    BY DEF H!RefuseSignIn, H!RefuseDecision, H!case, H!server, H!past
  <1>2. fresh' \in [Requests -> BOOLEAN] /\ \A q \in Requests : fresh'[q] => fresh[q]
    BY <1>1 DEF H!HumanTypeOK
  <1>3. /\ step' \in [Requests -> {"idle", "signing in", "publishing", "committing"}]
        /\ held' \in [Requests -> H!Proofs \cup {H!NoProof}]
        /\ step'[r] = "idle"
        /\ \A q \in Requests \ {r} : step'[q] = step[q] /\ held'[q] = held[q]
    BY <1>1, AnswerLetsGo
  <1>4. H!HumanTypeOK'
    BY <1>1, <1>2, <1>3 DEF H!HumanTypeOK
  <1>5. H!RequestsAreProven'
    <2>1. \A q \in Requests \ {r} : H!RequestIsProven(q)'
      BY <1>1, <1>2, <1>3, OthersAreKept
    <2> QED BY <1>3, <2>1 DEF H!RequestsAreProven, H!RequestIsProven
  <1>6. H!ActsAreProven'
    BY <1>1, ActsStayProven
  <1> QED BY <1>4, <1>5, <1>6
\* What is presented is what was signed: the form and the action are the
\* assertion's own, though the request goes by the row that it has read.
LEMMA ProvenIsSigned ==
    ASSUME H!HumanInductive, NEW x \in valid, NEW a, H!Proven(x, a)
    PROVE  /\ x \in H!Proofs /\ x \in logins
           /\ x = [person |-> x.person, form |-> form, action |-> a]
           /\ x.person \in approvers
  <1>1. x \in H!Proofs /\ x \in logins
    BY DEF H!HumanInductive, H!HumanTypeOK
  <1>2. x.form = form /\ x.action = a /\ x.person \in approvers
    BY DEF H!Proven, H!Fits
  <1> QED BY <1>1, <1>2, ProofIsItsParts

LEMMA PresentWorks ==
    ASSUME H!HumanInductive, NEW r \in Requests, NEW x \in valid, NEW a \in H!Decisions,
           H!Present(r, x, a)
    PROVE  H!HumanInductive'
  <1> USE DEF H!HumanInductive
  <1>1. /\ x \in H!Proofs /\ x \in logins
        /\ x = [person |-> x.person, form |-> form, action |-> a]
        /\ x.person \in approvers
    BY ProvenIsSigned DEF H!Present
  <1>2. x.form = form /\ x.action = a
    BY DEF H!Present, H!Proven, H!Fits
  <1>3. /\ step' = [step EXCEPT ![r] = "publishing"]
        /\ held' = [held EXCEPT ![r] = x]
        /\ fresh' = [fresh EXCEPT ![r] = TRUE]
        /\ UNCHANGED <<status, form, forms, approvers, deployments, valid, logins, room, acts>>
    BY <1>1 DEF H!Present, H!Go, H!case, H!server, H!past
  <1>4. H!HumanTypeOK'
    BY <1>1, <1>3 DEF H!HumanTypeOK
  <1>5. /\ step'[r] = "publishing" /\ held'[r] = x
        /\ \A q \in Requests \ {r} :
              step'[q] = step[q] /\ held'[q] = held[q] /\ fresh'[q] = fresh[q]
    BY <1>3 DEF H!HumanTypeOK
  <1>6. H!RequestsAreProven'
    <2>1. \A q \in Requests \ {r} : H!RequestIsProven(q)'
      BY <1>3, <1>5, OthersAreKept
    <2>2. H!RequestIsProven(r)'
      <3>1. x \in logins' /\ x.person \in approvers' /\ x.action \in H!Decisions
            /\ x.form = form'
        BY <1>1, <1>2, <1>3
      <3> QED BY <3>1, <1>5 DEF H!RequestIsProven
    <2> QED BY <2>1, <2>2 DEF H!RequestsAreProven
  <1>7. H!ActsAreProven'
    BY <1>3, ActsStayProven
  <1> QED BY <1>4, <1>6, <1>7

LEMMA PublishWorks ==
    ASSUME H!HumanInductive, NEW r \in Requests, H!Publish(r)
    PROVE  H!HumanInductive'
  <1> USE DEF H!HumanInductive
  <1>1. /\ step[r] = "publishing"
        /\ room' \in {room, room \cup {held[r]}}
        /\ UNCHANGED <<status, form, forms, approvers, deployments, valid, logins, acts>>
    BY DEF H!Publish, H!case, H!server
  <1>2. held[r] \in logins /\ logins \subseteq H!Proofs
    BY <1>1 DEF H!RequestsAreProven, H!RequestIsProven, H!HumanTypeOK
  <1>3. H!ActsAreProven'
    BY <1>1, ActsStayProven
  <1>4. CASE H!Answer(r) /\ fresh' = [fresh EXCEPT ![r] = FALSE]
    <2>1. fresh' \in [Requests -> BOOLEAN] /\ \A q \in Requests : fresh'[q] => fresh[q]
      BY <1>4 DEF H!HumanTypeOK
    <2>2. /\ step' \in [Requests -> {"idle", "signing in", "publishing", "committing"}]
          /\ held' \in [Requests -> H!Proofs \cup {H!NoProof}]
          /\ step'[r] = "idle"
          /\ \A q \in Requests \ {r} : step'[q] = step[q] /\ held'[q] = held[q]
      BY <1>4, AnswerLetsGo
    <2>3. H!HumanTypeOK'
      BY <1>1, <1>2, <2>1, <2>2 DEF H!HumanTypeOK
    <2>4. \A q \in Requests \ {r} : H!RequestIsProven(q)'
      BY <1>1, <2>1, <2>2, OthersAreKept
    <2> QED BY <1>3, <2>2, <2>3, <2>4 DEF H!RequestsAreProven, H!RequestIsProven
  <1>5. CASE /\ room' = room \cup {held[r]}
             /\ H!Go(r, "committing") /\ UNCHANGED <<held, fresh>>
    <2>1. /\ step'[r] = "committing"
          /\ \A q \in Requests \ {r} : step'[q] = step[q]
      BY <1>5 DEF H!Go, H!HumanTypeOK
    <2>2. H!HumanTypeOK'
      BY <1>1, <1>2, <1>5 DEF H!HumanTypeOK, H!Go
    <2>3. \A q \in Requests \ {r} : H!RequestIsProven(q)'
      BY <1>1, <1>5, <2>1, OthersAreKept
    <2>4. H!RequestIsProven(r)'
      BY <1>1, <1>5, <2>1 DEF H!RequestsAreProven, H!RequestIsProven
    <2> QED BY <1>3, <2>2, <2>3, <2>4 DEF H!RequestsAreProven
  <1> QED BY <1>4, <1>5 DEF H!Publish

\* An act for a form that is not decided yet, in the name of a person who may.
LEMMA ActWorks ==
    ASSUME H!HumanInductive, NEW x \in H!Proofs, NEW way \in {"WEB", "ROOM"},
           H!Record(x, way), x.person \in approvers,
           x.action \in H!Decisions => ~H!Decided(x.form),
           way = "WEB" => x \in logins,
           way = "WEB" /\ x.action \in H!Decisions => x \in room,
           UNCHANGED <<logins, room>>
    PROVE  acts' \subseteq H!Acts /\ H!ActsAreProven'
  <1> DEFINE y == [proof |-> x, by |-> way, allowed |-> TRUE]
  <1>1. acts' = acts \cup {y}
    BY DEF H!Record
  <1>2. y \in H!Acts
    BY DEF H!Acts
  <1>3. y.proof = x /\ y.by = way /\ y.allowed
    OBVIOUS
  <1> HIDE DEF y
  <1>4. acts' \subseteq H!Acts
    BY <1>1, <1>2 DEF H!HumanInductive, H!HumanTypeOK
  <1>5. \A z \in acts' :
           /\ z.allowed
           /\ z.by = "WEB" => z.proof \in logins'
           /\ z.by = "WEB" /\ z.proof.action \in H!Decisions => z.proof \in room'
    BY <1>1, <1>3 DEF H!HumanInductive, H!ActsAreProven
  <1>6. \A z \in acts :
           z.proof.action \in H!Decisions /\ x.action \in H!Decisions => z.proof.form # x.form
    BY DEF H!Decided
  <1>7. \A z, u \in acts' :
           /\ z.proof.action \in H!Decisions /\ u.proof.action \in H!Decisions
           /\ z.proof.form = u.proof.form
           => z = u
    BY <1>1, <1>3, <1>6 DEF H!HumanInductive, H!ActsAreProven
  <1> QED BY <1>4, <1>5, <1>7 DEF H!ActsAreProven

LEMMA CommitDecisionWorks ==
    ASSUME H!HumanInductive, NEW r \in Requests, H!CommitDecision(r)
    PROVE  H!HumanInductive'
  <1> USE DEF H!HumanInductive
  <1>1. /\ step[r] = "committing"
        /\ H!Take(held[r], "WEB") /\ H!Answer(r)
        /\ UNCHANGED <<form, forms, approvers, deployments, valid, logins, room>>
    BY DEF H!CommitDecision, H!server
  <1>2. /\ ~H!Decided(held[r].form)
        /\ H!Record(held[r], "WEB")
        /\ status' \in {"READY", "REJECTED"}
        /\ fresh' = [q \in Requests |-> FALSE]
    BY <1>1 DEF H!Take, H!Rewritten
  <1>3. /\ held[r] \in logins /\ held[r] \in room /\ held[r] \in H!Proofs
        /\ held[r].person \in approvers
    BY <1>1 DEF H!RequestsAreProven, H!RequestIsProven, H!HumanTypeOK
  <1>4. acts' \subseteq H!Acts /\ H!ActsAreProven'
    BY <1>1, <1>2, <1>3, ActWorks
  <1>5. /\ step' \in [Requests -> {"idle", "signing in", "publishing", "committing"}]
        /\ held' \in [Requests -> H!Proofs \cup {H!NoProof}]
        /\ step'[r] = "idle"
        /\ \A q \in Requests \ {r} : step'[q] = step[q] /\ held'[q] = held[q]
    BY <1>1, AnswerLetsGo
  <1>6. H!HumanTypeOK'
    BY <1>1, <1>2, <1>4, <1>5 DEF H!HumanTypeOK
  <1>7. \A q \in Requests \ {r} : H!RequestIsProven(q)'
    BY <1>1, <1>2, <1>5, OthersAreKept
  <1> QED BY <1>4, <1>5, <1>6, <1>7 DEF H!RequestsAreProven, H!RequestIsProven

\* A write of the case row beside the requests, which may all have read it
\* before: they go on, and none of them is fresh.
LEMMA CaseIsRewritten ==
    ASSUME H!HumanInductive, H!Rewritten,
           UNCHANGED <<approvers, step, held, logins, room>>
    PROVE  fresh' \in [Requests -> BOOLEAN] /\ H!RequestsAreProven'
  <1>1. \A q \in Requests : ~fresh'[q]
    BY DEF H!Rewritten
  <1>2. \A q \in Requests : H!RequestIsProven(q)'
    BY <1>1, OthersAreKept
  <1> QED BY <1>2 DEF H!Rewritten, H!RequestsAreProven

LEMMA DecideInRoomWorks ==
    ASSUME H!HumanInductive, NEW p \in Persons, NEW i \in H!Forms, NEW a \in H!Decisions,
           H!DecideInRoom(p, i, a)
    PROVE  H!HumanInductive'
  <1> USE DEF H!HumanInductive
  <1> DEFINE x == [person |-> p, form |-> i, action |-> a]
  <1>1. x \in H!Proofs
    BY DEF H!Proofs, H!Actions
  <1>2. x.person = p /\ x.form = i /\ x.action = a
    OBVIOUS
  <1>3. /\ p \in approvers /\ H!Take(x, "ROOM")
        /\ UNCHANGED <<form, forms, approvers, deployments, valid, step, held, logins, room>>
    BY DEF H!DecideInRoom, H!server
  <1> HIDE DEF x
  <1>4. /\ ~H!Decided(x.form) /\ H!Record(x, "ROOM")
        /\ status' \in {"READY", "REJECTED"} /\ H!Rewritten
    BY <1>3 DEF H!Take
  <1>5. acts' \subseteq H!Acts /\ H!ActsAreProven'
    BY <1>1, <1>2, <1>3, <1>4, ActWorks
  <1>6. fresh' \in [Requests -> BOOLEAN] /\ H!RequestsAreProven'
    BY <1>3, <1>4, CaseIsRewritten
  <1>7. H!HumanTypeOK'
    BY <1>3, <1>4, <1>5, <1>6 DEF H!HumanTypeOK
  <1> QED BY <1>5, <1>6, <1>7

LEMMA ResumeRunWorks ==
    ASSUME H!HumanInductive, NEW x \in valid, H!ResumeRun(x)
    PROVE  H!HumanInductive'
  <1> USE DEF H!HumanInductive
  <1>1. /\ x \in H!Proofs /\ x \in logins
        /\ x = [person |-> x.person, form |-> form, action |-> "RESUME"]
        /\ x.person \in approvers
    BY ProvenIsSigned DEF H!ResumeRun
  <1>2. /\ H!Record(x, "WEB")
        /\ status' = "READY" /\ H!Rewritten
        /\ UNCHANGED <<form, forms, approvers, deployments, valid, step, held, logins, room>>
    BY <1>1 DEF H!ResumeRun, H!server
  <1>3. x.action \notin H!Decisions
    BY DEF H!ResumeRun, H!Proven, H!Fits, H!Decisions
  <1>4. acts' \subseteq H!Acts /\ H!ActsAreProven'
    BY <1>1, <1>2, <1>3, ActWorks
  <1>5. fresh' \in [Requests -> BOOLEAN] /\ H!RequestsAreProven'
    BY <1>2, CaseIsRewritten
  <1>6. H!HumanTypeOK'
    BY <1>2, <1>4, <1>5 DEF H!HumanTypeOK
  <1> QED BY <1>4, <1>5, <1>6

\* The run, its re-preparation, and a question of its own.
LEMMA CaseMovesWork ==
    ASSUME H!HumanInductive,
           H!AskForApproval \/ H!RunReports \/ H!RunStops \/ H!ReprepareCase
    PROVE  H!HumanInductive'
  <1> USE DEF H!HumanInductive
  <1>1. /\ H!Rewritten
        /\ UNCHANGED <<approvers, deployments, valid, step, held, logins, room, acts>>
    BY DEF H!AskForApproval, H!RunReports, H!RunStops, H!ReprepareCase, H!server, H!past, H!case
  <1>2. /\ status' \in {"NEW", "WAITING", "READY", "REJECTED", "RECOVERY"}
        /\ form' \in H!Forms /\ forms' \in H!Forms
    <2>1. status \in {"NEW", "WAITING", "READY", "REJECTED", "RECOVERY"}
          /\ form \in 0..MaxForms /\ forms \in 0..MaxForms /\ MaxForms \in Nat
      BY PersonBounds DEF H!HumanTypeOK, H!Forms
    <2>2. CASE H!AskForApproval
      BY <2>1, <2>2 DEF H!AskForApproval, H!Forms
    <2>3. CASE H!RunReports \/ H!RunStops
      BY <2>1, <2>3 DEF H!RunReports, H!RunStops, H!case, H!Forms
    <2>4. CASE H!ReprepareCase
      BY <2>1, <2>4 DEF H!ReprepareCase, H!Forms
    <2> QED BY <2>2, <2>3, <2>4
  <1>3. fresh' \in [Requests -> BOOLEAN] /\ H!RequestsAreProven'
    BY <1>1, CaseIsRewritten
  <1>4. H!HumanTypeOK'
    BY <1>1, <1>2, <1>3 DEF H!HumanTypeOK
  <1>5. H!ActsAreProven'
    BY <1>1, ActsStayProven
  <1> QED BY <1>3, <1>4, <1>5

LEMMA ExpireProofWorks ==
    ASSUME H!HumanInductive, NEW x \in valid, H!ExpireProof(x)
    PROVE  H!HumanInductive'
  <1> USE DEF H!HumanInductive
  <1>1. /\ valid' \subseteq valid
        /\ UNCHANGED <<status, form, forms, approvers, deployments, step, held, fresh,
                       logins, room, acts>>
    BY DEF H!ExpireProof, H!case, H!calls, H!past
  <1>2. H!HumanTypeOK'
    BY <1>1 DEF H!HumanTypeOK
  <1>3. H!RequestsAreProven'
    BY <1>1, OthersAreKept DEF H!RequestsAreProven
  <1>4. H!ActsAreProven'
    BY <1>1, ActsStayProven
  <1> QED BY <1>2, <1>3, <1>4

\* Another allow-list comes with a restart: nobody is on the way by then.
LEMMA RedeployWorks ==
    ASSUME H!HumanInductive, NEW A \in SUBSET Persons, H!Redeploy(A)
    PROVE  H!HumanInductive'
  <1> USE DEF H!HumanInductive
  <1>0. deployments' \in 0..MaxDeployments
    <2>1. deployments \in 0..MaxDeployments /\ MaxDeployments \in Nat
      BY PersonBounds DEF H!HumanTypeOK
    <2> QED BY <2>1 DEF H!Redeploy
  <1>1. /\ approvers' = A
        /\ step' = [q \in Requests |-> "idle"]
        /\ held' = [q \in Requests |-> H!NoProof]
        /\ fresh' = [q \in Requests |-> FALSE]
        /\ UNCHANGED <<status, form, forms, valid, logins, room, acts>>
    BY DEF H!Redeploy, H!Rewritten, H!case, H!past
  <1>2. H!HumanTypeOK'
    BY <1>0, <1>1 DEF H!HumanTypeOK
  <1>3. H!RequestsAreProven'
    BY <1>1 DEF H!RequestsAreProven, H!RequestIsProven
  <1>4. H!ActsAreProven'
    BY <1>1, ActsStayProven
  <1> QED BY <1>2, <1>3, <1>4

-----------------------------------------------------------------------------
LEMMA PersonSteps ==
    ASSUME H!HumanInductive, [H!HumanNext]_(H!humanVars) PROVE H!HumanInductive'
  <1>1. CASE UNCHANGED H!humanVars
    <2>1. UNCHANGED <<status, form, forms, approvers, deployments, valid, step, held, fresh,
                      logins, room, acts>>
      BY <1>1 DEF H!humanVars, H!case, H!server, H!calls, H!past
    <2> QED BY <2>1 DEF H!HumanInductive, H!HumanTypeOK, H!RequestsAreProven,
                        H!RequestIsProven, H!ActsAreProven
  <1>2. ASSUME NEW r \in Requests, NEW p \in Persons, NEW a \in H!Actions, H!SignIn(r, p, a)
        PROVE  H!HumanInductive'
    BY <1>2, SignInWorks
  <1>3. ASSUME NEW r \in Requests,
               \/ H!Issue(r) \/ H!RefuseSignIn(r)
               \/ \E x \in valid, a \in H!Decisions : H!Present(r, x, a)
               \/ H!Publish(r) \/ H!CommitDecision(r) \/ H!RefuseDecision(r)
        PROVE  H!HumanInductive'
    BY <1>3, IssueWorks, RefusalWorks, PresentWorks, PublishWorks, CommitDecisionWorks
  <1>4. ASSUME NEW x \in valid, H!ExpireProof(x) \/ H!ResumeRun(x)
        PROVE  H!HumanInductive'
    BY <1>4, ExpireProofWorks, ResumeRunWorks
  <1>5. ASSUME NEW p \in Persons, NEW i \in H!Forms, NEW a \in H!Decisions,
               H!DecideInRoom(p, i, a)
        PROVE  H!HumanInductive'
    BY <1>5, DecideInRoomWorks
  <1>6. CASE H!AskForApproval \/ H!RunReports \/ H!RunStops \/ H!ReprepareCase
    BY <1>6, CaseMovesWork
  <1>7. ASSUME NEW A \in SUBSET Persons, H!Redeploy(A)
        PROVE  H!HumanInductive'
    BY <1>7, RedeployWorks
  <1> QED BY <1>1, <1>2, <1>3, <1>4, <1>5, <1>6, <1>7 DEF H!HumanNext

\* What is known of the requests that carry a person's proof.
THEOREM PersonInvariant == H!HumanSpec => []H!HumanInductive
  <1>1. H!HumanInit => H!HumanInductive
    BY InitIsProven
  <1>2. H!HumanInductive /\ [H!HumanNext]_(H!humanVars) => H!HumanInductive'
    BY PersonSteps
  <1> QED BY <1>1, <1>2, PTL DEF H!HumanSpec

\* Whatever is replayed, expires, or is decided by two people at once: what was
\* done in a person's name that person was allowed to do, had signed in for and
\* announced, and no form is decided twice.
THEOREM PersonsActsAreProven == H!HumanSpec => []ActsAreProven
  <1>1. H!HumanInductive => ActsAreProven
    BY DEF H!HumanInductive, ActsAreProven
  <1> QED BY <1>1, PersonInvariant, PTL
=============================================================================
