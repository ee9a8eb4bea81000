--------------------------- MODULE ApprovalBridge ---------------------------
(***************************************************************************)
(* Approvals that are decided in the Matrix room or in the WebUI.          *)
(*                                                                         *)
(* A run that reaches the gate publishes a request in the room and records *)
(* its event in the case row.  The bridge reads the room in batches; a     *)
(* batch is compared with the requests that are open when it is handled,   *)
(* and what counts as a reply goes through the decision transaction that   *)
(* the WebUI uses (matrix_approval.py, api.py, matrix_team.py:370).        *)
(*                                                                         *)
(* An approval is named by its case and the recording it was made in; so   *)
(* is the event of its request, whose transaction id is made of the two.   *)
(* Messages of others, and those that are no decision, are left out.       *)
(***************************************************************************)
EXTENDS Naturals, Sequences, FiniteSets

CONSTANTS
  Cases,
  WebUI,          \* who decides there
  Decisions,      \* APPROVED and REJECTED
  Plain,          \* a message that replies to nothing
  Nobody,
  MaxRecordings,  \* bound: how often a case is prepared again
  MaxApprovals,   \* bound: approvals asked for
  MaxMessages     \* bound: decisions sent to the room

ASSUME BridgeAssumption ==
  /\ MaxRecordings \in Nat
  /\ MaxApprovals \in Nat
  /\ MaxMessages \in Nat
  /\ WebUI # Nobody
  /\ {WebUI, Nobody} \cap Nat = {}
  /\ Plain \notin Cases \X (0..MaxRecordings)
  /\ {"NONE", "PENDING"} \cap Decisions = {}

Approvals == Cases \X (0..MaxRecordings)
Messages  == 1..MaxMessages
Deciders  == Messages \cup {WebUI}

VARIABLES
  direct,    \* REVGUARD_MATRIX_APPROVAL_ALLOW_UNTHREADED_REPLY
  replica,   \* REVGUARD_READ_DATABASE_URL: lists are read from a replica
  row,       \* the case rows
  before,    \* the rows before the last commit, which a replica may still have
  approval,  \* the state of each approval
  by,        \* whose decision it was
  run,       \* the run of a case and its step in publishing the request
  sent,      \* requests in the room
  expired,   \* requests whose time is over
  room,      \* decisions in the room
  bridge,    \* what the bridge does
  cursor,    \* messages it is done with
  upto,      \* the end of its batch
  known,     \* the requests that were open when the batch came
  taken,     \* the approval a reply counts for, and the row it was read with
  answer     \* what the room was told of each message

settings == <<direct, replica>>
database == <<row, before, approval, by>>
requests == <<run, sent, expired>>
reading  == <<bridge, cursor, upto, known, taken, answer>>
vars     == <<settings, database, requests, room, reading>>

Statuses == {"investigating", "waiting", "decided"}
Rows     == [status : Statuses, rec : 0..MaxRecordings, request : BOOLEAN]
Answers  == {"none", "ignored", "accepted", "conflict", "unconfirmed"}

\* The approval that the row of a case is about.
Approval(c, r) == <<c, r.rec>>

Idle == [at |-> "idle"]

Init ==
  /\ direct \in BOOLEAN
  /\ replica \in BOOLEAN
  /\ row = [c \in Cases |-> [status |-> "investigating", rec |-> 0, request |-> FALSE]]
  /\ before = row
  /\ approval = [a \in Approvals |-> "NONE"]
  /\ by = [a \in Approvals |-> Nobody]
  /\ run = [c \in Cases |-> "investigating"]
  /\ sent = {}
  /\ expired = {}
  /\ room = <<>>
  /\ bridge = "reading"
  /\ cursor = 0
  /\ upto = 0
  /\ known = {}
  /\ taken = Idle
  /\ answer = [m \in Messages |-> "none"]

Commit(c, r) ==
  /\ row' = [row EXCEPT ![c] = r]
  /\ before' = IF replica THEN row ELSE row'

-----------------------------------------------------------------------------
\* The run of a case.

\* The approval and the transition are one commit.
ReachGate(c) ==
  /\ run[c] = "investigating"
  /\ row[c].status = "investigating"
  /\ Cardinality({a \in Approvals : approval[a] # "NONE"}) < MaxApprovals
  /\ Commit(c, [row[c] EXCEPT !.status = "waiting"])
  /\ approval' = [approval EXCEPT ![Approval(c, row[c])] = "PENDING"]
  /\ run' = [run EXCEPT ![c] = "gate"]
  /\ UNCHANGED <<settings, by, sent, expired, room, reading>>

\* The request is sent for an approval that was seen to be open.  It arrives
\* before the homeserver's answer does, if that does.
SendRequest(c) ==
  /\ run[c] = "gate"
  /\ sent' = sent \cup {Approval(c, row[c])}
  /\ run' = [run EXCEPT ![c] = "sent"]
  /\ UNCHANGED <<settings, database, expired, room, reading>>

\* The event is recorded unless the row has changed meanwhile.
RecordRequest(c) ==
  /\ run[c] = "sent"
  /\ run' = [run EXCEPT ![c] = "none"]
  /\ IF row[c].status = "waiting"
     THEN Commit(c, [row[c] EXCEPT !.request = TRUE])
     ELSE UNCHANGED <<row, before>>
  /\ UNCHANGED <<settings, approval, by, sent, expired, room, reading>>

\* The approval is no longer open, the homeserver does not answer, or the
\* process is gone.  Without a recorded request a decision is made in the WebUI.
LoseRun(c) ==
  /\ run[c] \in {"gate", "sent"}
  /\ run' = [run EXCEPT ![c] = "none"]
  /\ UNCHANGED <<settings, database, sent, expired, room, reading>>

\* approval_request_expires_at has passed, of a request that matters still.
Expire(c) ==
  /\ row[c].status = "waiting"
  /\ Approval(c, row[c]) \in sent \ expired
  /\ expired' = expired \cup {Approval(c, row[c])}
  /\ UNCHANGED <<settings, database, run, sent, room, reading>>

\* A case that has come to its end is prepared again: the approvals of the
\* recording are deleted.  No run is under way; the bridge, which has no
\* lease, may be.
Reprepare(c) ==
  /\ row[c].status = "decided"
  /\ row[c].rec < MaxRecordings
  /\ run[c] = "none"
  /\ Commit(c, [status |-> "investigating", rec |-> row[c].rec + 1, request |-> FALSE])
  /\ run' = [run EXCEPT ![c] = "investigating"]
  /\ UNCHANGED <<settings, approval, by, sent, expired, room, reading>>

-----------------------------------------------------------------------------
\* The decision transaction.

\* get_approval and its status.
Open(c, r) == approval[Approval(c, r)] = "PENDING"

\* Mutant: the transaction trusts the caller's reading of the row.
MayDecideUnread(c, r) == r.status = "waiting"

\* decide_case_approval compares the row with the snapshot of the caller.
MayDecide(c, r) ==
  /\ row[c] = r
  /\ r.status = "waiting"
  /\ Open(c, r)

Decide(c, r, decision, who) ==
  /\ MayDecide(c, r)
  /\ Commit(c, [r EXCEPT !.status = "decided"])
  /\ approval' = [approval EXCEPT ![Approval(c, r)] = decision]
  /\ by' = [by EXCEPT ![Approval(c, r)] = who]

-----------------------------------------------------------------------------
\* The WebUI.

\* Its request reads the row, sends its intent to the room and decides; that
\* the row has not changed meanwhile makes it one step.
WebDecide(c) ==
  /\ \E d \in Decisions : Decide(c, row[c], d, WebUI)
  /\ UNCHANGED <<settings, requests, room, reading>>

-----------------------------------------------------------------------------
\* The room.

\* An approver writes a decision, as a reply to a request or to nothing.  It
\* is noted whether its request was over, and whether it was recorded.
Write(to, says) ==
  /\ Len(room) < MaxMessages
  /\ to \in sent \cup {Plain}
  /\ room' = Append(room,
       [to |-> to, says |-> says, late |-> to \in expired,
        timely |-> \E c \in Cases : row[c].request /\ to = Approval(c, row[c])])
  /\ UNCHANGED <<settings, database, requests, reading>>

-----------------------------------------------------------------------------
\* The bridge.

\* _pending_matrix_approvals: the rows of the list, with the approvals as they
\* are.
Pending(rows) ==
  {<<c, rows[c].rec>> : c \in {d \in Cases :
      /\ rows[d].status = "waiting"
      /\ rows[d].request
      /\ Open(d, row[d])
      /\ <<d, rows[d].rec>> \notin expired}}

\* Mutant: the requests are looked up when the bridge starts, and never again.
ReadBatchOnce ==
  /\ bridge = "reading"
  /\ cursor < Len(room)
  /\ upto' = Len(room)
  /\ known' = IF upto = 0 THEN Pending(row) ELSE known
  /\ bridge' = "handling"
  /\ UNCHANGED <<settings, database, requests, room, cursor, taken, answer>>

\* A batch has come: the requests are looked up once, before its first event.
ReadBatch ==
  /\ bridge = "reading"
  /\ cursor < Len(room)
  /\ upto' = Len(room)
  /\ \/ known' = Pending(row)
     \/ replica /\ known' = Pending(before)
  /\ bridge' = "handling"
  /\ UNCHANGED <<settings, database, requests, room, cursor, taken, answer>>

\* Mutant: the only open request is meant, whether or not the room may say so.
CountsForOnly(m) ==
  LET for == IF m.to \in known THEN {m.to}
             ELSE IF Cardinality(known) = 1 THEN known
             ELSE {}
  IN for \ expired

\* parse_approval_reply: the approvals a message counts for, at most one.
CountsFor(m) ==
  LET for == IF m.to \in known THEN {m.to}
             ELSE IF direct /\ Cardinality(known) = 1 THEN known
             ELSE {}
  IN for \ expired

\* The message is done with; the batch ends with its last one.
Done(told) ==
  /\ answer' = [answer EXCEPT ![cursor + 1] = told]
  /\ cursor' = cursor + 1
  /\ bridge' = IF cursor + 1 = upto THEN "reading" ELSE "handling"
  /\ known' = IF cursor + 1 = upto THEN {} ELSE known
  /\ taken' = Idle
  /\ UNCHANGED upto

Message == room[cursor + 1]

Ignore ==
  /\ bridge = "handling"
  /\ CountsFor(Message) = {}
  /\ Done("ignored")
  /\ UNCHANGED <<settings, database, requests, room>>

\* The reply is taken: the case has the approval and waits for it, or the
\* room is told of a conflict.
Take ==
  /\ bridge = "handling"
  /\ \E a \in CountsFor(Message) :
       LET c == a[1] IN
       IF row[c].rec = a[2] /\ row[c].status = "waiting"
       THEN /\ taken' = [at |-> "commit", case |-> c, row |-> row[c]]
            /\ bridge' = "deciding"
            /\ UNCHANGED <<cursor, upto, known, answer>>
       ELSE Done("conflict")
  /\ UNCHANGED <<settings, database, requests, room>>

\* The decision commits.
RoomDecide ==
  /\ bridge = "deciding"
  /\ Decide(taken.case, taken.row, Message.says, cursor + 1)
  /\ bridge' = "decided"
  /\ UNCHANGED <<settings, requests, room, cursor, upto, known, taken, answer>>

\* Mutant: the room is told of a decision that the transaction has refused.
RoomConflictAccepted ==
  /\ bridge = "deciding"
  /\ ~MayDecide(taken.case, taken.row)
  /\ Done("accepted")
  /\ UNCHANGED <<settings, database, requests, room>>

\* The transaction refuses it.
RoomConflict ==
  /\ bridge = "deciding"
  /\ ~MayDecide(taken.case, taken.row)
  /\ Done("conflict")
  /\ UNCHANGED <<settings, database, requests, room>>

\* The run is dispatched, or the rejected case archived, and the room is told.
Accept ==
  /\ bridge = "decided"
  /\ Done("accepted")
  /\ UNCHANGED <<settings, database, requests, room>>

\* The transaction fails, its result is lost, or what follows it fails.
Unconfirmed ==
  /\ bridge \in {"deciding", "decided"}
  /\ Done("unconfirmed")
  /\ UNCHANGED <<settings, database, requests, room>>

\* The process ends, or the loop does with an error it does not catch.  The
\* next bridge starts at the end of the room: what is written until then is
\* never read.
RestartBridge ==
  /\ bridge' = "reading"
  /\ cursor' = Len(room)
  /\ upto' = Len(room)
  /\ known' = {}
  /\ taken' = Idle
  /\ UNCHANGED <<settings, database, requests, room, answer>>

-----------------------------------------------------------------------------
Bridge ==
  \/ ReadBatch
  \/ Ignore
  \/ Take
  \/ RoomDecide
  \/ RoomConflict
  \/ Accept
  \/ Unconfirmed

Next ==
  \/ \E c \in Cases :
        \/ ReachGate(c) \/ SendRequest(c) \/ RecordRequest(c)
        \/ LoseRun(c) \/ Expire(c) \/ Reprepare(c) \/ WebDecide(c)
  \/ \E to \in Approvals \cup {Plain}, d \in Decisions : Write(to, d)
  \/ Bridge
  \/ RestartBridge

Spec == Init /\ [][Next]_vars

-----------------------------------------------------------------------------
Gate == INSTANCE ApprovalGate

(***************************************************************************)
(* However the room, the WebUI and the recordings interleave, an approval  *)
(* is decided once (mocks.py:434, api.py:970).                             *)
(***************************************************************************)
ImplementsApprovalGate == Gate!Spec

DecidedBy(a, m) == by[a] = m

(***************************************************************************)
(* What the room is told is true: an accepted decision is the one that was *)
(* committed for this message, a conflict committed nothing and an ignored *)
(* message decided nothing (api.py:1165, matrix_approval.py:398).          *)
(***************************************************************************)
AnswersAreTrue ==
  \A m \in 1..Len(room) :
    /\ answer[m] = "accepted" =>
         \E a \in Approvals : DecidedBy(a, m) /\ approval[a] = room[m].says
    /\ answer[m] \in {"ignored", "conflict"} =>
         \A a \in Approvals : ~DecidedBy(a, m)

(***************************************************************************)
(* A message decides at most one approval, with what it says, and not by   *)
(* a reply written after the request expired; without the fallback for     *)
(* plain messages it is the one it replies to (matrix_approval.py:258,     *)
(* docs/element-room-approval.md:26).                                      *)
(***************************************************************************)
RoomDecisionsAreMeant ==
  \A a \in Approvals, m \in 1..Len(room) :
    DecidedBy(a, m) =>
      /\ approval[a] = room[m].says
      /\ a \in sent
      /\ room[m].to = a => ~room[m].late
      /\ \A b \in Approvals \ {a} : ~DecidedBy(b, m)
      /\ ~direct => room[m].to = a

(***************************************************************************)
(* A reply to a request that is recorded and open is not passed over       *)
(* silently, unless lists are read from a replica (api.py:1101).           *)
(***************************************************************************)
TimelyRepliesCount ==
  [][\A m \in Messages :
       answer'[m] = "ignored" /\ answer[m] # "ignored" /\ ~replica =>
         LET a == room[m].to IN
         ~(/\ room[m].timely
           /\ a \notin expired
           /\ approval[a] = "PENDING"
           /\ row[a[1]].rec = a[2])]_vars

(***************************************************************************)
(* As its module says, a decision is a reply to the request it decides.    *)
(* (With the fallback, a reply to another request counts as well.)         *)
(***************************************************************************)
RepliesDecideTheirRequest ==
  \A a \in Approvals, m \in 1..Len(room) :
    DecidedBy(a, m) => room[m].to \in {a, Plain}
-----------------------------------------------------------------------------
(* The inductive invariant of the proofs *)

Replies == [to : Approvals \cup {Plain}, says : Decisions,
            late : BOOLEAN, timely : BOOLEAN]

TypeOK ==
  /\ direct \in BOOLEAN /\ replica \in BOOLEAN
  /\ row \in [Cases -> Rows] /\ before \in [Cases -> Rows]
  /\ approval \in [Approvals -> {"NONE", "PENDING"} \cup Decisions]
  /\ by \in [Approvals -> Deciders \cup {Nobody}]
  /\ run \in [Cases -> {"investigating", "gate", "sent", "none"}]
  /\ sent \subseteq Approvals /\ expired \subseteq Approvals
  /\ room \in Seq(Replies)
  /\ Len(room) \in 0..MaxMessages
  /\ bridge \in {"reading", "handling", "deciding", "decided"}
  /\ cursor \in Nat /\ upto \in Nat
  /\ cursor <= upto /\ upto <= Len(room)
  /\ bridge # "reading" => cursor < upto
  /\ known \subseteq Approvals
  /\ answer \in [Messages -> Answers]

\* A case has the approvals of its recordings up to now: asked for at the gate,
\* open while it waits, and decided with the case.
ApprovalsFitTheirCase ==
  \A c \in Cases :
    /\ \A r \in Rows : r.rec > row[c].rec => approval[Approval(c, r)] = "NONE"
    /\ row[c].status = "investigating" =>
         approval[Approval(c, row[c])] = "NONE" /\ ~row[c].request
    /\ Open(c, row[c]) => row[c].status = "waiting"

\* A request that is recorded has been sent.
RecordedIsSent ==
  \A c \in Cases :
    /\ row[c].request => Approval(c, row[c]) \in sent
    /\ before[c].request => Approval(c, before[c]) \in sent
    /\ run[c] = "sent" => Approval(c, row[c]) \in sent

KnownIsSent == known \subseteq sent

\* What was noted of a message when it was written.
NotesAreKept ==
  \A m \in 1..Len(room) :
    /\ room[m].late => room[m].to \in expired
    /\ room[m].timely =>
         \E c \in Cases, r \in Rows :
           /\ room[m].to = Approval(c, r)
           /\ r.rec <= row[c].rec
           /\ r.rec = row[c].rec => row[c].request

\* The bridge answers for what it is done with, and decides only in between.
DecisionsAreBehind ==
  /\ \A m \in Messages : answer[m] # "none" => m <= cursor
  /\ \A a \in Approvals :
       by[a] \in Messages =>
         by[a] <= cursor \/ (bridge = "decided" /\ by[a] = cursor + 1)
  /\ bridge = "decided" =>
       \E a \in Approvals : DecidedBy(a, cursor + 1)

\* The reply that is being decided counts for the approval that was taken.
TakenIsMeant ==
  bridge = "deciding" =>
    LET a == Approval(taken.case, taken.row) IN
    /\ taken.case \in Cases /\ taken.row \in Rows
    /\ a \in sent
    /\ Message.to = a => ~Message.late
    /\ ~direct => Message.to = a

\* A timely reply to an open request is answered as one.
BatchIsComplete ==
  bridge # "reading" /\ ~replica =>
    \A m \in (cursor + 1)..upto, c \in Cases :
      /\ room[m].timely
      /\ room[m].to = Approval(c, row[c])
      /\ room[m].to \notin expired
      /\ Open(c, row[c])
      => room[m].to \in known

Inductive ==
  /\ TypeOK
  /\ ApprovalsFitTheirCase /\ RecordedIsSent /\ KnownIsSent
  /\ NotesAreKept /\ DecisionsAreBehind /\ TakenIsMeant /\ BatchIsComplete
  /\ AnswersAreTrue /\ RoomDecisionsAreMeant
=============================================================================
