------------------------ MODULE ApprovalBridgeProofs ------------------------
(***************************************************************************)
(* For any number of cases, recordings, approvals and messages: however    *)
(* the room, the WebUI and the recordings interleave, an approval is       *)
(* decided once, the room is told the truth, and what the room decides was *)
(* meant to be decided.                                                    *)
(***************************************************************************)
EXTENDS ApprovalBridge, TLAPS

\* An approval names its case and its recording.
LEMMA ApprovalOfRow ==
  ASSUME NEW c \in Cases, NEW r \in Rows
  PROVE  /\ Approval(c, r) \in Approvals
         /\ Approval(c, r)[1] = c /\ Approval(c, r)[2] = r.rec
         /\ Approval(c, r) # Plain
         /\ \A d \in Cases, s \in Rows :
               Approval(c, r) = Approval(d, s) <=> c = d /\ r.rec = s.rec
  BY BridgeAssumption DEF Approvals, Approval, Rows

LEMMA ApprovalHasRow ==
  ASSUME NEW a \in Approvals
  PROVE  \E c \in Cases, r \in Rows : a = Approval(c, r)
  <1>1. PICK c \in Cases, n \in 0..MaxRecordings : a = <<c, n>>
    BY DEF Approvals
  <1>2. [status |-> "waiting", rec |-> n, request |-> TRUE] \in Rows
    BY DEF Rows, Statuses
  <1> QED BY <1>1, <1>2 DEF Approval

\* Decisions are no states of an open approval, and messages nobody's names.
LEMMA DecisionsEnd ==
  /\ "NONE" \notin Decisions /\ "PENDING" \notin Decisions
  /\ WebUI \notin Messages /\ Nobody \notin Messages /\ WebUI # Nobody
  /\ MaxMessages \in Nat /\ MaxRecordings \in Nat
  BY BridgeAssumption DEF Messages

\* A commit writes one row.
LEMMA RowIsWritten ==
  ASSUME TypeOK, NEW c \in Cases, NEW r \in Rows, Commit(c, r)
  PROVE  /\ row' \in [Cases -> Rows] /\ before' \in [Cases -> Rows]
         /\ row'[c] = r
         /\ \A d \in Cases \ {c} : row'[d] = row[d]
         /\ \A d \in Cases : before'[d] = row[d] \/ before'[d] = row'[d]
  BY DEF TypeOK, Commit

LEMMA StatusIsWritten ==
  ASSUME NEW r \in Rows, NEW s \in Statuses
  PROVE  LET w == [r EXCEPT !.status = s] IN
         w \in Rows /\ w.status = s /\ w.rec = r.rec /\ w.request = r.request
  BY DEF Rows

LEMMA RequestIsWritten ==
  ASSUME NEW r \in Rows
  PROVE  LET w == [r EXCEPT !.request = TRUE] IN
         w \in Rows /\ w.status = r.status /\ w.rec = r.rec /\ w.request
  BY DEF Rows

LEMMA RowIsTyped ==
  ASSUME NEW r \in Rows
  PROVE  r.status \in Statuses /\ r.rec \in 0..MaxRecordings /\ r.rec \in Nat
         /\ r.request \in BOOLEAN
  BY BridgeAssumption DEF Rows

LEMMA ElementOfSeq ==
  ASSUME NEW S, NEW s \in Seq(S), NEW i \in 1..Len(s)
  PROVE  s[i] \in S
  OBVIOUS

LEMMA AppendIsLast ==
  ASSUME NEW S, NEW s \in Seq(S), NEW e \in S
  PROVE  /\ Append(s, e) \in Seq(S) /\ Len(s) \in Nat /\ Len(Append(s, e)) = Len(s) + 1
         /\ Append(s, e)[Len(s) + 1] = e
         /\ \A i \in 1..Len(s) : Append(s, e)[i] = s[i]
  OBVIOUS

\* Every message of the room was written by somebody.
LEMMA MessageIsTyped ==
  ASSUME TypeOK, NEW m \in 1..Len(room)
  PROVE  /\ m \in Messages
         /\ room[m].to \in Approvals \cup {Plain} /\ room[m].says \in Decisions
         /\ room[m].late \in BOOLEAN /\ room[m].timely \in BOOLEAN
  <1>1. room[m] \in Replies
    BY ElementOfSeq DEF TypeOK
  <1>2. m \in Messages
    BY DecisionsEnd DEF TypeOK, Messages
  <1> QED BY <1>1, <1>2 DEF Replies

-----------------------------------------------------------------------------
\* Commits of a row that goes on being about the same approval: they may change
\* the state of that approval, and record its request.

LEMMA NamesStay ==
  ASSUME NEW c, NEW r, NEW s, r.rec = s.rec
  PROVE  Approval(c, r) = Approval(c, s)
  BY DEF Approval

LEMMA ApprovalsStillFit ==
  ASSUME Inductive, NEW c \in Cases, NEW w \in Rows, NEW x,
         Commit(c, w), w.rec = row[c].rec, w.status # "investigating",
         x = "PENDING" => w.status = "waiting",
         approval' = [approval EXCEPT ![Approval(c, row[c])] = x]
  PROVE  ApprovalsFitTheirCase'
  <1> DEFINE a == Approval(c, row[c])
  <1> USE DEF Inductive, ApprovalsFitTheirCase, Open
  <1>1. /\ row \in [Cases -> Rows] /\ row' \in [Cases -> Rows]
        /\ row'[c] = w /\ \A d \in Cases \ {c} : row'[d] = row[d]
    BY RowIsWritten DEF TypeOK
  <1>2. a \in Approvals /\ approval'[a] = x /\ Approval(c, w) = a
    BY <1>1, ApprovalOfRow, NamesStay DEF TypeOK
  <1>3. \A b \in Approvals \ {a} : approval'[b] = approval[b]
    BY <1>2 DEF TypeOK
  <1>4. ASSUME NEW r \in Rows, r.rec > w.rec
        PROVE  approval'[Approval(c, r)] = "NONE"
    <2>1. Approval(c, r) \in Approvals \ {a}
      BY <1>1, <1>4, ApprovalOfRow, RowIsTyped
    <2> QED BY <1>3, <1>4, <2>1
  <1>5. ASSUME NEW d \in Cases \ {c}
        PROVE  \A r \in Rows : approval'[Approval(d, r)] = approval[Approval(d, r)]
    BY <1>1, <1>3, ApprovalOfRow
  <1>6. ASSUME NEW d \in Cases \ {c}
        PROVE  /\ \A r \in Rows : r.rec > row'[d].rec => approval'[Approval(d, r)] = "NONE"
               /\ row'[d].status = "investigating" =>
                    approval'[Approval(d, row'[d])] = "NONE" /\ ~row'[d].request
               /\ Open(d, row[d])' => row'[d].status = "waiting"
    BY <1>1, <1>5
  <1> QED BY <1>1, <1>2, <1>4, <1>6

LEMMA RecordedStaysSent ==
  ASSUME Inductive, NEW c \in Cases, NEW w \in Rows,
         Commit(c, w), w.rec = row[c].rec,
         w.request => Approval(c, row[c]) \in sent,
         \A d \in Cases : run'[d] = "sent" => run[d] = "sent", UNCHANGED sent
  PROVE  RecordedIsSent'
  <1> USE DEF Inductive, RecordedIsSent
  <1>1. /\ row \in [Cases -> Rows]
        /\ row'[c] = w /\ \A d \in Cases \ {c} : row'[d] = row[d]
        /\ \A d \in Cases : before'[d] = row[d] \/ before'[d] = row'[d]
    BY RowIsWritten DEF TypeOK
  <1>2. Approval(c, w) = Approval(c, row[c])
    BY NamesStay
  <1> QED BY <1>1, <1>2

LEMMA NotesStay ==
  ASSUME Inductive, NEW c \in Cases, NEW w \in Rows,
         Commit(c, w), w.rec = row[c].rec, row[c].request => w.request,
         UNCHANGED <<room, expired>>
  PROVE  NotesAreKept'
  <1>1. row'[c] = w /\ \A d \in Cases \ {c} : row'[d] = row[d]
    BY RowIsWritten DEF Inductive
  <1>2. \A d \in Cases : row'[d].rec = row[d].rec /\ (row[d].request => row'[d].request)
    BY <1>1
  <1> QED BY <1>2 DEF Inductive, NotesAreKept

\* No timely reply is there before its request is recorded.
LEMMA NoReplyYet ==
  ASSUME Inductive, NEW c \in Cases, row[c].status = "investigating",
         NEW m \in 1..Len(room), room[m].timely
  PROVE  room[m].to # Approval(c, row[c])
  <1>1. row[c] \in Rows /\ ~row[c].request
    BY DEF Inductive, TypeOK, ApprovalsFitTheirCase
  <1>2. PICK d \in Cases, r \in Rows :
           room[m].to = Approval(d, r) /\ (r.rec = row[d].rec => row[d].request)
    BY DEF Inductive, NotesAreKept
  <1> QED BY <1>1, <1>2, ApprovalOfRow

LEMMA BatchStaysComplete ==
  ASSUME Inductive, NEW c \in Cases, NEW w \in Rows, NEW x,
         Commit(c, w), w.rec = row[c].rec,
         approval' = [approval EXCEPT ![Approval(c, row[c])] = x],
         x = "PENDING" => Open(c, row[c]) \/ row[c].status = "investigating",
         bridge' # "reading" => bridge # "reading",
         UNCHANGED <<replica, cursor, upto, known, room, expired>>
  PROVE  BatchIsComplete'
  <1> DEFINE a == Approval(c, row[c])
  <1> USE DEF Inductive, Open
  <1>1. /\ row \in [Cases -> Rows]
        /\ row'[c] = w /\ \A d \in Cases \ {c} : row'[d] = row[d]
    BY RowIsWritten DEF TypeOK
  <1>2. \A d \in Cases : Approval(d, row'[d]) = Approval(d, row[d])
    BY <1>1, NamesStay
  <1>3. a \in Approvals /\ approval'[a] = x
        /\ \A b \in Approvals \ {a} : approval'[b] = approval[b]
    BY <1>1, ApprovalOfRow DEF TypeOK
  <1>4. \A m \in (cursor + 1)..upto : m \in 1..Len(room)
    BY DEF TypeOK
  <1>5. ASSUME NEW m \in (cursor + 1)..upto, NEW d \in Cases,
               room[m].timely, room[m].to = Approval(d, row[d]), Open(d, row[d])'
        PROVE  Open(d, row[d])
    <2>1. CASE d = c
      BY <1>2, <1>3, <1>4, <1>5, <2>1, NoReplyYet
    <2>2. CASE d # c
      BY <1>1, <1>2, <1>3, <1>5, <2>2, ApprovalOfRow
    <2> QED BY <2>1, <2>2
  <1> QED BY <1>2, <1>5 DEF BatchIsComplete

\* What was decided before stays as it is told and meant, when an approval that
\* is undecided changes otherwise than by a message.
LEMMA DecisionsStay ==
  ASSUME Inductive, NEW a \in Approvals, approval[a] \notin Decisions,
         approval' \in [Approvals -> {"NONE", "PENDING"} \cup Decisions],
         \A b \in Approvals \ {a} : approval'[b] = approval[b] /\ by'[b] = by[b],
         by'[a] = by[a] \/ by'[a] = WebUI,
         UNCHANGED <<direct, sent, room, answer, bridge, cursor>>
  PROVE  DecisionsAreBehind' /\ AnswersAreTrue' /\ RoomDecisionsAreMeant'
  <1> USE DecisionsEnd DEF Inductive, DecidedBy
  <1>1. \A m \in 1..Len(room) : m \in Messages /\ room[m].says \in Decisions
    BY MessageIsTyped
  <1>2. \A m \in 1..Len(room) : ~DecidedBy(a, m) /\ ~DecidedBy(a, m)'
    BY <1>1 DEF RoomDecisionsAreMeant
  <1>3. AnswersAreTrue'
    BY <1>2 DEF AnswersAreTrue
  <1>4. RoomDecisionsAreMeant'
    BY <1>2 DEF RoomDecisionsAreMeant
  <1>5. DecisionsAreBehind'
    <2>1. bridge = "decided" => cursor + 1 \in 1..Len(room)
      BY DEF TypeOK
    <2> QED BY <1>2, <2>1 DEF DecisionsAreBehind
  <1> QED BY <1>3, <1>4, <1>5

-----------------------------------------------------------------------------
\* The run of a case.

LEMMA ReachGateKeeps ==
  ASSUME Inductive, NEW c \in Cases, ReachGate(c)
  PROVE  Inductive'
  <1> DEFINE w == [row[c] EXCEPT !.status = "waiting"]
             a == Approval(c, row[c])
  <1> USE DEF Inductive, ReachGate, settings, reading
  <1>1. /\ row[c] \in Rows /\ w \in Rows
        /\ w.status = "waiting" /\ w.rec = row[c].rec /\ w.request = row[c].request
    BY StatusIsWritten DEF TypeOK, Statuses
  <1>2. a \in Approvals /\ approval[a] = "NONE" /\ ~row[c].request
    BY <1>1, ApprovalOfRow DEF ApprovalsFitTheirCase
  <1>3. TypeOK'
    BY <1>1, RowIsWritten DEF TypeOK
  <1>4. ApprovalsFitTheirCase'
    BY <1>1, ApprovalsStillFit
  <1>5. RecordedIsSent'
    <2>1. \A d \in Cases : run'[d] = "sent" => run[d] = "sent"
      BY DEF TypeOK
    <2> QED BY <1>1, <1>2, <2>1, RecordedStaysSent
  <1>6. NotesAreKept'
    BY <1>1, NotesStay
  <1>7. BatchIsComplete'
    BY <1>1, BatchStaysComplete
  <1>8. KnownIsSent' /\ TakenIsMeant'
    BY DEF KnownIsSent, TakenIsMeant, Message
  <1>9. DecisionsAreBehind' /\ AnswersAreTrue' /\ RoomDecisionsAreMeant'
    <2>1. \A b \in Approvals \ {a} : approval'[b] = approval[b]
      BY <1>2 DEF TypeOK
    <2> QED BY <1>2, <1>3, <2>1, DecisionsStay, DecisionsEnd DEF TypeOK
  <1> QED BY <1>3, <1>4, <1>5, <1>6, <1>7, <1>8, <1>9

LEMMA SendRequestKeeps ==
  ASSUME Inductive, NEW c \in Cases, SendRequest(c)
  PROVE  Inductive'
  <1> USE DEF Inductive, SendRequest, settings, database, reading
  <1>1. Approval(c, row[c]) \in Approvals
    BY ApprovalOfRow DEF TypeOK
  <1>2. TypeOK'
    BY <1>1 DEF TypeOK
  <1>3. RecordedIsSent'
    BY DEF TypeOK, RecordedIsSent
  <1>4. ApprovalsFitTheirCase' /\ KnownIsSent' /\ NotesAreKept'
    BY DEF ApprovalsFitTheirCase, Open, KnownIsSent, NotesAreKept
  <1>5. DecisionsAreBehind' /\ TakenIsMeant' /\ BatchIsComplete'
    BY DEF DecisionsAreBehind, DecidedBy, TakenIsMeant, Message, BatchIsComplete, Open
  <1>6. AnswersAreTrue' /\ RoomDecisionsAreMeant'
    BY DEF AnswersAreTrue, RoomDecisionsAreMeant, DecidedBy
  <1> QED BY <1>2, <1>3, <1>4, <1>5, <1>6

LEMMA RecordRequestKeeps ==
  ASSUME Inductive, NEW c \in Cases, RecordRequest(c)
  PROVE  Inductive'
  <1> USE DEF Inductive, RecordRequest, settings, reading
  <1>1. \A d \in Cases : run'[d] = "sent" => run[d] = "sent"
    BY DEF TypeOK
  <1>2. KnownIsSent' /\ DecisionsAreBehind' /\ TakenIsMeant'
    BY DEF KnownIsSent, DecisionsAreBehind, DecidedBy, TakenIsMeant, Message
  <1>3. AnswersAreTrue' /\ RoomDecisionsAreMeant'
    BY DEF AnswersAreTrue, RoomDecisionsAreMeant, DecidedBy
  <1>4. CASE row[c].status = "waiting"
    <2> DEFINE w == [row[c] EXCEPT !.request = TRUE]
               a == Approval(c, row[c])
    <2>1. /\ row[c] \in Rows /\ w \in Rows
          /\ w.status = "waiting" /\ w.rec = row[c].rec /\ w.request
      BY <1>4, RequestIsWritten DEF TypeOK
    <2>2. Commit(c, w)
      BY <1>4
    <2>3. a \in Approvals /\ approval' = [approval EXCEPT ![a] = approval[a]]
      BY <2>1, ApprovalOfRow DEF TypeOK
    <2>4. TypeOK'
      BY <2>1, <2>2, RowIsWritten DEF TypeOK
    <2>5. ApprovalsFitTheirCase'
      BY <2>1, <2>2, <2>3, ApprovalsStillFit
    <2>6. RecordedIsSent'
      BY <1>1, <2>1, <2>2, RecordedStaysSent DEF RecordedIsSent
    <2>7. NotesAreKept'
      BY <2>1, <2>2, NotesStay
    <2>8. BatchIsComplete'
      BY <2>1, <2>2, <2>3, BatchStaysComplete DEF Open
    <2> QED BY <1>2, <1>3, <2>4, <2>5, <2>6, <2>7, <2>8
  <1>5. CASE row[c].status # "waiting"
    <2>1. UNCHANGED <<row, before>>
      BY <1>5
    <2>2. TypeOK' /\ RecordedIsSent'
      BY <1>1, <2>1 DEF TypeOK, RecordedIsSent
    <2>3. ApprovalsFitTheirCase' /\ NotesAreKept' /\ BatchIsComplete'
      BY <2>1 DEF ApprovalsFitTheirCase, NotesAreKept, BatchIsComplete, Open
    <2> QED BY <1>2, <1>3, <2>2, <2>3
  <1> QED BY <1>4, <1>5

LEMMA LoseRunKeeps ==
  ASSUME Inductive, NEW c \in Cases, LoseRun(c)
  PROVE  Inductive'
  <1> USE DEF Inductive, LoseRun, settings, database, reading
  <1>1. TypeOK'
    BY DEF TypeOK
  <1>2. RecordedIsSent'
    BY DEF TypeOK, RecordedIsSent
  <1>3. ApprovalsFitTheirCase' /\ KnownIsSent' /\ NotesAreKept'
    BY DEF ApprovalsFitTheirCase, Open, KnownIsSent, NotesAreKept
  <1>4. DecisionsAreBehind' /\ TakenIsMeant' /\ BatchIsComplete'
    BY DEF DecisionsAreBehind, DecidedBy, TakenIsMeant, Message, BatchIsComplete, Open
  <1>5. AnswersAreTrue' /\ RoomDecisionsAreMeant'
    BY DEF AnswersAreTrue, RoomDecisionsAreMeant, DecidedBy
  <1> QED BY <1>1, <1>2, <1>3, <1>4, <1>5

LEMMA ExpireKeeps ==
  ASSUME Inductive, NEW c \in Cases, Expire(c)
  PROVE  Inductive'
  <1> USE DEF Inductive, Expire, settings, database, reading
  <1>1. TypeOK' /\ RecordedIsSent'
    BY DEF TypeOK, RecordedIsSent
  <1>2. ApprovalsFitTheirCase' /\ KnownIsSent' /\ NotesAreKept'
    BY DEF ApprovalsFitTheirCase, Open, KnownIsSent, NotesAreKept
  <1>3. DecisionsAreBehind' /\ TakenIsMeant' /\ BatchIsComplete'
    BY DEF DecisionsAreBehind, DecidedBy, TakenIsMeant, Message, BatchIsComplete, Open
  <1>4. AnswersAreTrue' /\ RoomDecisionsAreMeant'
    BY DEF AnswersAreTrue, RoomDecisionsAreMeant, DecidedBy
  <1> QED BY <1>1, <1>2, <1>3, <1>4

\* The new recording has no approval yet, and no message is about it.
LEMMA ReprepareKeeps ==
  ASSUME Inductive, NEW c \in Cases, Reprepare(c)
  PROVE  Inductive'
  <1> DEFINE w == [status |-> "investigating", rec |-> row[c].rec + 1, request |-> FALSE]
  <1> USE DecisionsEnd DEF Inductive, Reprepare, settings, reading
  <1>1. /\ row[c] \in Rows /\ w \in Rows /\ row[c].rec \in Nat
        /\ w.status = "investigating" /\ w.rec = row[c].rec + 1 /\ ~w.request
    <2>1. row[c] \in Rows
      BY DEF TypeOK
    <2>2. row[c].rec + 1 \in 0..MaxRecordings /\ row[c].rec \in Nat
      BY <2>1, RowIsTyped
    <2> QED BY <2>1, <2>2 DEF Rows, Statuses
  <1>2. /\ row' \in [Cases -> Rows] /\ before' \in [Cases -> Rows]
        /\ row'[c] = w /\ \A d \in Cases \ {c} : row'[d] = row[d]
        /\ \A d \in Cases : before'[d] = row[d] \/ before'[d] = row'[d]
    BY <1>1, RowIsWritten
  <1>3. TypeOK'
    BY <1>2 DEF TypeOK
  <1>4. approval[Approval(c, w)] = "NONE"
    BY <1>1 DEF ApprovalsFitTheirCase
  <1>5. ApprovalsFitTheirCase'
    <2>1. \A r \in Rows : r.rec > w.rec => approval[Approval(c, r)] = "NONE"
      BY <1>1, RowIsTyped DEF ApprovalsFitTheirCase
    <2> QED BY <1>1, <1>2, <1>4, <2>1 DEF ApprovalsFitTheirCase, Open
  <1>6. RecordedIsSent'
    <2>1. \A d \in Cases : run'[d] = "sent" => run[d] = "sent" /\ d # c
      BY DEF TypeOK
    <2> QED BY <1>1, <1>2, <2>1 DEF RecordedIsSent
  <1>7. NotesAreKept'
    <2>1. \A r \in Rows : r.rec <= row[c].rec => r.rec <= w.rec /\ r.rec # w.rec
      BY <1>1, RowIsTyped
    <2> QED BY <1>2, <2>1 DEF NotesAreKept
  <1>8. BatchIsComplete'
    <2>1. ~Open(c, row[c])'
      <3>1. approval'[Approval(c, row'[c])] = "NONE"
        BY <1>2, <1>4
      <3> QED BY <3>1 DEF Open
    <2>2. ASSUME NEW d \in Cases, Open(d, row[d])'
          PROVE  Open(d, row[d]) /\ row'[d] = row[d]
      BY <1>2, <2>1, <2>2 DEF Open
    <2>3. UNCHANGED <<replica, bridge, cursor, upto, known, room, expired>>
      OBVIOUS
    <2> QED BY <2>2, <2>3 DEF BatchIsComplete
  <1>9. KnownIsSent' /\ DecisionsAreBehind' /\ TakenIsMeant'
    BY DEF KnownIsSent, DecisionsAreBehind, DecidedBy, TakenIsMeant, Message
  <1>10. AnswersAreTrue' /\ RoomDecisionsAreMeant'
    BY DEF AnswersAreTrue, RoomDecisionsAreMeant, DecidedBy
  <1> QED BY <1>3, <1>5, <1>6, <1>7, <1>8, <1>9, <1>10

-----------------------------------------------------------------------------
\* Decisions, from the WebUI or the room.

\* What the transaction leaves: the case and its approval are decided.
LEMMA DecideWrites ==
  ASSUME Inductive, NEW c \in Cases, NEW r \in Rows, NEW d \in Decisions,
         NEW who \in Deciders, Decide(c, r, d, who),
         NEW a, a = Approval(c, r)
  PROVE  /\ row[c] = r /\ Commit(c, [r EXCEPT !.status = "decided"])
         /\ a \in Approvals /\ approval[a] = "PENDING" /\ approval[a] \notin Decisions
         /\ approval' = [approval EXCEPT ![a] = d] /\ approval'[a] = d
         /\ by'[a] = who
         /\ approval' \in [Approvals -> {"NONE", "PENDING"} \cup Decisions]
         /\ by' \in [Approvals -> Deciders \cup {Nobody}]
         /\ \A b \in Approvals \ {a} : approval'[b] = approval[b] /\ by'[b] = by[b]
  <1> USE DEF Decide, MayDecide, Open
  <1>1. row[c] = r /\ approval[a] = "PENDING" /\ Commit(c, [r EXCEPT !.status = "decided"])
    OBVIOUS
  <1>2. a \in Approvals
    BY ApprovalOfRow
  <1>3. /\ approval \in [Approvals -> {"NONE", "PENDING"} \cup Decisions]
        /\ by \in [Approvals -> Deciders \cup {Nobody}]
    BY DEF Inductive, TypeOK
  <1>4. approval' = [approval EXCEPT ![a] = d] /\ by' = [by EXCEPT ![a] = who]
    OBVIOUS
  <1>5. \A b \in Approvals \ {a} : approval'[b] = approval[b] /\ by'[b] = by[b]
    BY <1>2, <1>3, <1>4
  <1>6. approval'[a] = d /\ by'[a] = who
    BY <1>2, <1>3, <1>4
  <1>7. approval' \in [Approvals -> {"NONE", "PENDING"} \cup Decisions]
    BY <1>3, <1>4
  <1>8. by' \in [Approvals -> Deciders \cup {Nobody}]
    BY <1>3, <1>4
  <1> QED BY <1>1, <1>2, <1>4, <1>5, <1>6, <1>7, <1>8, DecisionsEnd

\* The parts of the invariant that a decision keeps whoever makes it.
LEMMA DecideKeeps ==
  ASSUME Inductive, NEW c \in Cases, NEW r \in Rows, NEW d \in Decisions,
         NEW who \in Deciders, Decide(c, r, d, who),
         bridge' # "reading" => bridge # "reading", bridge' # "deciding" \/ UNCHANGED bridge,
         UNCHANGED <<settings, requests, room, cursor, upto, known, taken, answer>>
  PROVE  /\ ApprovalsFitTheirCase' /\ RecordedIsSent' /\ KnownIsSent'
         /\ NotesAreKept' /\ TakenIsMeant' /\ BatchIsComplete'
  <1> DEFINE w == [r EXCEPT !.status = "decided"]
             a == Approval(c, r)
  <1>1. /\ row[c] = r /\ Commit(c, w)
        /\ a \in Approvals /\ approval' = [approval EXCEPT ![a] = d]
    BY DecideWrites
  <1>2. /\ row[c] = r /\ w \in Rows /\ Commit(c, w)
        /\ w.status = "decided" /\ w.rec = row[c].rec /\ w.request = row[c].request
        /\ a = Approval(c, row[c]) /\ approval' = [approval EXCEPT ![a] = d]
    <2>1. "decided" \in Statuses
      BY DEF Statuses
    <2>2. w \in Rows /\ w.status = "decided" /\ w.rec = r.rec /\ w.request = r.request
      BY <2>1, StatusIsWritten
    <2> HIDE DEF w
    <2> QED BY <1>1, <2>2
  <1>3. d # "PENDING" /\ w.status # "investigating"
    BY <1>2, DecisionsEnd
  <1>4. UNCHANGED <<replica, direct, run, sent, expired>>
    BY DEF settings, requests
  <1>5. ApprovalsFitTheirCase'
    BY <1>2, <1>3, ApprovalsStillFit
  <1>6. RecordedIsSent'
    <2>1. w.request => a \in sent
      BY <1>2 DEF Inductive, RecordedIsSent
    <2> QED BY <1>2, <1>4, <2>1, RecordedStaysSent
  <1>7. NotesAreKept'
    BY <1>2, <1>4, NotesStay
  <1>8. BatchIsComplete'
    BY <1>2, <1>3, <1>4, BatchStaysComplete
  <1>9. KnownIsSent' /\ TakenIsMeant'
    BY <1>4 DEF Inductive, KnownIsSent, TakenIsMeant, Message
  <1> QED BY <1>5, <1>6, <1>7, <1>8, <1>9

LEMMA WebDecideKeeps ==
  ASSUME Inductive, NEW c \in Cases, WebDecide(c)
  PROVE  Inductive'
  <1> USE DEF WebDecide, settings, requests, reading
  <1>1. PICK d \in Decisions : Decide(c, row[c], d, WebUI)
    OBVIOUS
  <1>2. WebUI \in Deciders /\ row[c] \in Rows
    BY DEF Deciders, Inductive, TypeOK
  <1>3. PICK r \in Rows : Decide(c, r, d, WebUI)
    BY <1>1, <1>2
  <1> DEFINE a == Approval(c, r)
  <1>4. /\ Commit(c, [r EXCEPT !.status = "decided"])
        /\ a \in Approvals /\ approval[a] \notin Decisions /\ by'[a] = WebUI
        /\ approval' \in [Approvals -> {"NONE", "PENDING"} \cup Decisions]
        /\ by' \in [Approvals -> Deciders \cup {Nobody}]
        /\ \A b \in Approvals \ {a} : approval'[b] = approval[b] /\ by'[b] = by[b]
    BY <1>2, <1>3, DecideWrites
  <1>5. TypeOK'
    <2>1. [r EXCEPT !.status = "decided"] \in Rows
      BY StatusIsWritten DEF Statuses
    <2> QED BY <1>4, <2>1, RowIsWritten DEF Inductive, TypeOK
  <1>6. /\ ApprovalsFitTheirCase' /\ RecordedIsSent' /\ KnownIsSent'
        /\ NotesAreKept' /\ TakenIsMeant' /\ BatchIsComplete'
    BY <1>2, <1>3, DecideKeeps
  <1>7. DecisionsAreBehind' /\ AnswersAreTrue' /\ RoomDecisionsAreMeant'
    BY <1>4, DecisionsStay
  <1> QED BY <1>5, <1>6, <1>7 DEF Inductive

\* No approval has been decided by the message that is at work.
LEMMA RoomDecideKeeps ==
  ASSUME Inductive, RoomDecide
  PROVE  Inductive'
  <1> DEFINE c == taken.case
             m == cursor + 1
             r == taken.row
             a == Approval(c, r)
  <1> USE DEF RoomDecide, settings, requests, Message
  <1>1. c \in Cases /\ r \in Rows /\ m \in 1..Len(room)
    BY DEF Inductive, TypeOK, TakenIsMeant
  <1>2. m \in Messages /\ m \in Deciders /\ room[m].says \in Decisions
    BY <1>1, MessageIsTyped DEF Inductive, Deciders
  <1>3. Decide(c, r, room[m].says, m)
    OBVIOUS
  <1>4. /\ Commit(c, [r EXCEPT !.status = "decided"])
        /\ a \in Approvals /\ approval[a] \notin Decisions
        /\ approval'[a] = room[m].says /\ by'[a] = m
        /\ approval' \in [Approvals -> {"NONE", "PENDING"} \cup Decisions]
        /\ by' \in [Approvals -> Deciders \cup {Nobody}]
        /\ \A b \in Approvals \ {a} : approval'[b] = approval[b] /\ by'[b] = by[b]
    <2> HIDE DEF c, r, m, RoomDecide
    <2> QED BY <1>1, <1>2, <1>3, DecideWrites
  <1>5. TypeOK'
    <2>1. [r EXCEPT !.status = "decided"] \in Rows
      BY <1>1, StatusIsWritten DEF Statuses
    <2> QED BY <1>4, <1>1, <2>1, RowIsWritten DEF Inductive, TypeOK
  <1>6. /\ ApprovalsFitTheirCase' /\ RecordedIsSent' /\ KnownIsSent'
        /\ NotesAreKept' /\ TakenIsMeant' /\ BatchIsComplete'
    BY <1>1, <1>2, <1>3, DecideKeeps
  <1>7. \A b \in Approvals : by[b] \in Messages => by[b] <= cursor
    BY DEF Inductive, DecisionsAreBehind
  <1>8. \A n \in 1..Len(room) : n \in Messages /\ room[n].says \in Decisions
    BY MessageIsTyped DEF Inductive
  <1>9. \A n \in 1..Len(room) : ~DecidedBy(a, n)
    BY <1>4, <1>8 DEF Inductive, RoomDecisionsAreMeant
  <1>10. \A b \in Approvals : ~DecidedBy(b, m)
    BY <1>1, <1>2, <1>7 DEF DecidedBy, Inductive, TypeOK
  <1>11. DecisionsAreBehind'
    BY <1>2, <1>4, <1>7 DEF Inductive, DecisionsAreBehind, DecidedBy
  <1>12. AnswersAreTrue'
    <2>1. \A n \in 1..Len(room) : answer[n] # "none" => n # m
      BY <1>8 DEF Inductive, TypeOK, DecisionsAreBehind
    <2> QED BY <1>4, <1>9, <2>1 DEF Inductive, AnswersAreTrue, DecidedBy
  <1>13. RoomDecisionsAreMeant'
    <2>1. a \in sent /\ (room[m].to = a => ~room[m].late) /\ (~direct => room[m].to = a)
      BY <1>3 DEF Inductive, TakenIsMeant
    <2> QED BY <1>4, <1>9, <1>10, <2>1 DEF Inductive, RoomDecisionsAreMeant, DecidedBy
  <1> QED BY <1>5, <1>6, <1>11, <1>12, <1>13 DEF Inductive

-----------------------------------------------------------------------------
\* The room.

LEMMA WriteKeeps ==
  ASSUME Inductive, NEW to \in Approvals \cup {Plain}, NEW d \in Decisions, Write(to, d)
  PROVE  Inductive'
  <1> DEFINE reply == [to |-> to, says |-> d, late |-> to \in expired,
                       timely |-> \E c \in Cases : row[c].request /\ to = Approval(c, row[c])]
             n == Len(room)
  <1> USE DecisionsEnd DEF Inductive, Write, settings, database, requests, reading
  <1>1. reply \in Replies
    BY DEF Replies
  <1>2. /\ room' \in Seq(Replies) /\ Len(room') = n + 1 /\ n \in Nat
        /\ room'[n + 1] = reply /\ \A m \in 1..n : room'[m] = room[m]
    BY <1>1, AppendIsLast DEF TypeOK
  <1>3. TypeOK'
    BY <1>2 DEF TypeOK
  <1>4. ApprovalsFitTheirCase' /\ RecordedIsSent' /\ KnownIsSent'
    BY DEF ApprovalsFitTheirCase, Open, RecordedIsSent, KnownIsSent
  <1>5. NotesAreKept'
    <2>1. reply.late => to \in expired
      OBVIOUS
    <2>2. reply.timely => \E c \in Cases : row[c].request /\ to = Approval(c, row[c])
      OBVIOUS
    <2>3. reply.timely => \E c \in Cases, r \in Rows :
             to = Approval(c, r) /\ r.rec <= row[c].rec /\ (r.rec = row[c].rec => row[c].request)
      BY <2>2, RowIsTyped DEF TypeOK
    <2>4. \A m \in 1..(n + 1) : m \in 1..n \/ m = n + 1
      BY <1>2
    <2> QED BY <1>2, <2>1, <2>3, <2>4 DEF NotesAreKept
  <1>6. bridge # "reading" => cursor + 1 \in 1..n
    BY DEF TypeOK
  <1>7. DecisionsAreBehind'
    BY DEF DecisionsAreBehind, DecidedBy
  <1>8. TakenIsMeant'
    BY <1>2, <1>6 DEF TakenIsMeant, Message
  <1>9. BatchIsComplete'
    <2>1. \A m \in (cursor + 1)..upto : m \in 1..n
      BY DEF TypeOK
    <2> QED BY <1>2, <2>1 DEF BatchIsComplete, Open
  <1>10. ~\E a \in Approvals : by[a] = n + 1
    BY <1>2, <1>6, <1>3 DEF TypeOK, DecisionsAreBehind, Messages
  <1>11. n + 1 \in Messages /\ answer[n + 1] = "none"
    BY <1>2 DEF TypeOK, Messages, DecisionsAreBehind
  <1>12. \A m \in 1..Len(room') : m \in 1..n \/ m = n + 1
    BY <1>2
  <1>13. AnswersAreTrue'
    BY <1>2, <1>10, <1>11, <1>12 DEF AnswersAreTrue, DecidedBy
  <1>14. RoomDecisionsAreMeant'
    BY <1>2, <1>10, <1>12 DEF RoomDecisionsAreMeant, DecidedBy
  <1> QED BY <1>3, <1>4, <1>5, <1>7, <1>8, <1>9, <1>13, <1>14


-----------------------------------------------------------------------------
\* The bridge.

LEMMA ReadBatchKeeps ==
  ASSUME Inductive, ReadBatch
  PROVE  Inductive'
  <1> USE DEF Inductive, ReadBatch, settings, database, requests
  <1>1. /\ Len(room) \in Nat /\ cursor \in Nat
        /\ row \in [Cases -> Rows] /\ before \in [Cases -> Rows]
    BY DEF TypeOK
  <1>2. /\ Pending(row) \subseteq Approvals \cap sent
        /\ Pending(before) \subseteq Approvals \cap sent
    <2>1. \A c \in Cases : /\ <<c, row[c].rec>> = Approval(c, row[c])
                           /\ <<c, before[c].rec>> = Approval(c, before[c])
      BY DEF Approval
    <2>2. \A c \in Cases : /\ <<c, row[c].rec>> \in Approvals
                           /\ <<c, before[c].rec>> \in Approvals
      <3>1. \A c \in Cases : row[c] \in Rows /\ before[c] \in Rows
        BY <1>1
      <3> QED BY <2>1, <3>1, ApprovalOfRow
    <2> QED BY <2>1, <2>2 DEF Pending, RecordedIsSent
  <1>3. known' \subseteq Approvals /\ known' \subseteq sent
    BY <1>2
  <1>4. TypeOK'
    BY <1>1, <1>3 DEF TypeOK
  <1>5. KnownIsSent' /\ TakenIsMeant'
    BY <1>3 DEF KnownIsSent, TakenIsMeant
  <1>6. ApprovalsFitTheirCase' /\ RecordedIsSent' /\ NotesAreKept'
    BY DEF ApprovalsFitTheirCase, Open, RecordedIsSent, NotesAreKept
  <1>7. DecisionsAreBehind' /\ AnswersAreTrue' /\ RoomDecisionsAreMeant'
    BY DEF DecisionsAreBehind, AnswersAreTrue, RoomDecisionsAreMeant, DecidedBy
  <1>8. BatchIsComplete'
    <2> SUFFICES ASSUME ~replica, NEW m \in (cursor + 1)..Len(room), NEW c \in Cases,
                        room[m].timely, room[m].to = Approval(c, row[c]),
                        room[m].to \notin expired, Open(c, row[c])
                 PROVE  room[m].to \in Pending(row)
      BY DEF BatchIsComplete, Open
    <2>1. PICK d \in Cases, r \in Rows :
             room[m].to = Approval(d, r) /\ (r.rec = row[d].rec => row[d].request)
      BY <1>1 DEF NotesAreKept
    <2>2. row[c].request
      <3>1. Approval(d, r) = Approval(c, row[c]) /\ row[c] \in Rows
        BY <1>1, <2>1
      <3>2. d = c /\ r.rec = row[c].rec
        BY <3>1, ApprovalOfRow
      <3> QED BY <2>1, <3>2
    <2>3. row[c].status = "waiting"
      BY DEF ApprovalsFitTheirCase
    <2> QED BY <2>2, <2>3 DEF Pending, Approval
  <1> QED BY <1>4, <1>5, <1>6, <1>7, <1>8

\* The bridge answers a message: what it tells is true of what it did.
LEMMA DoneKeeps ==
  ASSUME Inductive, bridge # "reading", NEW told \in Answers, Done(told),
         UNCHANGED <<settings, database, requests, room>>,
         told = "accepted" => bridge = "decided",
         told \in {"ignored", "conflict"} => bridge # "decided"
  PROVE  Inductive'
  <1> DEFINE m == cursor + 1
  <1> USE DEF Inductive, Done, settings, database, requests
  <1>1. /\ m \in Messages /\ m \in 1..Len(room) /\ cursor \in Nat /\ upto \in Nat
        /\ answer'[m] = told /\ \A n \in Messages \ {m} : answer'[n] = answer[n]
    BY DecisionsEnd DEF TypeOK, Messages
  <1>2. TypeOK'
    BY <1>1 DEF TypeOK
  <1>3. ApprovalsFitTheirCase' /\ RecordedIsSent' /\ NotesAreKept'
    BY DEF ApprovalsFitTheirCase, Open, RecordedIsSent, NotesAreKept
  <1>4. KnownIsSent' /\ TakenIsMeant' /\ RoomDecisionsAreMeant'
    BY DEF KnownIsSent, TakenIsMeant, RoomDecisionsAreMeant, DecidedBy
  <1>5. DecisionsAreBehind'
    BY <1>1 DEF DecisionsAreBehind, DecidedBy, Messages
  <1>6. AnswersAreTrue'
    <2>1. bridge # "decided" => \A a \in Approvals : ~DecidedBy(a, m)
      BY <1>1 DEF DecisionsAreBehind, DecidedBy
    <2>2. bridge = "decided" =>
            \E a \in Approvals : DecidedBy(a, m) /\ approval[a] = room[m].says
      BY <1>1 DEF DecisionsAreBehind, RoomDecisionsAreMeant
    <2>3. \A n \in 1..Len(room) : n \in Messages
      BY MessageIsTyped
    <2> QED BY <1>1, <2>1, <2>2, <2>3 DEF AnswersAreTrue, DecidedBy
  <1>7. BatchIsComplete'
    <2>1. bridge' # "reading" => known' = known
      BY <1>1
    <2> QED BY <1>1, <2>1 DEF BatchIsComplete, Open
  <1> QED BY <1>2, <1>3, <1>4, <1>5, <1>6, <1>7

\* The reply that is taken is one to the approval, in time, or the room may
\* decide without saying which.
LEMMA TakeKeeps ==
  ASSUME Inductive, Take
  PROVE  Inductive'
  <1> USE DEF settings, database, requests
  <1>1. bridge = "handling" /\ UNCHANGED <<settings, database, requests, room>>
    BY DEF Take
  <1>2. PICK a \in CountsFor(Message) :
           IF row[a[1]].rec = a[2] /\ row[a[1]].status = "waiting"
           THEN /\ taken' = [at |-> "commit", case |-> a[1], row |-> row[a[1]]]
                /\ bridge' = "deciding"
                /\ UNCHANGED <<cursor, upto, known, answer>>
           ELSE Done("conflict")
    BY DEF Take
  <1>3. CASE ~(row[a[1]].rec = a[2] /\ row[a[1]].status = "waiting")
    BY <1>1, <1>2, <1>3, DoneKeeps DEF Answers
  <1>4. CASE row[a[1]].rec = a[2] /\ row[a[1]].status = "waiting"
    <2> DEFINE c == a[1]
    <2>1. a \in known /\ a \notin expired /\ (~direct => Message.to = a)
      BY DEF CountsFor
    <2>2. a \in Approvals /\ a \in sent
      BY <2>1 DEF Inductive, TypeOK, KnownIsSent
    <2>3. c \in Cases /\ a = <<c, a[2]>>
      BY <2>2 DEF Approvals
    <2>4. Approval(c, row[c]) = a /\ row[c] \in Rows
      BY <1>4, <2>3 DEF Approval, Inductive, TypeOK
    <2>5. /\ taken'.case = c /\ taken'.row = row[c]
          /\ bridge' = "deciding" /\ UNCHANGED <<cursor, upto, known, answer>>
      BY <1>2, <1>4
    <2>6. Message.to = a => ~Message.late
      <3>1. cursor + 1 \in 1..Len(room)
        BY <1>1 DEF Inductive, TypeOK
      <3> QED BY <2>1, <3>1 DEF Message, Inductive, NotesAreKept
    <2>7. TakenIsMeant'
      <3>1. Approval(taken'.case, taken'.row) = a
        BY <2>4, <2>5
      <3>2. Message' = Message
        BY <1>1, <2>5 DEF Message
      <3> QED BY <1>1, <2>1, <2>2, <2>3, <2>4, <2>5, <2>6, <3>1, <3>2 DEF TakenIsMeant
    <2>8. TypeOK'
      BY <1>1, <2>5 DEF Inductive, TypeOK
    <2>9. ApprovalsFitTheirCase' /\ RecordedIsSent' /\ KnownIsSent' /\ NotesAreKept'
      BY <1>1, <2>5 DEF Inductive, ApprovalsFitTheirCase, Open, RecordedIsSent, KnownIsSent,
                        NotesAreKept
    <2>10. DecisionsAreBehind' /\ AnswersAreTrue' /\ RoomDecisionsAreMeant'
      BY <1>1, <2>5 DEF Inductive, DecisionsAreBehind, AnswersAreTrue, RoomDecisionsAreMeant,
                        DecidedBy
    <2>11. BatchIsComplete'
      BY <1>1, <2>5 DEF Inductive, BatchIsComplete, Open
    <2> QED BY <2>7, <2>8, <2>9, <2>10, <2>11 DEF Inductive
  <1> QED BY <1>3, <1>4

\* Whatever ends the work on a message.
LEMMA AnswerKeeps ==
  ASSUME Inductive, Ignore \/ RoomConflict \/ Accept \/ Unconfirmed
  PROVE  Inductive'
  <1>1. CASE Ignore
    BY <1>1, DoneKeeps DEF Ignore, Answers
  <1>2. CASE RoomConflict
    BY <1>2, DoneKeeps DEF RoomConflict, Answers
  <1>3. CASE Accept
    BY <1>3, DoneKeeps DEF Accept, Answers
  <1>4. CASE Unconfirmed
    BY <1>4, DoneKeeps DEF Unconfirmed, Answers
  <1> QED BY <1>1, <1>2, <1>3, <1>4

LEMMA RestartBridgeKeeps ==
  ASSUME Inductive, RestartBridge
  PROVE  Inductive'
  <1> USE DEF Inductive, RestartBridge, settings, database, requests
  <1>1. /\ Len(room) \in Nat /\ cursor \in Nat /\ cursor <= Len(room)
        /\ (bridge # "reading" => cursor + 1 <= Len(room))
    BY DEF TypeOK
  <1>2. TypeOK'
    BY <1>1 DEF TypeOK
  <1>3. ApprovalsFitTheirCase' /\ RecordedIsSent' /\ KnownIsSent' /\ NotesAreKept'
    BY DEF ApprovalsFitTheirCase, Open, RecordedIsSent, KnownIsSent, NotesAreKept
  <1>4. DecisionsAreBehind'
    BY <1>1 DEF DecisionsAreBehind, DecidedBy, Messages, TypeOK
  <1>5. TakenIsMeant' /\ BatchIsComplete' /\ AnswersAreTrue' /\ RoomDecisionsAreMeant'
    BY DEF TakenIsMeant, BatchIsComplete, AnswersAreTrue, RoomDecisionsAreMeant, DecidedBy
  <1> QED BY <1>2, <1>3, <1>4, <1>5

-----------------------------------------------------------------------------
\* The inductive invariant.

LEMMA InitIsInductive ==
  ASSUME Init
  PROVE  Inductive
  <1> USE DecisionsEnd DEF Init
  <1>1. \A c \in Cases : row[c] \in Rows /\ before[c] \in Rows
    BY DEF Rows, Statuses
  <1>2. room = <<>> /\ Len(room) = 0 /\ room \in Seq(Replies)
    OBVIOUS
  <1>3. TypeOK
    BY <1>1, <1>2 DEF TypeOK, Deciders, Answers, Rows, Statuses
  <1>4. ApprovalsFitTheirCase /\ RecordedIsSent /\ KnownIsSent
    <2>1. \A c \in Cases, r \in Rows : approval[Approval(c, r)] = "NONE"
      BY ApprovalOfRow
    <2> QED BY <1>1, <2>1 DEF ApprovalsFitTheirCase, Open, RecordedIsSent, KnownIsSent
  <1>5. NotesAreKept /\ AnswersAreTrue /\ RoomDecisionsAreMeant
    BY <1>2 DEF NotesAreKept, AnswersAreTrue, RoomDecisionsAreMeant
  <1>6. DecisionsAreBehind /\ TakenIsMeant /\ BatchIsComplete
    BY DEF DecisionsAreBehind, TakenIsMeant, BatchIsComplete
  <1> QED BY <1>3, <1>4, <1>5, <1>6 DEF Inductive

LEMMA NextKeeps ==
  ASSUME Inductive, [Next]_vars
  PROVE  Inductive'
  <1>1. CASE UNCHANGED vars
    BY <1>1 DEF vars, settings, database, requests, reading, Inductive, TypeOK,
                ApprovalsFitTheirCase, Open, RecordedIsSent, KnownIsSent, NotesAreKept,
                DecisionsAreBehind, DecidedBy, TakenIsMeant, Message, BatchIsComplete,
                AnswersAreTrue, RoomDecisionsAreMeant
  <1>2. ASSUME NEW c \in Cases,
               \/ ReachGate(c) \/ SendRequest(c) \/ RecordRequest(c)
               \/ LoseRun(c) \/ Expire(c) \/ Reprepare(c) \/ WebDecide(c)
        PROVE  Inductive'
    BY <1>2, ReachGateKeeps, SendRequestKeeps, RecordRequestKeeps, LoseRunKeeps,
       ExpireKeeps, ReprepareKeeps, WebDecideKeeps
  <1>3. ASSUME NEW to \in Approvals \cup {Plain}, NEW d \in Decisions, Write(to, d)
        PROVE  Inductive'
    BY <1>3, WriteKeeps
  <1>4. CASE Bridge
    BY <1>4, ReadBatchKeeps, AnswerKeeps, TakeKeeps, RoomDecideKeeps DEF Bridge
  <1>5. CASE RestartBridge
    BY <1>5, RestartBridgeKeeps
  <1> QED BY <1>1, <1>2, <1>3, <1>4, <1>5 DEF Next

(***************************************************************************)
(* Every reachable state satisfies the inductive invariant.                *)
(***************************************************************************)
THEOREM BridgeInductive == Spec => []Inductive
  <1>1. Init => Inductive
    BY InitIsInductive
  <1>2. Inductive /\ [Next]_vars => Inductive'
    BY NextKeeps
  <1> QED BY <1>1, <1>2, PTL DEF Spec

(***************************************************************************)
(* The room is told the truth about each of its messages.                  *)
(***************************************************************************)
THEOREM BridgeAnswersAreTrue == Spec => []AnswersAreTrue
  <1>1. Inductive => AnswersAreTrue
    BY DEF Inductive
  <1> QED BY <1>1, BridgeInductive, PTL

(***************************************************************************)
(* A message decides at most one approval, the one it is meant for, with   *)
(* what it says, and in time.                                              *)
(***************************************************************************)
THEOREM BridgeRoomDecisionsAreMeant == Spec => []RoomDecisionsAreMeant
  <1>1. Inductive => RoomDecisionsAreMeant
    BY DEF Inductive
  <1> QED BY <1>1, BridgeInductive, PTL

-----------------------------------------------------------------------------
\* Timely replies.

\* Only Ignore tells the room that a message is ignored, of the message at work.
LEMMA OnlyIgnoreIgnores ==
  ASSUME Inductive, [Next]_vars, NEW m \in Messages,
         answer'[m] = "ignored", answer[m] # "ignored"
  PROVE  Ignore /\ m = cursor + 1
  <1>1. answer' # answer
    OBVIOUS
  <1>2. \A told : Done(told) => m = cursor + 1 /\ told = "ignored"
    BY DEF Done, Inductive, TypeOK
  <1>3. ~UNCHANGED vars
    BY <1>1 DEF vars, reading
  <1>4. ASSUME NEW c \in Cases
        PROVE  ~(\/ ReachGate(c) \/ SendRequest(c) \/ RecordRequest(c)
                 \/ LoseRun(c) \/ Expire(c) \/ Reprepare(c) \/ WebDecide(c))
    BY <1>1 DEF ReachGate, SendRequest, RecordRequest, LoseRun, Expire, Reprepare, WebDecide,
                reading
  <1>5. \A to \in Approvals \cup {Plain}, d \in Decisions : ~Write(to, d)
    BY <1>1 DEF Write, reading
  <1>6. ~ReadBatch /\ ~RoomDecide /\ ~RestartBridge
    BY <1>1 DEF ReadBatch, RoomDecide, RestartBridge
  <1>7. ~Take /\ ~RoomConflict /\ ~Accept /\ ~Unconfirmed
    BY <1>1, <1>2 DEF Take, RoomConflict, Accept, Unconfirmed
  <1>8. Ignore
    BY <1>3, <1>4, <1>5, <1>6, <1>7 DEF Next, Bridge
  <1> QED BY <1>2, <1>8 DEF Ignore

LEMMA TimelyStep ==
  ASSUME Inductive, [Next]_vars, NEW m \in Messages,
         answer'[m] = "ignored", answer[m] # "ignored", ~replica
  PROVE  LET a == room[m].to IN
         ~(/\ room[m].timely
           /\ a \notin expired
           /\ approval[a] = "PENDING"
           /\ row[a[1]].rec = a[2])
  <1> DEFINE a == room[m].to
  <1> SUFFICES ASSUME room[m].timely, a \notin expired, approval[a] = "PENDING",
                      row[a[1]].rec = a[2]
               PROVE  FALSE
    OBVIOUS
  <1>1. Ignore /\ m = cursor + 1
    BY OnlyIgnoreIgnores
  <1>2. bridge = "handling" /\ CountsFor(room[m]) = {}
    BY <1>1 DEF Ignore, Message
  <1>3. m \in (cursor + 1)..upto /\ m \in 1..Len(room)
    BY <1>1, <1>2 DEF Inductive, TypeOK
  <1>4. PICK c \in Cases, r \in Rows : a = Approval(c, r)
    BY <1>3 DEF Inductive, NotesAreKept
  <1>5. a[1] = c /\ a[2] = r.rec
    BY <1>4, ApprovalOfRow
  <1>6. a = Approval(c, row[c])
    BY <1>4, <1>5 DEF Approval
  <1>7. a \in known
    BY <1>2, <1>3, <1>6 DEF Inductive, BatchIsComplete, Open
  <1> QED BY <1>2, <1>7 DEF CountsFor

(***************************************************************************)
(* A timely reply to a request that is recorded and open is not ignored.   *)
(***************************************************************************)
THEOREM BridgeTimelyRepliesCount == Spec => TimelyRepliesCount
  <1>1. Inductive /\ [Next]_vars =>
          [\A m \in Messages :
             answer'[m] = "ignored" /\ answer[m] # "ignored" /\ ~replica =>
               LET a == room[m].to IN
               ~(/\ room[m].timely
                 /\ a \notin expired
                 /\ approval[a] = "PENDING"
                 /\ row[a[1]].rec = a[2])]_vars
    BY TimelyStep
  <1> QED BY <1>1, BridgeInductive, PTL DEF Spec, TimelyRepliesCount

-----------------------------------------------------------------------------
\* The bridge implements the gate.

LEMMA ReachGateAsks ==
  ASSUME Inductive, NEW c \in Cases, ReachGate(c)
  PROVE  \E a \in Approvals : Gate!Ask(a)
  <1>1. row[c] \in Rows
    BY DEF Inductive, TypeOK
  <1>2. Approval(c, row[c]) \in Approvals
    BY <1>1, ApprovalOfRow
  <1> QED BY <1>2 DEF Gate!Ask, ReachGate, Inductive, ApprovalsFitTheirCase

LEMMA DecideDecides ==
  ASSUME Inductive, NEW c \in Cases, NEW r \in Rows, NEW d \in Decisions,
         NEW who \in Deciders, Decide(c, r, d, who)
  PROVE  \E a \in Approvals, e \in Decisions, p \in Deciders : Gate!Decide(a, e, p)
  <1>1. Approval(c, r) \in Approvals
    BY ApprovalOfRow
  <1>2. Gate!Decide(Approval(c, r), d, who)
    BY DEF Gate!Decide, Decide, MayDecide, Open
  <1> QED BY <1>1, <1>2

LEMMA NextImplementsGate ==
  ASSUME Inductive, [Next]_vars
  PROVE  [Gate!Next]_<<approval, by>>
  <1> USE DEF Gate!Next
  <1>1. CASE UNCHANGED vars
    BY <1>1 DEF vars, database
  <1>2. ASSUME NEW c \in Cases, ReachGate(c)
        PROVE  Gate!Next
    BY <1>2, ReachGateAsks
  <1>3. ASSUME NEW c \in Cases, WebDecide(c)
        PROVE  Gate!Next
    <2>1. row[c] \in Rows /\ WebUI \in Deciders
      BY DEF Inductive, TypeOK, Deciders
    <2>2. PICK d \in Decisions : Decide(c, row[c], d, WebUI)
      BY <1>3 DEF WebDecide
    <2>3. PICK r \in Rows : Decide(c, r, d, WebUI)
      BY <2>1, <2>2
    <2> QED BY <2>1, <2>3, DecideDecides
  <1>4. CASE RoomDecide
    <2> DEFINE m == cursor + 1
    <2>1. taken.case \in Cases /\ taken.row \in Rows /\ m \in 1..Len(room)
      BY <1>4 DEF RoomDecide, Inductive, TypeOK, TakenIsMeant
    <2>2. m \in Deciders /\ room[m].says \in Decisions
      BY <2>1, MessageIsTyped DEF Inductive, Deciders
    <2>3. Decide(taken.case, taken.row, room[m].says, m)
      BY <1>4 DEF RoomDecide, Message
    <2> HIDE DEF m
    <2> QED BY <2>1, <2>2, <2>3, DecideDecides
  <1>5. ASSUME NEW c \in Cases,
               SendRequest(c) \/ RecordRequest(c) \/ LoseRun(c) \/ Expire(c) \/ Reprepare(c)
        PROVE  UNCHANGED <<approval, by>>
    BY <1>5 DEF SendRequest, RecordRequest, LoseRun, Expire, Reprepare, database
  <1>6. ASSUME NEW to \in Approvals \cup {Plain}, NEW d \in Decisions, Write(to, d)
        PROVE  UNCHANGED <<approval, by>>
    BY <1>6 DEF Write, database
  <1>7. CASE ReadBatch \/ Ignore \/ Take \/ RoomConflict \/ Accept \/ Unconfirmed
    BY <1>7 DEF ReadBatch, Ignore, Take, RoomConflict, Accept, Unconfirmed, database
  <1>8. CASE RestartBridge
    BY <1>8 DEF RestartBridge, database
  <1> QED BY <1>1, <1>2, <1>3, <1>4, <1>5, <1>6, <1>7, <1>8 DEF Next, Bridge

(***************************************************************************)
(* An approval is asked for once, and one decision of one person settles   *)
(* it, from the WebUI or from the room.                                    *)
(***************************************************************************)
THEOREM BridgeImplementsApprovalGate == Spec => ImplementsApprovalGate
  <1>1. Init => Gate!Init
    BY DEF Init, Gate!Init
  <1>2. Inductive /\ [Next]_vars => [Gate!Next]_<<approval, by>>
    BY NextImplementsGate
  <1> QED BY <1>1, <1>2, BridgeInductive, PTL DEF Spec, Gate!Spec, ImplementsApprovalGate
=============================================================================
