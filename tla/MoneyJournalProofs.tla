------------------------- MODULE MoneyJournalProofs -------------------------
(***************************************************************************)
(* Theorems about MoneyJournal for any number of calls, processes, cases,  *)
(* channels, requests and recording epochs.                                *)
(***************************************************************************)
EXTENDS MoneyJournal, TLAPS

-----------------------------------------------------------------------------
(* Type correctness *)

LEMMA KeyType ==
    ASSUME NEW b \in BaseKeys, NEW n \in 0..MaxEpoch
    PROVE  <<b, n>> \in Key
BY DEF Key

\* Every variable keeps its type through every operation: in particular the
\* epoch in an operation id is one the case has had, and a hold names a channel.
THEOREM TypeCorrect == Spec => []TypeOK
<1>1. Init => TypeOK
  <2> SUFFICES ASSUME Init PROVE TypeOK
    OBVIOUS
  <2>1. (CHOOSE r \in Requests : TRUE) \in Requests
    BY RequestAssumption
  <2>2. 0 \in 0..MaxEpoch
    BY EpochAssumption
  <2>3. key \in [Calls -> Key]
    BY <2>2, RequestAssumption, KeyType DEF Init
  <2> QED
    BY <2>1, <2>2, <2>3 DEF Init, TypeOK, Status, Answer, Claim, Step
<1>2. TypeOK /\ [Next]_vars => TypeOK'
  <2> SUFFICES ASSUME TypeOK, [Next]_vars PROVE TypeOK'
    OBVIOUS
  <2> USE DEF TypeOK, Status, Unresolved, Step, Answer, Claim
  <2> USE DEF rows, dbVars, callVars, Goto, Refuse, Uncertain, Succeed, LeaveGateway
  <2>1. ASSUME NEW e \in Calls, Enter(e) PROVE TypeOK'
    <3>1. <<req[e].key, epoch[req[e].case]>> \in Key
      BY RequestAssumption, KeyType
    <3>2. gateway' \in [Processes -> SUBSET Calls] /\ key' \in [Calls -> Key]
      BY <2>1, <3>1 DEF Enter
    <3>3. pc' \in [Calls -> Step] /\ answer' \in [Calls -> Answer]
      BY <2>1 DEF Enter
    <3> QED BY <2>1, <3>2, <3>3 DEF Enter
  <2>2. ASSUME NEW e \in Calls, PrepareAnswers(e) PROVE TypeOK'
    BY <2>2 DEF PrepareAnswers
  <2>3. ASSUME NEW e \in Calls, Prepare(e) PROVE TypeOK'
    BY <2>3 DEF Prepare
  <2>4. ASSUME NEW e \in Calls, EffectRefused(e) PROVE TypeOK'
    BY <2>4 DEF EffectRefused
  <2>5. ASSUME NEW e \in Calls, StoredResult(e) PROVE TypeOK'
    BY <2>5 DEF StoredResult
  <2>6. ASSUME NEW e \in Calls, CommitEffect(e) PROVE TypeOK'
    <3>1. [call |-> e, request |-> req[e]] \in Effect
      BY DEF Effect
    <3>2. ledger' \in [Key -> SUBSET Effect]
      BY <2>6, <3>1 DEF CommitEffect
    <3>3. gateway' \in [Processes -> SUBSET Calls]
      BY <2>6 DEF CommitEffect
    <3>4. /\ status' \in [Key -> Status]
          /\ pc' \in [Calls -> Step] /\ answer' \in [Calls -> Answer]
      BY <2>6 DEF CommitEffect
    <3>5. UNCHANGED <<generation, intent, holds, epoch, locked, callVars>>
      BY <2>6 DEF CommitEffect
    <3> QED BY <3>2, <3>3, <3>4, <3>5
  <2>7. ASSUME NEW e \in Calls, HandlerRejects(e) PROVE TypeOK'
    BY <2>7 DEF HandlerRejects
  <2>8. ASSUME NEW e \in Calls, ReportRejected(e) PROVE TypeOK'
    BY <2>8 DEF ReportRejected
  <2>9. ASSUME NEW e \in Calls, MarkUnknown(e) PROVE TypeOK'
    BY <2>9 DEF MarkUnknown
  <2>10. ASSUME NEW c \in Cases
         PROVE  CaseChannels(c) \X {c} \subseteq Channels \X Cases
    BY RequestAssumption DEF CaseChannels
  <2>11. ASSUME NEW e \in Calls, Freeze(e) PROVE TypeOK'
    <3>1. req[e].case \in Cases
      BY RequestAssumption
    <3>2. holds' \subseteq Channels \X Cases
      BY <2>10, <2>11, <3>1 DEF Freeze
    <3> QED BY <2>11, <3>2 DEF Freeze
  <2>12. ASSUME NEW e \in Calls, DatabaseFails(e) PROVE TypeOK'
    BY <2>12 DEF DatabaseFails
  <2>13. ASSUME NEW e \in Calls, RevokeClaim(e) PROVE TypeOK'
    BY <2>13 DEF RevokeClaim
  <2>14. ASSUME NEW c \in Cases, Recover(c) PROVE TypeOK'
    <3>1. claim' \in [Calls -> Claim]
      BY <2>14 DEF Recover, RevokeCase
    <3> QED BY <2>14, <3>1 DEF Recover
  <2>15. ASSUME NEW c \in Cases, BackgroundFailure(c) PROVE TypeOK'
    <3>1. holds' \subseteq Channels \X Cases
      BY <2>10, <2>15 DEF BackgroundFailure
    <3> QED BY <2>15, <3>1 DEF BackgroundFailure
  <2>16. ASSUME NEW c \in Cases, Reprepare(c) PROVE TypeOK'
    <3>1. claim' \in [Calls -> Claim]
      BY <2>16 DEF Reprepare, RevokeCase
    <3>2. epoch' \in [Cases -> 0..MaxEpoch]
      BY <2>16, EpochAssumption DEF Reprepare
    <3> QED BY <2>16, <3>1, <3>2 DEF Reprepare
  <2>17. ASSUME NEW p \in Processes, Crash(p) PROVE TypeOK'
    BY <2>17 DEF Crash, Kill
  <2>18. ASSUME NEW b \in BOOLEAN, SetRecoveryLock(b) PROVE TypeOK'
    BY <2>18 DEF SetRecoveryLock, Kill
  <2>19. CASE UNCHANGED vars
    BY <2>19 DEF vars
  <2> QED
    BY <2>1, <2>2, <2>3, <2>4, <2>5, <2>6, <2>7, <2>8, <2>9, <2>11, <2>12,
       <2>13, <2>14, <2>15, <2>16, <2>17, <2>18, <2>19 DEF Next, CallStep
<1> QED
  BY <1>1, <1>2, PTL DEF Spec

-----------------------------------------------------------------------------
(* The inductive invariant *)

\* What it says of the database alone, and what it says of the calls.
DatabaseFacts ==
    /\ AtMostOnePosting
    /\ LedgerMatchesJournal
    /\ OneUnresolvedPerChannel
    /\ UnresolvedIsReconcilable
    /\ RowsAreWhole

CallFacts ==
    /\ FencedCallNeverPosts
    /\ AnswersAreTrue
    /\ CallsKnowTheirRow
    /\ FencedCallsAreBehind
    /\ PostingEndsTheCall

\* Actions that leave the rows, the ledger and the epochs alone keep what is
\* said of the database.
LEMMA QuietDatabase ==
    ASSUME DatabaseFacts, UNCHANGED <<status, generation, intent, ledger, epoch>>
    PROVE  DatabaseFacts'
BY DEF DatabaseFacts, AtMostOnePosting, LedgerMatchesJournal, OneUnresolvedPerChannel,
       UnresolvedIsReconcilable, Reconcilable, RowsAreWhole, SameRequest

LEMMA EffectsAreOfCalls ==
    ASSUME TypeOK, NEW k \in Key, NEW x \in ledger[k]
    PROVE  x.call \in Calls /\ x.request \in Requests
BY DEF TypeOK, Effect

\* The request that reuses a row is the intent in the row.
LEMMA RequestIsIntent ==
    ASSUME NEW r \in Requests, NEW i \in Requests, r.key = i.key, SameRequest(r, i)
    PROVE  r = i
BY RequestAssumption DEF SameRequest

\* Every step keeps the invariant.
LEMMA InductiveStep ==
    ASSUME TypeOK, TypeOK', Inductive, [Next]_vars
    PROVE  Inductive'
<1> USE DEF TypeOK, Status, Unresolved, Step, Answer, Claim
<1> USE DEF rows, dbVars, callVars, Goto, Refuse, Uncertain, Succeed
<1>0. DatabaseFacts /\ CallFacts
  BY DEF Inductive, DatabaseFacts, CallFacts
<1>1. ASSUME NEW e \in Calls, Enter(e) PROVE Inductive'
  <2>1. DatabaseFacts'
    BY <1>0, <1>1, QuietDatabase DEF Enter
  <2>2. FencedCallNeverPosts' /\ CallsKnowTheirRow' /\ FencedCallsAreBehind' /\ PostingEndsTheCall'
    <3>1. FencedCallNeverPosts'
      BY <1>1, <1>0 DEF Enter, CallFacts, FencedCallNeverPosts
    <3>2. CallsKnowTheirRow'
      BY <1>0, <1>1 DEF Enter, CallFacts, CallsKnowTheirRow, SameRequest
    <3>3. FencedCallsAreBehind'
      BY <1>0, <1>1 DEF Enter, CallFacts, FencedCallsAreBehind
    <3>4. PostingEndsTheCall'
      BY <1>0, <1>1, EffectsAreOfCalls DEF Enter, CallFacts, PostingEndsTheCall
    <3> QED BY <3>1, <3>2, <3>3, <3>4
  <2>3. AnswersAreTrue'
    <3>1. \A f \in Calls : answer'[f] = "OK" => answer[f] = "OK" /\ key'[f] = key[f]
      BY <1>0, <1>1 DEF Enter, CallFacts, PostingEndsTheCall
    <3>2. \A f \in Calls : answer'[f] = "REJECTED" =>
              answer[f] = "REJECTED" \/ \A k \in Key : \A x \in ledger[k] : x.call # f
      BY <1>0, <1>1 DEF Enter, CallFacts, PostingEndsTheCall
    <3> QED
      BY <1>0, <1>1, <3>1, <3>2 DEF Enter, CallFacts, AnswersAreTrue, SameRequest
  <2> QED BY <2>1, <2>2, <2>3 DEF Inductive, DatabaseFacts, CallFacts
<1>2. ASSUME NEW e \in Calls, PrepareAnswers(e) PROVE Inductive'
  <2>1. DatabaseFacts'
    BY <1>0, <1>2, QuietDatabase DEF PrepareAnswers
  <2>2. CallFacts'
    <3>1. FencedCallNeverPosts'
      BY <1>0, <1>2, EffectsAreOfCalls DEF PrepareAnswers, CallFacts, FencedCallNeverPosts
    <3>2. AnswersAreTrue'
      <4>1. /\ UNCHANGED <<intent, ledger, key, req>>
            /\ answer'[e] \in {answer[e], "REJECTED", "RESULT_UNKNOWN"}
            /\ \A f \in Calls : f # e => answer'[f] = answer[f]
        BY <1>2 DEF PrepareAnswers
      <4>2. \A k \in Key : \A x \in ledger[k] : x.call # e
        BY <1>0, <1>2 DEF PrepareAnswers, CallFacts, PostingEndsTheCall
      <4> QED
        BY <1>0, <4>1, <4>2 DEF CallFacts, AnswersAreTrue, SameRequest
    <3>3. CallsKnowTheirRow'
      BY <1>0, <1>2 DEF PrepareAnswers, CallFacts, CallsKnowTheirRow, SameRequest
    <3>4. FencedCallsAreBehind'
      BY <1>0, <1>2 DEF PrepareAnswers, CallFacts, FencedCallsAreBehind, CallsKnowTheirRow
    <3>5. PostingEndsTheCall'
      <4>1. /\ pc[e] = "keyed" /\ ledger' = ledger
            /\ \A f \in Calls : f # e => pc'[f] = pc[f] /\ answer'[f] = answer[f]
            /\ answer'[e] \in {"OK", "REJECTED"} => pc'[e] = "done" \/ answer'[e] = answer[e]
        BY <1>2 DEF PrepareAnswers
      <4> QED
        BY <1>0, <4>1, EffectsAreOfCalls DEF CallFacts, PostingEndsTheCall
    <3> QED BY <3>1, <3>2, <3>3, <3>4, <3>5 DEF CallFacts
  <2> QED BY <2>1, <2>2 DEF Inductive, DatabaseFacts, CallFacts
<1>3. ASSUME NEW e \in Calls, Prepare(e) PROVE Inductive'
  <2>1. /\ key[e] \in Key /\ req[e] \in Requests /\ pc[e] = "keyed"
        /\ key[e] = <<req[e].key, epoch[req[e].case]>>
        /\ status[key[e]] \in {"ABSENT", "NOT_COMMITTED"}
        /\ status[key[e]] # "ABSENT" => intent[key[e]] = req[e]
    BY <1>0, <1>3, RequestIsIntent
    DEF Prepare, MayPrepare, CallFacts, DatabaseFacts, CallsKnowTheirRow, RowsAreWhole
  <2>2. \A j \in Key :
           IF j = key[e]
           THEN /\ status'[j] = "PREPARED" /\ intent'[j] = req[e]
                /\ generation'[j] \in Nat /\ generation'[j] >= generation[j]
           ELSE status'[j] = status[j] /\ intent'[j] = intent[j] /\ generation'[j] = generation[j]
    <3>1. generation'[key[e]] = IF status[key[e]] = "ABSENT" THEN 1 ELSE generation[key[e]]
      BY <1>3, <2>1 DEF Prepare
    <3>2. generation'[key[e]] >= generation[key[e]]
      BY <1>0, <2>1, <3>1 DEF DatabaseFacts, RowsAreWhole
    <3>3. intent'[key[e]] = req[e]
      BY <1>3, <2>1 DEF Prepare
    <3>4. \A j \in Key : j # key[e] =>
              /\ status'[j] = status[j] /\ intent'[j] = intent[j]
              /\ generation'[j] = generation[j]
      BY <1>3 DEF Prepare
    <3>5. status'[key[e]] = "PREPARED" /\ generation'[key[e]] \in Nat
      BY <1>3, <2>1 DEF Prepare
    <3> QED
      BY <3>2, <3>3, <3>4, <3>5
  <2>3. \A j \in Key : status[j] \in Unresolved => intent[j].channel # req[e].channel
    BY <1>3 DEF Prepare, MayPrepare, ChannelBlocked
  <2>4. AtMostOnePosting'
    BY <1>0, <1>3 DEF Prepare, DatabaseFacts, AtMostOnePosting
  <2>5. LedgerMatchesJournal'
    <3>1. ledger' = ledger
      BY <1>3 DEF Prepare
    <3>2. ASSUME NEW j \in Key
          PROVE  /\ status'[j] = "COMMITTED" <=> ledger'[j] # {}
                 /\ \A x \in ledger'[j] : SameRequest(x.request, intent'[j])
      <4>1. CASE j = key[e]
        BY <1>0, <2>1, <2>2, <3>1, <4>1 DEF DatabaseFacts, LedgerMatchesJournal
      <4>2. CASE j # key[e]
        BY <1>0, <2>2, <3>1, <4>2
        DEF DatabaseFacts, LedgerMatchesJournal, SameRequest
      <4> QED BY <4>1, <4>2
    <3> QED
      BY <3>2 DEF LedgerMatchesJournal, SameRequest
  <2>6. OneUnresolvedPerChannel'
    <3> SUFFICES ASSUME NEW i \in Key, NEW j \in Key,
                        status'[i] \in Unresolved, status'[j] \in Unresolved,
                        intent'[i].channel = intent'[j].channel
                 PROVE  i = j
      BY DEF OneUnresolvedPerChannel
    <3>1. CASE i = key[e] \/ j = key[e]
      BY <2>2, <2>3, <3>1
    <3>2. CASE i # key[e] /\ j # key[e]
      BY <1>0, <2>2, <3>2 DEF DatabaseFacts, OneUnresolvedPerChannel
    <3> QED BY <3>1, <3>2
  <2>7. UnresolvedIsReconcilable'
    <3>1. epoch' = epoch
      BY <1>3 DEF Prepare
    <3>2. intent'[key[e]] = req[e] /\ epoch[req[e].case] = key[e][2]
      BY <2>1, <2>2
    <3> QED
      BY <1>0, <2>1, <2>2, <3>1, <3>2
      DEF DatabaseFacts, UnresolvedIsReconcilable, Reconcilable
  <2>8. RowsAreWhole'
    BY <1>0, <1>3, <2>1, <2>2, <2>3 DEF DatabaseFacts, RowsAreWhole
  <2>9. FencedCallNeverPosts'
    BY <1>0, <1>3 DEF Prepare, CallFacts, FencedCallNeverPosts
  <2>10. AnswersAreTrue'
    <3>1. \A f \in Calls : answer'[f] \in {"OK", "REJECTED"} => answer'[f] = answer[f]
      BY <1>3 DEF Prepare
    <3>2. \A f \in Calls : answer[f] = "OK" => key[f] # key[e]
      <4>1. ledger[key[e]] = {}
        BY <1>0, <2>1 DEF DatabaseFacts, LedgerMatchesJournal
      <4> QED BY <1>0, <4>1 DEF CallFacts, AnswersAreTrue
    <3> QED
      BY <1>0, <1>3, <2>2, <3>1, <3>2
      DEF Prepare, CallFacts, AnswersAreTrue, SameRequest
  <2>11. CallsKnowTheirRow'
    <3>1. \A f \in Calls : pc'[f] = "keyed" => pc[f] = "keyed"
      BY <1>3 DEF Prepare
    <3>2. ASSUME NEW f \in Calls, pc'[f] = "prepared"
          PROVE  \/ f = e /\ seen'[f] = generation'[key[e]]
                 \/ pc[f] = "prepared" /\ seen'[f] = seen[f]
      <4>1. CASE f = e
        BY <1>3, <2>1, <3>2, <4>1 DEF Prepare
      <4>2. CASE f # e
        BY <1>3, <3>2, <4>2 DEF Prepare
      <4> QED BY <4>1, <4>2
    <3>3. ASSUME NEW f \in Calls, pc'[f] = "keyed"
          PROVE  key'[f] = <<req'[f].key, epoch'[req'[f].case]>>
      BY <1>0, <1>3, <3>1, <3>3 DEF Prepare, CallFacts, CallsKnowTheirRow
    <3>4. ASSUME NEW f \in Calls, pc'[f] = "prepared"
          PROVE  /\ status'[key'[f]] # "ABSENT"
                 /\ SameRequest(req'[f], intent'[key'[f]])
                 /\ seen'[f] <= generation'[key'[f]]
      <4>1. key' = key /\ req' = req
        BY <1>3 DEF Prepare
      <4>2. CASE f = e
        <5>1. seen'[e] = generation'[key[e]]
          BY <2>1, <3>2, <3>4, <4>2
        <5>2. /\ generation'[key[e]] \in Nat
              /\ status'[key[e]] = "PREPARED" /\ intent'[key[e]] = req[e]
          BY <2>1, <2>2
        <5> QED
          BY <4>1, <4>2, <5>1, <5>2 DEF SameRequest
      <4>3. CASE f # e
        <5>1. pc[f] = "prepared" /\ seen'[f] = seen[f] /\ key[f] \in Key
          BY <3>2, <3>4, <4>3
        <5>2. /\ status[key[f]] # "ABSENT" /\ SameRequest(req[f], intent[key[f]])
              /\ seen[f] <= generation[key[f]]
          BY <1>0, <5>1 DEF CallFacts, CallsKnowTheirRow
        <5>3. CASE key[f] = key[e]
          BY <2>1, <2>2, <4>1, <5>1, <5>2, <5>3 DEF SameRequest
        <5>4. CASE key[f] # key[e]
          BY <2>2, <4>1, <5>1, <5>2, <5>4 DEF SameRequest
        <5> QED BY <5>3, <5>4
      <4> QED BY <4>2, <4>3
    <3> QED
      BY <3>3, <3>4 DEF CallsKnowTheirRow, SameRequest
  <2>12. FencedCallsAreBehind'
    <3>1. /\ fenced' = fenced /\ key' = key
          /\ \A f \in Calls : f # e => pc'[f] = pc[f] /\ seen'[f] = seen[f]
      BY <1>3 DEF Prepare
    <3>2. e \notin fenced
      BY <1>0, <2>1 DEF CallFacts, FencedCallsAreBehind
    <3>3. \A j \in Key : generation'[j] >= generation[j]
      BY <2>2
    <3> QED
      BY <1>0, <3>1, <3>2, <3>3 DEF CallFacts, FencedCallsAreBehind
  <2>13. PostingEndsTheCall'
    <3>1. /\ ledger' = ledger
          /\ \A f \in Calls : f # e => pc'[f] = pc[f] /\ answer'[f] = answer[f]
          /\ answer'[e] \in {"OK", "REJECTED"} => answer'[e] = answer[e]
      BY <1>3 DEF Prepare
    <3> QED
      BY <1>0, <2>1, <3>1, EffectsAreOfCalls DEF CallFacts, PostingEndsTheCall
  <2> QED
    BY <2>4, <2>5, <2>6, <2>7, <2>8, <2>9, <2>10, <2>11, <2>12, <2>13 DEF Inductive
<1>4. ASSUME NEW e \in Calls, EffectRefused(e) PROVE Inductive'
  <2>1. DatabaseFacts'
    BY <1>0, <1>4, QuietDatabase DEF EffectRefused
  <2>2. CallFacts'
    <3>1. FencedCallNeverPosts'
      BY <1>0, <1>4, EffectsAreOfCalls DEF EffectRefused, CallFacts, FencedCallNeverPosts
    <3>2. AnswersAreTrue'
      <4>1. /\ UNCHANGED <<intent, ledger, key, req>>
            /\ answer'[e] # "OK"
            /\ \A f \in Calls : f # e => answer'[f] = answer[f]
        BY <1>4 DEF EffectRefused
      <4>2. \A k \in Key : \A x \in ledger[k] : x.call # e
        BY <1>0, <1>4 DEF EffectRefused, CallFacts, PostingEndsTheCall
      <4> QED
        BY <1>0, <4>1, <4>2 DEF CallFacts, AnswersAreTrue, SameRequest
    <3>3. CallsKnowTheirRow'
      BY <1>0, <1>4 DEF EffectRefused, CallFacts, CallsKnowTheirRow, SameRequest
    <3>4. FencedCallsAreBehind'
      BY <1>0, <1>4 DEF EffectRefused, CallFacts, FencedCallsAreBehind, CallsKnowTheirRow
    <3>5. PostingEndsTheCall'
      <4>1. /\ pc[e] = "prepared" /\ ledger' = ledger
            /\ \A f \in Calls : f # e => pc'[f] = pc[f] /\ answer'[f] = answer[f]
            /\ answer'[e] \in {"OK", "REJECTED"} => pc'[e] = "done"
        BY <1>4 DEF EffectRefused
      <4> QED
        BY <1>0, <4>1, EffectsAreOfCalls DEF CallFacts, PostingEndsTheCall
    <3> QED BY <3>1, <3>2, <3>3, <3>4, <3>5 DEF CallFacts
  <2> QED BY <2>1, <2>2 DEF Inductive, DatabaseFacts, CallFacts
<1>5. ASSUME NEW e \in Calls, StoredResult(e) PROVE Inductive'
  <2>1. DatabaseFacts'
    BY <1>0, <1>5, QuietDatabase DEF StoredResult
  <2>2. CallFacts'
    BY <1>0, <1>5, EffectsAreOfCalls
    DEF StoredResult, Fence, DatabaseFacts, LedgerMatchesJournal, CallFacts,
        FencedCallNeverPosts, AnswersAreTrue, CallsKnowTheirRow,
        FencedCallsAreBehind, PostingEndsTheCall, SameRequest
  <2> QED BY <2>1, <2>2 DEF Inductive, DatabaseFacts, CallFacts
<1>6. ASSUME NEW e \in Calls, CommitEffect(e) PROVE Inductive'
  <2>1. /\ key[e] \in Key /\ pc[e] = "prepared" /\ status[key[e]] = "PREPARED"
        /\ seen[e] = generation[key[e]]
        /\ ledger[key[e]] = {}
        /\ SameRequest(req[e], intent[key[e]])
    BY <1>0, <1>6
    DEF CommitEffect, MayPost, Fence, DatabaseFacts, CallFacts,
        LedgerMatchesJournal, CallsKnowTheirRow
  <2>2. ledger' = [ledger EXCEPT ![key[e]] = {[call |-> e, request |-> req[e]]}]
    BY <1>6, <2>1 DEF CommitEffect
  <2>3. AtMostOnePosting'
    BY <1>0, <1>6, <2>1, <2>2 DEF CommitEffect, DatabaseFacts, AtMostOnePosting
  <2>4. LedgerMatchesJournal'
    BY <1>0, <1>6, <2>1, <2>2
    DEF CommitEffect, DatabaseFacts, LedgerMatchesJournal, SameRequest
  <2>5. OneUnresolvedPerChannel'
    BY <1>0, <1>6, <2>1, <2>2
    DEF CommitEffect, DatabaseFacts, OneUnresolvedPerChannel
  <2>6. UnresolvedIsReconcilable'
    BY <1>0, <1>6, <2>1, <2>2
    DEF CommitEffect, DatabaseFacts, UnresolvedIsReconcilable, Reconcilable
  <2>7. RowsAreWhole'
    BY <1>0, <1>6, <2>1, <2>2 DEF CommitEffect, DatabaseFacts, RowsAreWhole
  <2>8. FencedCallNeverPosts'
    BY <1>0, <1>6, <2>1, <2>2
    DEF CommitEffect, CallFacts, FencedCallNeverPosts, FencedCallsAreBehind
  <2>9. AnswersAreTrue'
    <3>1. \A f \in Calls : answer'[f] = "REJECTED" => answer[f] = "REJECTED" /\ f # e
      BY <1>0, <1>6, <2>1 DEF CommitEffect, CallFacts, PostingEndsTheCall
    <3>2. \A f \in Calls : answer'[f] = "OK" => answer[f] = "OK" \/ f = e
      BY <1>6 DEF CommitEffect
    <3> QED
      BY <1>0, <1>6, <2>1, <2>2, <3>1, <3>2
      DEF CommitEffect, CallFacts, AnswersAreTrue, SameRequest
  <2>10. CallsKnowTheirRow'
    BY <1>0, <1>6, <2>1, <2>2
    DEF CommitEffect, CallFacts, CallsKnowTheirRow, SameRequest
  <2>11. FencedCallsAreBehind'
    BY <1>0, <1>6, <2>1, <2>2 DEF CommitEffect, CallFacts, FencedCallsAreBehind
  <2>12. PostingEndsTheCall'
    <3>1. /\ pc'[e] \in {"raised", "done"}
          /\ answer'[e] \in {"OK", "REJECTED"} => pc'[e] = "done" \/ answer'[e] = answer[e]
          /\ \A f \in Calls : f # e => pc'[f] = pc[f] /\ answer'[f] = answer[f]
      BY <1>6 DEF CommitEffect
    <3>2. answer[e] \notin {"OK", "REJECTED"}
      BY <1>0, <2>1 DEF CallFacts, PostingEndsTheCall
    <3>3. \A k \in Key : \A x \in ledger'[k] : x \in ledger[k] \/ x.call = e
      BY <1>6, <2>1 DEF CommitEffect
    <3>4. ASSUME NEW k \in Key, NEW x \in ledger'[k]
          PROVE  pc'[x.call] \in {"raised", "freezing", "done"}
      <4>1. CASE x.call = e
        BY <3>1, <4>1
      <4>2. CASE x.call # e
        <5>1. x \in ledger[k] /\ x.call \in Calls
          BY <3>3, <4>2, EffectsAreOfCalls
        <5>2. pc[x.call] \in {"raised", "freezing", "done"}
          BY <1>0, <5>1 DEF CallFacts, PostingEndsTheCall
        <5> QED BY <3>1, <4>2, <5>1, <5>2
      <4> QED BY <4>1, <4>2
    <3>5. \A f \in Calls : answer'[f] \in {"OK", "REJECTED"} => pc'[f] = "done"
      BY <1>0, <3>1, <3>2 DEF CallFacts, PostingEndsTheCall
    <3> QED
      BY <3>4, <3>5 DEF PostingEndsTheCall
  <2> QED
    BY <2>3, <2>4, <2>5, <2>6, <2>7, <2>8, <2>9, <2>10, <2>11, <2>12 DEF Inductive
<1>7. ASSUME NEW e \in Calls, HandlerRejects(e) PROVE Inductive'
  <2>1. DatabaseFacts'
    BY <1>0, <1>7, QuietDatabase DEF HandlerRejects
  <2>2. CallFacts'
    BY <1>0, <1>7, EffectsAreOfCalls
    DEF HandlerRejects, CallFacts, FencedCallNeverPosts, AnswersAreTrue, CallsKnowTheirRow,
        FencedCallsAreBehind, PostingEndsTheCall, SameRequest
  <2> QED BY <2>1, <2>2 DEF Inductive, DatabaseFacts, CallFacts
<1>8. ASSUME NEW e \in Calls, ReportRejected(e) PROVE Inductive'
  <2>1. AtMostOnePosting'
    BY <1>0, <1>8 DEF ReportRejected, DatabaseFacts, AtMostOnePosting
  <2>2. LedgerMatchesJournal'
    BY <1>0, <1>8
    DEF ReportRejected, DatabaseFacts, LedgerMatchesJournal, SameRequest
  <2>3. OneUnresolvedPerChannel'
    BY <1>0, <1>8 DEF ReportRejected, DatabaseFacts, OneUnresolvedPerChannel
  <2>4. UnresolvedIsReconcilable'
    BY <1>0, <1>8
    DEF ReportRejected, DatabaseFacts, UnresolvedIsReconcilable, Reconcilable
  <2>5. RowsAreWhole'
    BY <1>0, <1>8 DEF ReportRejected, DatabaseFacts, RowsAreWhole
  <2>6. FencedCallNeverPosts'
    BY <1>0, <1>8 DEF ReportRejected, CallFacts, FencedCallNeverPosts
  <2>7. AnswersAreTrue'
    <3>1. /\ UNCHANGED <<intent, ledger, key, req>>
          /\ answer'[e] # "OK"
          /\ \A f \in Calls : f # e => answer'[f] = answer[f]
      BY <1>8 DEF ReportRejected
    <3>2. \A k \in Key : \A x \in ledger[k] : x.call # e
      BY <1>0, <1>8, EffectsAreOfCalls DEF ReportRejected, CallFacts, PostingEndsTheCall
    <3> QED
      BY <1>0, <3>1, <3>2 DEF CallFacts, AnswersAreTrue, SameRequest
  <2>8. CallsKnowTheirRow'
    BY <1>0, <1>8 DEF ReportRejected, CallFacts, CallsKnowTheirRow, SameRequest
  <2>9. FencedCallsAreBehind'
    BY <1>0, <1>8
    DEF ReportRejected, CallFacts, FencedCallsAreBehind, CallsKnowTheirRow
  <2>10. PostingEndsTheCall'
    BY <1>0, <1>8, EffectsAreOfCalls
    DEF ReportRejected, CallFacts, PostingEndsTheCall
  <2> QED
    BY <2>1, <2>2, <2>3, <2>4, <2>5, <2>6, <2>7, <2>8, <2>9, <2>10 DEF Inductive
<1>9. ASSUME NEW e \in Calls, MarkUnknown(e) PROVE Inductive'
  <2>1. AtMostOnePosting'
    BY <1>0, <1>9 DEF MarkUnknown, DatabaseFacts, AtMostOnePosting
  <2>2. LedgerMatchesJournal'
    BY <1>0, <1>9 DEF MarkUnknown, DatabaseFacts, LedgerMatchesJournal, SameRequest
  <2>3. OneUnresolvedPerChannel'
    BY <1>0, <1>9 DEF MarkUnknown, DatabaseFacts, OneUnresolvedPerChannel
  <2>4. UnresolvedIsReconcilable'
    BY <1>0, <1>9
    DEF MarkUnknown, DatabaseFacts, UnresolvedIsReconcilable, Reconcilable
  <2>5. RowsAreWhole'
    BY <1>0, <1>9 DEF MarkUnknown, DatabaseFacts, RowsAreWhole
  <2>6. FencedCallNeverPosts'
    BY <1>0, <1>9 DEF MarkUnknown, CallFacts, FencedCallNeverPosts
  <2>7. AnswersAreTrue'
    BY <1>0, <1>9, EffectsAreOfCalls
    DEF MarkUnknown, CallFacts, AnswersAreTrue, PostingEndsTheCall, SameRequest
  <2>8. CallsKnowTheirRow'
    BY <1>0, <1>9 DEF MarkUnknown, CallFacts, CallsKnowTheirRow, SameRequest
  <2>9. FencedCallsAreBehind'
    BY <1>0, <1>9
    DEF MarkUnknown, CallFacts, FencedCallsAreBehind, CallsKnowTheirRow
  <2>10. PostingEndsTheCall'
    BY <1>0, <1>9, EffectsAreOfCalls DEF MarkUnknown, CallFacts, PostingEndsTheCall
  <2> QED
    BY <2>1, <2>2, <2>3, <2>4, <2>5, <2>6, <2>7, <2>8, <2>9, <2>10 DEF Inductive
<1>10. ASSUME NEW e \in Calls, Freeze(e) PROVE Inductive'
  <2>1. DatabaseFacts'
    BY <1>0, <1>10, QuietDatabase DEF Freeze
  <2>2. CallFacts'
    BY <1>0, <1>10, EffectsAreOfCalls
    DEF Freeze, CallFacts, FencedCallNeverPosts, AnswersAreTrue, CallsKnowTheirRow,
        FencedCallsAreBehind, PostingEndsTheCall, SameRequest
  <2> QED BY <2>1, <2>2 DEF Inductive, DatabaseFacts, CallFacts
<1>11. ASSUME NEW e \in Calls, DatabaseFails(e) PROVE Inductive'
  <2>1. DatabaseFacts'
    BY <1>0, <1>11, QuietDatabase DEF DatabaseFails
  <2>2. CallFacts'
    <3>1. /\ UNCHANGED <<status, generation, intent, ledger, epoch, callVars>>
          /\ \A f \in Calls : f # e => pc'[f] = pc[f] /\ answer'[f] = answer[f]
          /\ pc[e] \in {"ready", "keyed", "prepared", "rejected", "raised", "freezing"}
          /\ pc'[e] \in {"raised", "freezing", "done"}
          /\ answer'[e] \in {answer[e], "RESULT_UNKNOWN"}
      BY <1>11 DEF DatabaseFails
    <3>2. FencedCallNeverPosts'
      BY <1>0, <3>1 DEF CallFacts, FencedCallNeverPosts
    <3>3. AnswersAreTrue'
      BY <1>0, <3>1 DEF CallFacts, AnswersAreTrue, SameRequest
    <3>4. CallsKnowTheirRow' /\ FencedCallsAreBehind'
      BY <1>0, <3>1 DEF CallFacts, CallsKnowTheirRow, FencedCallsAreBehind, SameRequest
    <3>5. PostingEndsTheCall'
      <4>1. \A k \in Key : \A x \in ledger[k] : pc'[x.call] \in {"raised", "freezing", "done"}
        BY <1>0, <3>1, EffectsAreOfCalls DEF CallFacts, PostingEndsTheCall
      <4>2. \A f \in Calls : answer'[f] \in {"OK", "REJECTED"} => pc'[f] = "done"
        BY <1>0, <3>1 DEF CallFacts, PostingEndsTheCall
      <4> QED BY <3>1, <4>1, <4>2 DEF PostingEndsTheCall
    <3> QED BY <3>2, <3>3, <3>4, <3>5 DEF CallFacts
  <2> QED BY <2>1, <2>2 DEF Inductive, DatabaseFacts, CallFacts
<1>12. ASSUME NEW e \in Calls, RevokeClaim(e) PROVE Inductive'
  <2>1. DatabaseFacts'
    BY <1>0, <1>12, QuietDatabase DEF RevokeClaim
  <2>2. CallFacts'
    BY <1>0, <1>12, EffectsAreOfCalls
    DEF RevokeClaim, CallFacts, FencedCallNeverPosts, AnswersAreTrue, CallsKnowTheirRow,
        FencedCallsAreBehind, PostingEndsTheCall, SameRequest
  <2> QED BY <2>1, <2>2 DEF Inductive, DatabaseFacts, CallFacts
<1>13. ASSUME NEW c \in Cases, Recover(c) PROVE Inductive'
  <2>1. AtMostOnePosting'
    BY <1>0, <1>13 DEF Recover, DatabaseFacts, AtMostOnePosting
  <2>2. LedgerMatchesJournal'
    BY <1>0, <1>13
    DEF Recover, DatabaseFacts, LedgerMatchesJournal, Reconcilable, SameRequest
  <2>3. OneUnresolvedPerChannel'
    BY <1>0, <1>13 DEF Recover, DatabaseFacts, OneUnresolvedPerChannel, Reconcilable
  <2>4. UnresolvedIsReconcilable'
    BY <1>0, <1>13
    DEF Recover, DatabaseFacts, UnresolvedIsReconcilable, Reconcilable
  <2>5. RowsAreWhole'
    BY <1>0, <1>13 DEF Recover, DatabaseFacts, RowsAreWhole, Reconcilable
  <2>6. FencedCallNeverPosts'
    BY <1>0, <1>13, EffectsAreOfCalls
    DEF Recover, CallFacts, FencedCallNeverPosts, PostingEndsTheCall
  <2>7. AnswersAreTrue'
    BY <1>0, <1>13 DEF Recover, CallFacts, AnswersAreTrue, SameRequest
  <2>8. CallsKnowTheirRow'
    BY <1>0, <1>13
    DEF Recover, CallFacts, CallsKnowTheirRow, SameRequest, Reconcilable
  <2>9. FencedCallsAreBehind'
    BY <1>0, <1>13 DEF Recover, CallFacts, FencedCallsAreBehind, CallsKnowTheirRow
  <2>10. PostingEndsTheCall'
    BY <1>0, <1>13 DEF Recover, CallFacts, PostingEndsTheCall
  <2> QED
    BY <2>1, <2>2, <2>3, <2>4, <2>5, <2>6, <2>7, <2>8, <2>9, <2>10 DEF Inductive
<1>14. ASSUME NEW c \in Cases, BackgroundFailure(c) PROVE Inductive'
  <2>1. DatabaseFacts'
    BY <1>0, <1>14, QuietDatabase DEF BackgroundFailure
  <2>2. CallFacts'
    BY <1>0, <1>14, EffectsAreOfCalls
    DEF BackgroundFailure, CallFacts, FencedCallNeverPosts, AnswersAreTrue, CallsKnowTheirRow,
        FencedCallsAreBehind, PostingEndsTheCall, SameRequest
  <2> QED BY <2>1, <2>2 DEF Inductive, DatabaseFacts, CallFacts
<1>15. ASSUME NEW c \in Cases, Reprepare(c) PROVE Inductive'
  <2>1. AtMostOnePosting'
    BY <1>0, <1>15 DEF Reprepare, DatabaseFacts, AtMostOnePosting
  <2>2. LedgerMatchesJournal'
    BY <1>0, <1>15 DEF Reprepare, DatabaseFacts, LedgerMatchesJournal, SameRequest
  <2>3. OneUnresolvedPerChannel'
    BY <1>0, <1>15 DEF Reprepare, DatabaseFacts, OneUnresolvedPerChannel
  <2>4. UnresolvedIsReconcilable'
    BY <1>0, <1>15
    DEF Reprepare, DatabaseFacts, UnresolvedIsReconcilable, Reconcilable, Quiescent
  <2>5. RowsAreWhole'
    BY <1>0, <1>15 DEF Reprepare, DatabaseFacts, RowsAreWhole
  <2>6. FencedCallNeverPosts'
    BY <1>0, <1>15 DEF Reprepare, CallFacts, FencedCallNeverPosts
  <2>7. AnswersAreTrue'
    BY <1>0, <1>15 DEF Reprepare, CallFacts, AnswersAreTrue, SameRequest
  <2>8. CallsKnowTheirRow'
    BY <1>0, <1>15
    DEF Reprepare, CallFacts, CallsKnowTheirRow, SameRequest, Quiescent
  <2>9. FencedCallsAreBehind'
    BY <1>0, <1>15 DEF Reprepare, CallFacts, FencedCallsAreBehind
  <2>10. PostingEndsTheCall'
    BY <1>0, <1>15 DEF Reprepare, CallFacts, PostingEndsTheCall
  <2> QED
    BY <2>1, <2>2, <2>3, <2>4, <2>5, <2>6, <2>7, <2>8, <2>9, <2>10 DEF Inductive
<1>16. ASSUME NEW p \in Processes, Crash(p) PROVE Inductive'
  <2>1. DatabaseFacts'
    BY <1>0, <1>16, QuietDatabase DEF Crash
  <2>2. CallFacts'
    BY <1>0, <1>16, EffectsAreOfCalls
    DEF Crash, Kill, CallFacts, FencedCallNeverPosts, AnswersAreTrue, CallsKnowTheirRow,
        FencedCallsAreBehind, PostingEndsTheCall, SameRequest
  <2> QED BY <2>1, <2>2 DEF Inductive, DatabaseFacts, CallFacts
<1>17. ASSUME NEW b \in BOOLEAN, SetRecoveryLock(b) PROVE Inductive'
  <2>1. DatabaseFacts'
    BY <1>0, <1>17, QuietDatabase DEF SetRecoveryLock
  <2>2. CallFacts'
    BY <1>0, <1>17, EffectsAreOfCalls
    DEF SetRecoveryLock, Kill, CallFacts, FencedCallNeverPosts, AnswersAreTrue, CallsKnowTheirRow,
        FencedCallsAreBehind, PostingEndsTheCall, SameRequest
  <2> QED BY <2>1, <2>2 DEF Inductive, DatabaseFacts, CallFacts
<1>18. CASE UNCHANGED vars
  <2>1. DatabaseFacts'
    BY <1>0, <1>18, QuietDatabase DEF vars
  <2>2. CallFacts'
    BY <1>0, <1>18
    DEF vars, CallFacts, FencedCallNeverPosts, AnswersAreTrue, CallsKnowTheirRow,
        FencedCallsAreBehind, PostingEndsTheCall, SameRequest
  <2> QED BY <2>1, <2>2 DEF Inductive, DatabaseFacts, CallFacts
<1> QED
  BY <1>1, <1>2, <1>3, <1>4, <1>5, <1>6, <1>7, <1>8, <1>9,
     <1>10, <1>11, <1>12, <1>13, <1>14, <1>15, <1>16, <1>17, <1>18 DEF Next, CallStep

LEMMA InductiveInit == Init => Inductive
BY
DEF Init, Inductive, AtMostOnePosting, LedgerMatchesJournal, OneUnresolvedPerChannel,
       UnresolvedIsReconcilable, FencedCallNeverPosts, AnswersAreTrue, RowsAreWhole,
       CallsKnowTheirRow, FencedCallsAreBehind, PostingEndsTheCall, Unresolved

THEOREM InductiveInvariant == Spec => []Inductive
<1>1. TypeOK /\ TypeOK' /\ Inductive /\ [Next]_vars => Inductive'
  BY InductiveStep
<1> QED
  BY <1>1, InductiveInit, TypeCorrect, PTL DEF Spec

-----------------------------------------------------------------------------
(* What follows from it *)

\* However often a call is repeated, interrupted or recovered, one operation id
\* has at most one effect in the ledger.
THEOREM NoDoublePosting == Spec => []AtMostOnePosting
<1>1. Inductive => AtMostOnePosting
  BY DEF Inductive
<1> QED BY <1>1, InductiveInvariant, PTL

\* The status read at reconciliation is the truth about the ledger, and the
\* effect found there is the one the intent announced.
THEOREM JournalIsTruthful == Spec => []LedgerMatchesJournal
<1>1. Inductive => LedgerMatchesJournal
  BY DEF Inductive
<1> QED BY <1>1, InductiveInvariant, PTL

\* Two operations are never open on one settlement channel, so an operator who
\* reconciles a channel has a single question to answer.
THEOREM ChannelIsSerial == Spec => []OneUnresolvedPerChannel
<1>1. Inductive => OneUnresolvedPerChannel
  BY DEF Inductive
<1> QED BY <1>1, InductiveInvariant, PTL

\* The epoch filter of reconcile never skips an operation that is still open.
THEOREM NothingLeftBehind == Spec => []UnresolvedIsReconcilable
<1>1. Inductive => UnresolvedIsReconcilable
  BY DEF Inductive
<1> QED BY <1>1, InductiveInvariant, PTL

\* Advancing the generation does invalidate a call paused between its intent
\* and its effect.
THEOREM FencingIsSound == Spec => []FencedCallNeverPosts
<1>1. Inductive => FencedCallNeverPosts
  BY DEF Inductive
<1> QED BY <1>1, InductiveInvariant, PTL

\* What call_tool tells the Worker about the effect is true.
THEOREM AnswersAreSound == Spec => []AnswersAreTrue
<1>1. Inductive => AnswersAreTrue
  BY DEF Inductive
<1> QED BY <1>1, InductiveInvariant, PTL

-----------------------------------------------------------------------------
(* Steps *)

\* A row that is no longer COMMITTED, an intent that was rewritten or a
\* generation that fell back would make every later decision on it wrong.
THEOREM CommitIsFinal == Spec => CommittedIsFinal
<1> DEFINE Final ==
      \A k \in Key :
         /\ status[k] = "COMMITTED" => status'[k] = "COMMITTED" /\ ledger'[k] = ledger[k]
         /\ status[k] # "ABSENT" => intent'[k] = intent[k]
         /\ generation'[k] >= generation[k]
<1>1. TypeOK /\ Inductive /\ [Next]_vars => [Final]_vars
  <2> SUFFICES ASSUME TypeOK, Inductive, [Next]_vars PROVE Final \/ UNCHANGED vars
    OBVIOUS
  <2> USE DEF TypeOK, Status, Unresolved, rows, dbVars, callVars
  <2>1. UNCHANGED <<status, generation, intent, ledger>> => Final
    OBVIOUS
  <2>2. ASSUME NEW e \in Calls, Prepare(e) PROVE Final
    BY <2>2 DEF Prepare, MayPrepare, Inductive, RowsAreWhole
  <2>3. ASSUME NEW e \in Calls, CommitEffect(e) PROVE Final
    BY <2>3 DEF CommitEffect, MayPost
  <2>4. ASSUME NEW e \in Calls, ReportRejected(e) PROVE Final
    BY <2>4 DEF ReportRejected
  <2>5. ASSUME NEW e \in Calls, MarkUnknown(e) PROVE Final
    BY <2>5 DEF MarkUnknown
  <2>6. ASSUME NEW c \in Cases, Recover(c) PROVE Final
    BY <2>6 DEF Recover, Reconcilable
  <2> HIDE DEF Final, TypeOK, Status, Unresolved
  <2>7. ASSUME NEW e \in Calls, CallStep(e) PROVE Final
    BY <2>1, <2>2, <2>3, <2>4, <2>5, <2>7
    DEF CallStep, Enter, PrepareAnswers, EffectRefused, StoredResult, HandlerRejects, Freeze
  <2>8. ASSUME NEW e \in Calls, DatabaseFails(e) \/ RevokeClaim(e) PROVE Final
    BY <2>1, <2>8 DEF DatabaseFails, RevokeClaim
  <2>9. ASSUME NEW c \in Cases, BackgroundFailure(c) \/ Reprepare(c) PROVE Final
    BY <2>1, <2>9 DEF BackgroundFailure, Reprepare
  <2>10. ASSUME NEW p \in Processes, Crash(p) PROVE Final
    BY <2>1, <2>10 DEF Crash
  <2>11. ASSUME NEW b \in BOOLEAN, SetRecoveryLock(b) PROVE Final
    BY <2>1, <2>11 DEF SetRecoveryLock
  <2> QED
    BY <2>6, <2>7, <2>8, <2>9, <2>10, <2>11 DEF Next
<1> QED
  BY <1>1, TypeCorrect, InductiveInvariant, PTL DEF Spec, CommittedIsFinal

-----------------------------------------------------------------------------
(* Refinement *)

LEMMA QuietPromise ==
    ASSUME UNCHANGED <<status, intent, ledger>>
    PROVE  UNCHANGED Promise!vars
BY DEF Promise!vars

\* Writing the intent opens the operation, the commit posts it, a definite
\* rejection or a reconciliation abandons what was open.
LEMMA StepsRefine ==
    ASSUME TypeOK, Inductive, [Next]_vars
    PROVE  [Promise!Next]_(Promise!vars)
<1> USE DEF TypeOK, Status, Unresolved, rows, dbVars, callVars
<1>1. ASSUME NEW e \in Calls, Prepare(e),
             NEW o \in Key, o = key[e], NEW r \in Requests, r = req[e]
      PROVE  Promise!Open(o, r)
  <2>1. /\ key[e] \in Key /\ req[e] \in Requests
        /\ status[key[e]] \in {"ABSENT", "NOT_COMMITTED"}
        /\ status[key[e]] # "ABSENT" => intent[key[e]] = req[e]
    BY <1>1, RequestIsIntent
    DEF Prepare, MayPrepare, Inductive, CallsKnowTheirRow, RowsAreWhole
  <2>2. \A j \in Key :
          /\ status'[j] = IF j = key[e] THEN "PREPARED" ELSE status[j]
          /\ intent'[j] = IF j = key[e] THEN req[e] ELSE intent[j]
    <3>1. intent'[key[e]] = req[e]
      BY <1>1, <2>1 DEF Prepare
    <3> QED BY <1>1, <2>1, <3>1 DEF Prepare
  <2>3. ledger' = ledger /\ ledger[key[e]] = {}
    BY <1>1, <2>1 DEF Prepare, Inductive, LedgerMatchesJournal
  <2>4. \A j \in Key : status[j] \in Unresolved => intent[j].channel # req[e].channel
    BY <1>1 DEF Prepare, MayPrepare, ChannelBlocked
  <2>5. Promise!IntentOf(key[e]) \subseteq {req[e]}
    BY <2>1 DEF Promise!IntentOf
  <2>6. ASSUME NEW j \in Key, status[j] \in Unresolved, NEW q \in Promise!IntentOf(j)
        PROVE  [x \in Requests |-> x.channel][q] # [x \in Requests |-> x.channel][req[e]]
    <3>1. q = intent[j] /\ q \in Requests
      BY <2>6 DEF Promise!IntentOf
    <3> QED BY <2>1, <2>4, <2>6, <3>1
  <2>7. {<<k, intent'[k]>> : k \in {j \in Key : status'[j] # "ABSENT"}} =
          {<<k, intent[k]>> : k \in {j \in Key : status[j] # "ABSENT"}} \cup {<<key[e], req[e]>>}
    BY <2>1, <2>2
  <2>8. {k \in Key : status'[k] \in Unresolved} =
          {k \in Key : status[k] \in Unresolved} \cup {key[e]}
    BY <2>1, <2>2
  <2> QED
    BY <1>1, <2>1, <2>3, <2>5, <2>6, <2>7, <2>8 DEF Promise!Open
<1>2. ASSUME NEW e \in Calls, CommitEffect(e), NEW o \in Key, o = key[e]
      PROVE  Promise!Post(o)
  <2>1. key[e] \in Key /\ status[key[e]] = "PREPARED"
    BY <1>2 DEF CommitEffect, MayPost
  <2>2. /\ \A j \in Key : status'[j] = IF j = key[e] THEN "COMMITTED" ELSE status[j]
        /\ \A j \in Key : ledger'[j] # {} <=> j = key[e] \/ ledger[j] # {}
        /\ intent' = intent
    BY <1>2, <2>1 DEF CommitEffect
  <2> QED
    BY <1>2, <2>1, <2>2 DEF Promise!Post
<1>3. ASSUME NEW S \in SUBSET Key, S # {}, \A k \in S : status[k] \in Unresolved,
             \A k \in Key : status'[k] = IF k \in S THEN "NOT_COMMITTED" ELSE status[k],
             UNCHANGED <<intent, ledger>>
      PROVE  Promise!Next
  <2>1. {k \in Key : status'[k] \in Unresolved} = {k \in Key : status[k] \in Unresolved} \ S
    BY <1>3
  <2>2. {j \in Key : status'[j] # "ABSENT"} = {j \in Key : status[j] # "ABSENT"}
    BY <1>3
  <2>3. Promise!Abandon(S)
    BY <1>3, <2>1, <2>2 DEF Promise!Abandon
  <2> QED
    BY <1>3, <2>3 DEF Promise!Next
<1>4. ASSUME NEW e \in Calls, ReportRejected(e) PROVE [Promise!Next]_(Promise!vars)
  <2>1. CASE status[key[e]] = "PREPARED"
    <3>1. {key[e]} \in SUBSET Key /\ {key[e]} # {}
      OBVIOUS
    <3>2. \A k \in {key[e]} : status[k] \in Unresolved
      BY <2>1
    <3>3. /\ \A k \in Key : status'[k] = IF k \in {key[e]} THEN "NOT_COMMITTED" ELSE status[k]
          /\ UNCHANGED <<intent, ledger>>
      BY <1>4, <2>1 DEF ReportRejected
    <3> QED BY <1>3, <3>1, <3>2, <3>3
  <2>2. CASE status[key[e]] # "PREPARED"
    BY <1>4, <2>2, QuietPromise DEF ReportRejected
  <2> QED BY <2>1, <2>2
<1>5. ASSUME NEW e \in Calls, MarkUnknown(e) PROVE UNCHANGED Promise!vars
  <2>1. {k \in Key : status'[k] \in Unresolved} = {k \in Key : status[k] \in Unresolved}
    BY <1>5 DEF MarkUnknown
  <2>2. {k \in Key : status'[k] # "ABSENT"} = {k \in Key : status[k] # "ABSENT"}
    BY <1>5 DEF MarkUnknown
  <2> QED BY <1>5, <2>1, <2>2 DEF MarkUnknown, Promise!vars
<1>6. ASSUME NEW c \in Cases, Recover(c) PROVE [Promise!Next]_(Promise!vars)
  <2>1. CASE Reconcilable(c) = {}
    <3>1. status' = status
      BY <1>6, <2>1 DEF Recover
    <3> QED BY <1>6, <3>1, QuietPromise DEF Recover
  <2>2. CASE Reconcilable(c) # {}
    <3>1. /\ Reconcilable(c) \in SUBSET Key
          /\ \A k \in Reconcilable(c) : status[k] \in Unresolved
      BY DEF Reconcilable
    <3>2. \A k \in Key : status'[k] = IF k \in Reconcilable(c) THEN "NOT_COMMITTED" ELSE status[k]
      BY <1>6 DEF Recover
    <3> QED BY <1>3, <1>6, <2>2, <3>1, <3>2 DEF Recover
  <2> QED BY <2>1, <2>2
<1> HIDE DEF TypeOK, Status, Unresolved
<1>7. ASSUME NEW e \in Calls, Prepare(e) \/ CommitEffect(e) PROVE Promise!Next
  <2>1. PICK o \in Key, r \in Requests : o = key[e] /\ r = req[e]
    BY DEF TypeOK
  <2>2. CASE Prepare(e)
    <3>1. Promise!Open(o, r)
      BY <1>1, <2>1, <2>2
    <3> QED BY <3>1 DEF Promise!Next
  <2>3. CASE CommitEffect(e)
    <3>1. Promise!Post(o)
      BY <1>2, <2>1, <2>3
    <3> QED BY <3>1 DEF Promise!Next
  <2> QED BY <1>7, <2>2, <2>3
<1>8. ASSUME NEW e \in Calls, CallStep(e) PROVE [Promise!Next]_(Promise!vars)
  BY <1>4, <1>5, <1>7, <1>8, QuietPromise
  DEF CallStep, Enter, PrepareAnswers, EffectRefused, StoredResult, HandlerRejects, Freeze
<1>9. ASSUME NEW e \in Calls, DatabaseFails(e) \/ RevokeClaim(e)
      PROVE  [Promise!Next]_(Promise!vars)
  BY <1>9, QuietPromise DEF DatabaseFails, RevokeClaim
<1>10. ASSUME NEW c \in Cases, BackgroundFailure(c) \/ Reprepare(c)
       PROVE  [Promise!Next]_(Promise!vars)
  BY <1>10, QuietPromise DEF BackgroundFailure, Reprepare
<1>11. ASSUME NEW p \in Processes, Crash(p) PROVE [Promise!Next]_(Promise!vars)
  BY <1>11, QuietPromise DEF Crash
<1>12. ASSUME NEW b \in BOOLEAN, SetRecoveryLock(b) PROVE [Promise!Next]_(Promise!vars)
  BY <1>12, QuietPromise DEF SetRecoveryLock
<1>13. CASE UNCHANGED vars
  BY <1>13, QuietPromise DEF vars
<1> QED
  BY <1>6, <1>8, <1>9, <1>10, <1>11, <1>12, <1>13 DEF Next

\* The journal, with its retries, fences, holds and recoveries, behaves as the
\* ledger SettlementLedger describes.
THEOREM JournalImplementsPromise == Spec => ImplementsPromise
<1>1. Init => Promise!Init
  BY DEF Init, Promise!Init, Unresolved
<1>2. TypeOK /\ Inductive /\ [Next]_vars => [Promise!Next]_(Promise!vars)
  BY StepsRefine
<1> QED
  BY <1>1, <1>2, TypeCorrect, InductiveInvariant, PTL
  DEF Spec, ImplementsPromise, Promise!Spec

-----------------------------------------------------------------------------
(***************************************************************************)
(* The audit chain of a case (AuditChain).  When every transaction that    *)
(* appends to it goes through the money journal, whose lock it takes       *)
(* before it draws a seq, the chain has no broken link.  The run of        *)
(* AuditChain shows that it has one when some do not.                      *)
(***************************************************************************)
CONSTANTS Writers, Guarded, MaxSeq, Nobody

VARIABLES next, chain, journalLock, chainLock, step, seq, own

Chain == INSTANCE AuditChain

ChainTypeOK ==
    /\ next \in Nat \ {0}
    /\ step \in [Writers -> {"idle", "open", "drawn"}]
    /\ seq \in [Writers -> Nat]
    /\ DOMAIN own = Writers

\* A writer that is not idle holds the journal's lock: there is one at most.
OneWriter ==
    /\ \A w \in Writers : step[w] # "idle" => journalLock = w
    /\ \A w \in Writers : step[w] = "idle" => DOMAIN own[w] = {}

\* Rows are drawn in the order of the chain: those of a transaction come after
\* every committed one, and the one drawn last after them all.
RowsAreDrawn ==
    /\ \A n \in DOMAIN chain : n \in Nat /\ Chain!Genesis < n /\ n < next
    /\ \A w \in Writers :
          /\ \A n \in DOMAIN own[w] :
                /\ n \in Nat /\ Chain!Genesis < n /\ n < next
                /\ \A m \in DOMAIN chain : m < n
          /\ step[w] = "drawn" =>
                /\ Chain!Genesis < seq[w] /\ seq[w] < next
                /\ \A m \in DOMAIN chain \cup DOMAIN own[w] : m < seq[w]

\* A row not yet committed names the row before it as well.
OwnRowsLink ==
    \A w \in Writers : \A n \in DOMAIN own[w] :
        Chain!IsLast(own[w][n], {m \in DOMAIN chain \cup DOMAIN own[w] : m < n})

ChainInductive == ChainTypeOK /\ OneWriter /\ RowsAreDrawn /\ OwnRowsLink /\ Chain!ChainVerifies

-----------------------------------------------------------------------------
LEMMA InitIsLinked == Chain!Init => ChainInductive
  BY DEF Chain!Init, Chain!NoRows, Chain!Genesis, ChainInductive, ChainTypeOK, OneWriter, RowsAreDrawn,
         OwnRowsLink, Chain!ChainVerifies, Chain!LinkHolds, Chain!Before

LEMMA BeginKeepsLinks ==
    ASSUME Guarded = Writers, Nobody \notin Writers, ChainInductive,
           NEW w \in Writers, Chain!Begin(w)
    PROVE  ChainInductive'
  <1> USE DEF ChainInductive
  <1>1. ChainTypeOK'
    BY DEF ChainTypeOK, Chain!Begin
  <1>2. OneWriter'
    BY DEF ChainTypeOK, OneWriter, Chain!Begin
  <1>3. RowsAreDrawn'
    BY DEF ChainTypeOK, RowsAreDrawn, Chain!Begin
  <1>4. OwnRowsLink' /\ Chain!ChainVerifies'
    BY DEF OwnRowsLink, Chain!ChainVerifies, Chain!LinkHolds, Chain!Before, Chain!Begin, Chain!IsLast
  <1> QED BY <1>1, <1>2, <1>3, <1>4

\* The seq drawn exceeds every row: nobody else has one that is not committed.
LEMMA DrawKeepsLinks ==
    ASSUME ChainInductive, NEW w \in Writers, Chain!Draw(w)
    PROVE  ChainInductive'
  <1> USE DEF ChainInductive
  <1>1. ChainTypeOK'
    BY DEF ChainTypeOK, Chain!Draw
  <1>2. OneWriter'
    BY DEF ChainTypeOK, OneWriter, Chain!Draw
  <1>3. RowsAreDrawn'
    <2>1. /\ next' = next + 1 /\ next \in Nat
          /\ UNCHANGED <<chain, own>>
          /\ step[w] = "open"
      BY DEF Chain!Draw, ChainTypeOK
    <2>2. \A n \in DOMAIN chain : n \in Nat /\ Chain!Genesis < n /\ n < next'
      BY <2>1 DEF RowsAreDrawn, Chain!Genesis
    <2> SUFFICES ASSUME NEW v \in Writers
                 PROVE  /\ \A n \in DOMAIN own[v] :
                              /\ n \in Nat /\ Chain!Genesis < n /\ n < next'
                              /\ \A m \in DOMAIN chain : m < n
                        /\ step'[v] = "drawn" =>
                              /\ Chain!Genesis < seq'[v] /\ seq'[v] < next'
                              /\ \A m \in DOMAIN chain \cup DOMAIN own[v] : m < seq'[v]
      BY <2>1, <2>2 DEF RowsAreDrawn
    <2>3. \A n \in DOMAIN own[v] :
             /\ n \in Nat /\ Chain!Genesis < n /\ n < next'
             /\ \A m \in DOMAIN chain : m < n
      BY <2>1 DEF RowsAreDrawn, Chain!Genesis
    <2>4. CASE v = w
      <3>1. seq'[w] = next /\ next > 0
        BY DEF Chain!Draw, ChainTypeOK, ChainInductive, RowsAreDrawn
      <3> QED BY <3>1, <2>1, <2>3, <2>4 DEF RowsAreDrawn, Chain!Genesis
    <2>5. CASE v # w
      <3>1. step'[v] # "drawn"
        BY <2>5, <2>1 DEF Chain!Draw, OneWriter, ChainTypeOK
      <3> QED BY <3>1, <2>3
    <2> QED BY <2>4, <2>5
  <1>4. OwnRowsLink' /\ Chain!ChainVerifies'
    BY DEF OwnRowsLink, Chain!ChainVerifies, Chain!LinkHolds, Chain!Before, Chain!Draw, Chain!IsLast
  <1> QED BY <1>1, <1>2, <1>3, <1>4

LEMMA LinkKeepsLinks ==
    ASSUME ChainInductive, NEW w \in Writers, Chain!Link(w)
    PROVE  ChainInductive'
  <1> USE DEF ChainInductive
  <1> DEFINE Seen == DOMAIN chain \cup DOMAIN own[w]
  <1>1. PICK n \in Seen \cup {Chain!Genesis} :
           /\ Chain!IsLast(n, Seen)
           /\ own' = [own EXCEPT ![w] = Chain!Both(@, [m \in {seq[w]} |-> n])]
    BY DEF Chain!Link
  <1>2. /\ step[w] = "drawn"
        /\ step' = [step EXCEPT ![w] = "open"]
        /\ UNCHANGED <<next, chain, journalLock, seq>>
    BY DEF Chain!Link
  <1>3. ChainTypeOK'
    BY <1>1, <1>2 DEF ChainTypeOK
  <1>4. seq[w] \notin Seen
    BY <1>2 DEF RowsAreDrawn, ChainTypeOK
  <1>5. /\ DOMAIN own'[w] = DOMAIN own[w] \cup {seq[w]}
        /\ own'[w][seq[w]] = n
        /\ \A m \in DOMAIN own[w] : own'[w][m] = own[w][m]
        /\ \A v \in Writers \ {w} : own'[v] = own[v]
    BY <1>1, <1>4 DEF ChainTypeOK, Chain!Both
  <1>6. OneWriter'
    BY <1>2, <1>5 DEF ChainTypeOK, OneWriter
  <1>7. RowsAreDrawn'
    BY <1>2, <1>5 DEF ChainTypeOK, OneWriter, RowsAreDrawn
  <1>8. OwnRowsLink'
    <2> SUFFICES ASSUME NEW v \in Writers, NEW k \in DOMAIN own'[v]
                 PROVE  Chain!IsLast(own'[v][k], {m \in DOMAIN chain' \cup DOMAIN own'[v] : m < k})
      BY DEF OwnRowsLink
    <2>1. CASE v # w
      BY <2>1, <1>2, <1>5 DEF OwnRowsLink
    <2>2. CASE v = w /\ k = seq[w]
      <3>1. {m \in DOMAIN chain' \cup DOMAIN own'[w] : m < seq[w]} = Seen
        BY <1>2, <1>5 DEF RowsAreDrawn, ChainTypeOK
      <3> QED BY <3>1, <2>2, <1>1, <1>5
    <2>3. CASE v = w /\ k # seq[w]
      <3>1. k \in DOMAIN own[w]
        BY <2>3, <1>5
      <3>2. ~(seq[w] < k)
        BY <3>1, <1>2 DEF RowsAreDrawn, ChainTypeOK
      <3>3. {m \in DOMAIN chain' \cup DOMAIN own'[w] : m < k} = {m \in Seen : m < k}
        BY <3>2, <1>2, <1>5
      <3> QED BY <3>1, <3>3, <2>3, <1>5 DEF OwnRowsLink
    <2> QED BY <2>1, <2>2, <2>3
  <1>9. Chain!ChainVerifies'
    BY <1>2 DEF Chain!ChainVerifies, Chain!LinkHolds, Chain!Before, Chain!IsLast
  <1> QED BY <1>3, <1>6, <1>7, <1>8, <1>9

\* What the writer that ends leaves is what an idle writer has.
LEMMA EndLetsGo ==
    ASSUME ChainInductive, NEW w \in Writers, Chain!End(w)
    PROVE  /\ ChainTypeOK' /\ OneWriter'
           /\ next' = next /\ seq' = seq
           /\ step'[w] = "idle"
           /\ own'[w] = Chain!NoRows
           /\ \A v \in Writers \ {w} : own'[v] = own[v] /\ step'[v] = step[v]
  <1>1. ChainTypeOK'
    BY DEF ChainInductive, ChainTypeOK, Chain!End
  <1>2. OneWriter'
    <2> SUFFICES ASSUME NEW v \in Writers
                 PROVE  /\ step'[v] # "idle" => journalLock' = v
                        /\ step'[v] = "idle" => DOMAIN own'[v] = {}
      BY DEF OneWriter
    <2>1. CASE v = w
      BY <2>1 DEF ChainInductive, ChainTypeOK, Chain!End, Chain!NoRows
    <2>2. CASE v # w
      BY <2>2 DEF ChainInductive, ChainTypeOK, OneWriter, Chain!End
    <2> QED BY <2>1, <2>2
  <1> QED BY <1>1, <1>2 DEF ChainInductive, ChainTypeOK, Chain!End

LEMMA CommitKeepsLinks ==
    ASSUME ChainInductive, NEW w \in Writers, Chain!Commit(w)
    PROVE  ChainInductive'
  <1> USE DEF ChainInductive
  <1>1. Chain!End(w) /\ step[w] = "open" /\ chain' = Chain!Both(chain, own[w])
    BY DEF Chain!Commit
  <1>2. /\ ChainTypeOK' /\ OneWriter'
        /\ next' = next /\ seq' = seq
        /\ step'[w] = "idle"
        /\ own'[w] = Chain!NoRows
        /\ \A v \in Writers \ {w} : own'[v] = own[v] /\ step'[v] = step[v]
    BY <1>1, EndLetsGo
  <1>3. \A v \in Writers \ {w} : step[v] = "idle" /\ DOMAIN own[v] = {}
    BY <1>1 DEF OneWriter, ChainTypeOK
  <1>4. \A v \in Writers : DOMAIN own'[v] = {} /\ step'[v] = "idle"
    BY <1>2, <1>3 DEF Chain!NoRows
  <1>5. /\ DOMAIN chain' = DOMAIN chain \cup DOMAIN own[w]
        /\ \A n \in DOMAIN chain : chain'[n] = chain[n]
        /\ \A n \in DOMAIN own[w] : n \notin DOMAIN chain => chain'[n] = own[w][n]
    BY <1>1 DEF Chain!Both
  <1>6. RowsAreDrawn'
    BY <1>2, <1>4, <1>5 DEF RowsAreDrawn
  <1>7. OwnRowsLink'
    BY <1>4 DEF OwnRowsLink
  <1>8. Chain!ChainVerifies'
    <2> SUFFICES ASSUME NEW n \in DOMAIN chain'
                 PROVE  Chain!IsLast(chain'[n], {m \in DOMAIN chain' : m < n})
      BY DEF Chain!ChainVerifies, Chain!LinkHolds, Chain!Before
    <2>1. CASE n \in DOMAIN chain
      <3>1. {m \in DOMAIN chain' : m < n} = {m \in DOMAIN chain : m < n}
        BY <2>1, <1>5 DEF RowsAreDrawn, ChainTypeOK
      <3> QED BY <2>1, <3>1, <1>5 DEF Chain!ChainVerifies, Chain!LinkHolds, Chain!Before
    <2>2. CASE n \in DOMAIN own[w]
      <3>1. n \notin DOMAIN chain
        BY <2>2 DEF RowsAreDrawn
      <3> QED BY <2>2, <3>1, <1>5 DEF OwnRowsLink
    <2> QED BY <2>1, <2>2, <1>5
  <1> QED BY <1>2, <1>6, <1>7, <1>8

LEMMA RollbackKeepsLinks ==
    ASSUME ChainInductive, NEW w \in Writers, Chain!Rollback(w)
    PROVE  ChainInductive'
  <1> USE DEF ChainInductive
  <1>1. Chain!End(w) /\ UNCHANGED chain
    BY DEF Chain!Rollback
  <1>2. /\ ChainTypeOK' /\ OneWriter'
        /\ next' = next /\ seq' = seq
        /\ step'[w] = "idle"
        /\ own'[w] = Chain!NoRows
        /\ \A v \in Writers \ {w} : own'[v] = own[v] /\ step'[v] = step[v]
    BY <1>1, EndLetsGo
  <1>3. RowsAreDrawn'
    BY <1>1, <1>2 DEF RowsAreDrawn, Chain!NoRows
  <1>4. OwnRowsLink'
    BY <1>1, <1>2 DEF OwnRowsLink, Chain!NoRows
  <1>5. Chain!ChainVerifies'
    BY <1>1 DEF Chain!ChainVerifies, Chain!LinkHolds, Chain!Before, Chain!IsLast
  <1> QED BY <1>2, <1>3, <1>4, <1>5

\* The audit chain of a case, appended to by the transactions of the money
\* journal alone, never shows a broken link to verify_audit_chain.
THEOREM GuardedChainVerifies ==
    ASSUME Guarded = Writers, Nobody \notin Writers
    PROVE  Chain!Spec => []Chain!ChainVerifies
  <1>1. Chain!Init => ChainInductive
    BY InitIsLinked
  <1>2. ChainInductive /\ [Chain!Next]_(Chain!vars) => ChainInductive'
    <2> SUFFICES ASSUME ChainInductive, [Chain!Next]_(Chain!vars)
                 PROVE  ChainInductive'
      OBVIOUS
    <2>1. CASE UNCHANGED Chain!vars
      BY <2>1 DEF Chain!vars, ChainInductive, ChainTypeOK, OneWriter, RowsAreDrawn, OwnRowsLink,
                  Chain!ChainVerifies, Chain!LinkHolds, Chain!Before, Chain!IsLast
    <2>2. ASSUME NEW w \in Writers,
                 Chain!Begin(w) \/ Chain!Draw(w) \/ Chain!Link(w) \/ Chain!Commit(w) \/ Chain!Rollback(w)
          PROVE  ChainInductive'
      BY <2>2, BeginKeepsLinks, DrawKeepsLinks, LinkKeepsLinks, CommitKeepsLinks,
         RollbackKeepsLinks
    <2> QED BY <2>1, <2>2 DEF Chain!Next
  <1>3. ChainInductive => Chain!ChainVerifies
    BY DEF ChainInductive
  <1> QED BY <1>1, <1>2, <1>3, PTL DEF Chain!Spec
=============================================================================
