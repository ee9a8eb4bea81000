-------------------------- MODULE SettlementProofs --------------------------
(***************************************************************************)
(* Proofs about Settlement, for every set of cases and components, every   *)
(* policy and every prior ledger.                                          *)
(*                                                                         *)
(* Types, phases, reversals, failures and limits are separate lemmas, each *)
(* with one step per action, over the inductive invariant of the module.   *)
(***************************************************************************)
EXTENDS Settlement, TLAPS

LEMMA MagnitudeIsNat ==
    ASSUME NEW x \in Int
    PROVE  Magnitude(x) \in Nat
BY DEF Magnitude

LEMMA ZeroIsLimit == Zero \in Limits /\ Zero \in Amounts /\ \A k \in Components : Zero[k] = 0
BY DEF Zero, Limits, Amounts

LEMMA SumsAreAmounts ==
    ASSUME NEW f \in Amounts, NEW g \in Amounts
    PROVE  Plus(f, g) \in Amounts /\ Minus(f, g) \in Amounts
BY DEF Plus, Minus, Amounts

LEMMA EffectIsAmount ==
    ASSUME TypeOK, NEW c \in Cases
    PROVE  Effect(c) \in Amounts
BY ZeroIsLimit DEF Effect, TypeOK

LEMMA DifferenceIsAmount ==
    ASSUME TypeOK
    PROVE  Difference \in Amounts
BY AmountAssumption DEF Difference, TypeOK, Amounts

LEMMA WrittenAreAmounts ==
    ASSUME TypeOK, NEW c \in Cases, NEW amounts \in Written(c)
    PROVE  amounts \in Amounts
BY AmountAssumption DEF Written, Pending, TypeOK, Amounts

LEMMA DraftsAreLimits ==
    ASSUME TypeOK, NEW c \in Cases
    PROVE  /\ [k \in Components |-> Magnitude(delta[c][k])] \in Limits
           /\ Consumed(c) \in Limits
<1>1. \A k \in Components : Magnitude(delta[c][k]) \in Nat
  BY MagnitudeIsNat DEF TypeOK, Amounts
<1> QED BY <1>1, ZeroIsLimit DEF Limits, Consumed

LEMMA ChargeIsLimit ==
    ASSUME TypeOK, NEW c \in Cases, Covers(capability[c], c)
    PROVE  [k \in Components |-> capability[c][k] - Magnitude(delta[c][k])] \in Limits
<1>1. \A k \in Components : Magnitude(delta[c][k]) \in Nat
  BY MagnitudeIsNat DEF TypeOK, Amounts
<1>2. \A k \in Components : capability[c][k] \in Nat
  BY DEF TypeOK, Limits
<1> QED BY <1>1, <1>2 DEF Limits, Covers

\* Only the token in the approval row is charged.
LEMMA OnlyRowIsCharged ==
    ASSUME NEW c \in Cases, Submit(c)
    PROVE  /\ posting[c] /\ Covers(capability[c], c)
           /\ capability' = [capability EXCEPT ![c] =
                               [k \in Components |-> @[k] - Magnitude(delta[c][k])]]
BY DEF Submit, Admitted

LEMMA RenewalIsLimit ==
    ASSUME TypeOK, NEW c \in Cases
    PROVE  Renewed(c) \in Limits
BY DraftsAreLimits DEF Renewed, TypeOK, Limits

-----------------------------------------------------------------------------
\* A run that stops leaves its call under way or has seen it refused.
CallStops(c) == posting' = posting \/ posting' = [posting EXCEPT ![c] = FALSE]

LEMMA TypeStep ==
    ASSUME TypeOK, [Next]_vars
    PROVE  TypeOK'
<1> USE DEF rights, calls, effects
<1>1. ASSUME NEW c \in Cases, Investigate(c) PROVE TypeOK'
  BY <1>1, DifferenceIsAmount DEF Investigate, TypeOK, Status
<1>2. ASSUME NEW c \in Cases, CloseWithoutAction(c) PROVE TypeOK'
  BY <1>2 DEF CloseWithoutAction, TypeOK, Status
<1>3. ASSUME NEW c \in Cases, DraftOnly(c) PROVE TypeOK'
  BY <1>3 DEF DraftOnly, TypeOK, Status
<1>4. ASSUME NEW c \in Cases, AskApproval(c) PROVE TypeOK'
  BY <1>4, DraftsAreLimits DEF AskApproval, TypeOK, Status
<1>5. ASSUME NEW c \in Cases, Approve(c) PROVE TypeOK'
  BY <1>5 DEF Approve, TypeOK, Status
<1>6. ASSUME NEW c \in Cases, Reject(c) PROVE TypeOK'
  BY <1>6 DEF Reject, TypeOK, Status
<1>7. ASSUME NEW c \in Cases, StartExecution(c) PROVE TypeOK'
  BY <1>7 DEF StartExecution, TypeOK, Status
<1>8. ASSUME NEW c \in Cases, Submit(c) PROVE TypeOK'
  <2>1. PICK amounts \in Written(c) : /\ own' = [own EXCEPT ![c] = amounts]
                                      /\ ledger' = Plus(ledger, amounts)
    BY <1>8 DEF Submit
  <2>2. amounts \in Amounts /\ ledger' \in Amounts
    BY <2>1, WrittenAreAmounts, SumsAreAmounts DEF TypeOK
  <2>3. capability' \in [Cases -> Limits]
    BY <1>8, ChargeIsLimit, OnlyRowIsCharged DEF TypeOK
  <2> QED BY <1>8, <2>1, <2>2, <2>3 DEF Submit, TypeOK, NoEntries
<1>9. ASSUME NEW c \in Cases, HandOver(c) PROVE TypeOK'
  BY <1>9 DEF HandOver, Posted, TypeOK, Status
<1>10. ASSUME NEW c \in Cases, Verify(c) PROVE TypeOK'
  BY <1>10 DEF Verify, TypeOK, Status
<1>11. ASSUME NEW c \in Cases, Reverse(c) PROVE TypeOK'
  <2>1. ledger' \in Amounts
    BY <1>11, SumsAreAmounts DEF Reverse, TypeOK
  <2> QED BY <1>11, <2>1 DEF Reverse, TypeOK
<1>12. ASSUME NEW c \in Cases, ConfirmRollback(c) PROVE TypeOK'
  BY <1>12 DEF ConfirmRollback, TypeOK, Status
<1>13. ASSUME NEW c \in Cases, FailUnconfirmed(c) PROVE TypeOK'
  BY <1>13 DEF FailUnconfirmed, TypeOK, Status
<1>14. ASSUME NEW c \in Cases, StopRun(c), CallStops(c) PROVE TypeOK'
  BY <1>14 DEF StopRun, CallStops, TypeOK, Status
<1>15. ASSUME NEW c \in Cases, Expire(c) PROVE TypeOK'
  <2>1. capability \in [Cases -> Limits] /\ ticket \in [Cases -> BOOLEAN]
    BY DEF TypeOK
  <2>2. /\ capability' \in [Cases -> Limits]
        /\ ticket' \in [Cases -> BOOLEAN]
    BY <1>15, <2>1, ZeroIsLimit DEF Expire
  <2> QED BY <1>15, <2>2 DEF Expire, TypeOK, Status
<1>16. ASSUME NEW c \in Cases, ResumeExecution(c) PROVE TypeOK'
  <2>1. capability[c] \in Limits /\ Renewed(c) \in Limits
    BY RenewalIsLimit DEF TypeOK
  <2> QED BY <1>16, <2>1 DEF ResumeExecution, TypeOK, Status
<1>17. ASSUME NEW c \in Cases, ResumeRollback(c) PROVE TypeOK'
  BY <1>17 DEF ResumeRollback, TypeOK, Status
<1>18. ASSUME NEW c \in Cases, Reprepare(c) PROVE TypeOK'
  <2>1. ledger' \in Amounts
    BY <1>18, SumsAreAmounts, EffectIsAmount DEF Reprepare, TypeOK
  <2>2. recording' \in [Cases -> 0..MaxRecordings]
    BY <1>18, AmountAssumption DEF Reprepare, TypeOK
  <2>3. armed' \subseteq Cases
    BY <1>18, AmountAssumption DEF Reprepare, TypeOK
  <2> QED BY <1>18, <2>1, <2>2, <2>3, ZeroIsLimit DEF Reprepare, TypeOK, Status
<1>19. CASE UNCHANGED vars
  BY <1>19 DEF vars, TypeOK
<1>20. ASSUME NEW c \in Cases, Inject(c) PROVE TypeOK'
  BY <1>20 DEF Inject, TypeOK, Status
<1>21. ASSUME NEW c \in Cases, CallEnds(c) PROVE TypeOK'
  <2>1. posting' \in [Cases -> BOOLEAN]
    BY <1>21 DEF CallEnds, TypeOK
  <2>2. \E left \in SUBSET late[c] : late' = [late EXCEPT ![c] = left]
    BY <1>21 DEF CallEnds, TypeOK
  <2>3. late' \in [Cases -> SUBSET Limits]
    BY <2>2 DEF Inductive, TypeOK
  <2> QED BY <1>21, <2>1, <2>3 DEF CallEnds, TypeOK
<1> QED
  BY <1>1, <1>2, <1>3, <1>4, <1>5, <1>6, <1>7, <1>8, <1>9, <1>10, <1>11, <1>12, <1>13,
     <1>14, <1>15, <1>16, <1>17, <1>18, <1>19, <1>20, <1>21
     DEF Next, Runs, Resume, Refused, Interrupt, CallStops

-----------------------------------------------------------------------------
LEMMA PhaseStep ==
    ASSUME Inductive, [Next]_vars, NEW d \in Cases
    PROVE  PhaseIsSound(d)'
<1> USE DEF rights, calls, effects
<1>1. ASSUME NEW c \in Cases, Investigate(c) PROVE PhaseIsSound(d)'
  BY <1>1 DEF Investigate, Inductive, PhaseIsSound, TypeOK, Unapproved, UnderWay
<1>2. ASSUME NEW c \in Cases, CloseWithoutAction(c) PROVE PhaseIsSound(d)'
  BY <1>2 DEF CloseWithoutAction, Inductive, PhaseIsSound, TypeOK, Unapproved, UnderWay
<1>3. ASSUME NEW c \in Cases, DraftOnly(c) PROVE PhaseIsSound(d)'
  BY <1>3 DEF DraftOnly, Inductive, PhaseIsSound, TypeOK, Unapproved, UnderWay
<1>4. ASSUME NEW c \in Cases, AskApproval(c) PROVE PhaseIsSound(d)'
  BY <1>4 DEF AskApproval, Inductive, PhaseIsSound, TypeOK, Unapproved, UnderWay
<1>5. ASSUME NEW c \in Cases, Approve(c) PROVE PhaseIsSound(d)'
  BY <1>5 DEF Approve, Inductive, PhaseIsSound, TypeOK, Unapproved, UnderWay
<1>6. ASSUME NEW c \in Cases, Reject(c) PROVE PhaseIsSound(d)'
  BY <1>6 DEF Reject, Inductive, PhaseIsSound, TypeOK, Unapproved, UnderWay
<1>7. ASSUME NEW c \in Cases, StartExecution(c) PROVE PhaseIsSound(d)'
  BY <1>7 DEF StartExecution, Inductive, PhaseIsSound, TypeOK, Unapproved, UnderWay
<1>8. ASSUME NEW c \in Cases, Submit(c) PROVE PhaseIsSound(d)'
  BY <1>8 DEF Submit, Inductive, PhaseIsSound, TypeOK, Unapproved, UnderWay
<1>9. ASSUME NEW c \in Cases, HandOver(c) PROVE PhaseIsSound(d)'
  BY <1>9 DEF HandOver, Posted, Inductive, PhaseIsSound, TypeOK, Unapproved, UnderWay
<1>10. ASSUME NEW c \in Cases, Verify(c) PROVE PhaseIsSound(d)'
  BY <1>10 DEF Verify, Inductive, PhaseIsSound, TypeOK, Unapproved, UnderWay
<1>11. ASSUME NEW c \in Cases, Reverse(c) PROVE PhaseIsSound(d)'
  BY <1>11 DEF Reverse, Inductive, PhaseIsSound, TypeOK, Unapproved, UnderWay
<1>12. ASSUME NEW c \in Cases, ConfirmRollback(c) PROVE PhaseIsSound(d)'
  BY <1>12 DEF ConfirmRollback, Inductive, PhaseIsSound, TypeOK, Unapproved, UnderWay
<1>13. ASSUME NEW c \in Cases, FailUnconfirmed(c) PROVE PhaseIsSound(d)'
  BY <1>13 DEF FailUnconfirmed, Inductive, PhaseIsSound, TypeOK, Unapproved, UnderWay
<1>14. ASSUME NEW c \in Cases, live[c], StopRun(c), CallStops(c) PROVE PhaseIsSound(d)'
  BY <1>14 DEF StopRun, CallStops, Inductive, PhaseIsSound, TypeOK, Unapproved, UnderWay
<1>15. ASSUME NEW c \in Cases, Expire(c) PROVE PhaseIsSound(d)'
  BY <1>15 DEF Expire, Inductive, PhaseIsSound, TypeOK, Unapproved, UnderWay
<1>16. ASSUME NEW c \in Cases, ResumeExecution(c) PROVE PhaseIsSound(d)'
  BY <1>16 DEF ResumeExecution, Inductive, PhaseIsSound, TypeOK, Unapproved, UnderWay
<1>17. ASSUME NEW c \in Cases, ResumeRollback(c) PROVE PhaseIsSound(d)'
  BY <1>17 DEF ResumeRollback, Inductive, PhaseIsSound, TypeOK, Unapproved, UnderWay
<1>18. ASSUME NEW c \in Cases, Reprepare(c) PROVE PhaseIsSound(d)'
  BY <1>18 DEF Reprepare, AtRest, Inductive, PhaseIsSound, TypeOK, Unapproved, UnderWay
<1>19. CASE UNCHANGED vars
  BY <1>19 DEF vars, Inductive, PhaseIsSound, TypeOK, Unapproved, UnderWay
<1>20. ASSUME NEW c \in Cases, Inject(c) PROVE PhaseIsSound(d)'
  BY <1>20 DEF Inject, Inductive, PhaseIsSound, TypeOK, Unapproved, UnderWay
<1>21. ASSUME NEW c \in Cases, CallEnds(c) PROVE PhaseIsSound(d)'
  BY <1>21 DEF CallEnds, Inductive, PhaseIsSound, TypeOK, Unapproved, UnderWay
<1> QED
  BY <1>1, <1>2, <1>3, <1>4, <1>5, <1>6, <1>7, <1>8, <1>9, <1>10, <1>11, <1>12, <1>13,
     <1>14, <1>15, <1>16, <1>17, <1>18, <1>19, <1>20, <1>21
     DEF Next, Runs, Resume, Refused, Interrupt, CallStops

LEMMA ReversalStep ==
    ASSUME Inductive, [Next]_vars, NEW d \in Cases
    PROVE  ReversalIsSound(d)'
<1> USE DEF rights, calls, effects
<1>1. ASSUME NEW c \in Cases, Investigate(c) PROVE ReversalIsSound(d)'
  BY <1>1 DEF Investigate, Inductive, PhaseIsSound, ReversalIsSound, TypeOK
<1>2. ASSUME NEW c \in Cases, CloseWithoutAction(c) PROVE ReversalIsSound(d)'
  BY <1>2 DEF CloseWithoutAction, Inductive, PhaseIsSound, ReversalIsSound, TypeOK
<1>3. ASSUME NEW c \in Cases, DraftOnly(c) PROVE ReversalIsSound(d)'
  BY <1>3 DEF DraftOnly, Inductive, PhaseIsSound, ReversalIsSound, TypeOK
<1>4. ASSUME NEW c \in Cases, AskApproval(c) PROVE ReversalIsSound(d)'
  BY <1>4 DEF AskApproval, Inductive, PhaseIsSound, ReversalIsSound, TypeOK
<1>5. ASSUME NEW c \in Cases, Approve(c) PROVE ReversalIsSound(d)'
  BY <1>5 DEF Approve, Inductive, PhaseIsSound, ReversalIsSound, TypeOK
<1>6. ASSUME NEW c \in Cases, Reject(c) PROVE ReversalIsSound(d)'
  BY <1>6 DEF Reject, Inductive, PhaseIsSound, ReversalIsSound, TypeOK
<1>7. ASSUME NEW c \in Cases, StartExecution(c) PROVE ReversalIsSound(d)'
  BY <1>7 DEF StartExecution, Inductive, PhaseIsSound, ReversalIsSound, TypeOK
<1>8. ASSUME NEW c \in Cases, Submit(c) PROVE ReversalIsSound(d)'
  BY <1>8 DEF Submit, NoEntries, Inductive, PhaseIsSound, ReversalIsSound, TypeOK
<1>9. ASSUME NEW c \in Cases, HandOver(c) PROVE ReversalIsSound(d)'
  BY <1>9 DEF HandOver, Posted, Inductive, PhaseIsSound, ReversalIsSound, TypeOK
<1>10. ASSUME NEW c \in Cases, Verify(c) PROVE ReversalIsSound(d)'
  BY <1>10 DEF Verify, Inductive, PhaseIsSound, ReversalIsSound, TypeOK
<1>11. ASSUME NEW c \in Cases, Reverse(c) PROVE ReversalIsSound(d)'
  BY <1>11 DEF Reverse, Inductive, PhaseIsSound, ReversalIsSound, TypeOK
<1>12. ASSUME NEW c \in Cases, ConfirmRollback(c) PROVE ReversalIsSound(d)'
  BY <1>12 DEF ConfirmRollback, Inductive, PhaseIsSound, ReversalIsSound, TypeOK
<1>13. ASSUME NEW c \in Cases, FailUnconfirmed(c) PROVE ReversalIsSound(d)'
  BY <1>13 DEF FailUnconfirmed, HasSnapshot, Inductive, PhaseIsSound, ReversalIsSound, TypeOK
<1>14. ASSUME NEW c \in Cases, live[c], StopRun(c), CallStops(c) PROVE ReversalIsSound(d)'
  BY <1>14 DEF StopRun, CallStops, Inductive, PhaseIsSound, ReversalIsSound, TypeOK
<1>15. ASSUME NEW c \in Cases, Expire(c) PROVE ReversalIsSound(d)'
  BY <1>15 DEF Expire, Inductive, PhaseIsSound, ReversalIsSound, TypeOK
<1>16. ASSUME NEW c \in Cases, ResumeExecution(c) PROVE ReversalIsSound(d)'
  BY <1>16 DEF ResumeExecution, Inductive, PhaseIsSound, ReversalIsSound, TypeOK
<1>17. ASSUME NEW c \in Cases, ResumeRollback(c) PROVE ReversalIsSound(d)'
  BY <1>17 DEF ResumeRollback, Inductive, PhaseIsSound, ReversalIsSound, TypeOK
<1>18. ASSUME NEW c \in Cases, Reprepare(c) PROVE ReversalIsSound(d)'
  BY <1>18 DEF Reprepare, Inductive, PhaseIsSound, ReversalIsSound, TypeOK
<1>19. CASE UNCHANGED vars
  BY <1>19 DEF vars, Inductive, PhaseIsSound, ReversalIsSound, TypeOK
<1>20. ASSUME NEW c \in Cases, Inject(c) PROVE ReversalIsSound(d)'
  BY <1>20 DEF Inject, Inductive, PhaseIsSound, ReversalIsSound, TypeOK
<1>21. ASSUME NEW c \in Cases, CallEnds(c) PROVE ReversalIsSound(d)'
  BY <1>21 DEF CallEnds, Inductive, PhaseIsSound, ReversalIsSound, TypeOK
<1> QED
  BY <1>1, <1>2, <1>3, <1>4, <1>5, <1>6, <1>7, <1>8, <1>9, <1>10, <1>11, <1>12, <1>13,
     <1>14, <1>15, <1>16, <1>17, <1>18, <1>19, <1>20, <1>21
     DEF Next, Runs, Resume, Refused, Interrupt, CallStops

LEMMA FailureStep ==
    ASSUME Inductive, [Next]_vars, NEW d \in Cases
    PROVE  FailureIsSound(d)'
<1> USE DEF rights, calls, effects
<1>0. ASSUME verdict'[d] = "FAILED" => verdict[d] = "FAILED", UNCHANGED <<before, own>>
      PROVE  FailureIsSound(d)'
  BY <1>0 DEF Inductive, FailureIsSound, Plus
<1>1. ASSUME NEW c \in Cases, Investigate(c) PROVE FailureIsSound(d)'
  BY <1>0, <1>1 DEF Investigate
<1>2. ASSUME NEW c \in Cases, CloseWithoutAction(c) PROVE FailureIsSound(d)'
  BY <1>0, <1>2 DEF CloseWithoutAction
<1>3. ASSUME NEW c \in Cases, DraftOnly(c) PROVE FailureIsSound(d)'
  BY <1>0, <1>3 DEF DraftOnly, Inductive, TypeOK
<1>4. ASSUME NEW c \in Cases, AskApproval(c) PROVE FailureIsSound(d)'
  BY <1>0, <1>4 DEF AskApproval
<1>5. ASSUME NEW c \in Cases, Approve(c) PROVE FailureIsSound(d)'
  BY <1>0, <1>5 DEF Approve
<1>6. ASSUME NEW c \in Cases, Reject(c) PROVE FailureIsSound(d)'
  BY <1>0, <1>6 DEF Reject
<1>7. ASSUME NEW c \in Cases, StartExecution(c) PROVE FailureIsSound(d)'
  BY <1>0, <1>7 DEF StartExecution
<1>8. ASSUME NEW c \in Cases, Submit(c) PROVE FailureIsSound(d)'
  BY <1>8 DEF Submit, Inductive, PhaseIsSound, FailureIsSound, TypeOK, Plus
<1>9. ASSUME NEW c \in Cases, HandOver(c) PROVE FailureIsSound(d)'
  BY <1>0, <1>9 DEF HandOver, Posted
<1>10. ASSUME NEW c \in Cases, Verify(c) PROVE FailureIsSound(d)'
  <2>1. CASE d = c /\ ~Matches(c)
    <3>1. Scope(c) = Plus(before[c], own[c])
      BY <1>10 DEF Verify, Inductive, PhaseIsSound, TypeOK, Scope, Effect
    <3>2. ~Agrees(Plus(before[c], own[c]))
      BY <2>1, <3>1 DEF Matches
    <3> QED BY <1>10, <2>1, <3>2 DEF Verify, FailureIsSound
  <2>2. CASE d = c /\ Matches(c)
    BY <1>0, <1>10, <2>2 DEF Verify, Inductive, TypeOK
  <2>3. CASE d # c
    BY <1>0, <1>10, <2>3 DEF Verify, Inductive, TypeOK
  <2> QED BY <2>1, <2>2, <2>3
<1>11. ASSUME NEW c \in Cases, Reverse(c) PROVE FailureIsSound(d)'
  BY <1>0, <1>11 DEF Reverse
<1>12. ASSUME NEW c \in Cases, ConfirmRollback(c) PROVE FailureIsSound(d)'
  BY <1>0, <1>12 DEF ConfirmRollback
<1>13. ASSUME NEW c \in Cases, FailUnconfirmed(c) PROVE FailureIsSound(d)'
  BY <1>0, <1>13 DEF FailUnconfirmed
<1>14. ASSUME NEW c \in Cases, live[c], StopRun(c), CallStops(c) PROVE FailureIsSound(d)'
  BY <1>0, <1>14 DEF StopRun, CallStops
<1>15. ASSUME NEW c \in Cases, Expire(c) PROVE FailureIsSound(d)'
  BY <1>0, <1>15 DEF Expire
<1>16. ASSUME NEW c \in Cases, ResumeExecution(c) PROVE FailureIsSound(d)'
  BY <1>0, <1>16 DEF ResumeExecution
<1>17. ASSUME NEW c \in Cases, ResumeRollback(c) PROVE FailureIsSound(d)'
  BY <1>0, <1>17 DEF ResumeRollback
<1>18. ASSUME NEW c \in Cases, Reprepare(c) PROVE FailureIsSound(d)'
  BY <1>18 DEF Reprepare, Inductive, PhaseIsSound, FailureIsSound, TypeOK, Plus
<1>19. CASE UNCHANGED vars
  BY <1>0, <1>19 DEF vars
<1>20. ASSUME NEW c \in Cases, Inject(c) PROVE FailureIsSound(d)'
  BY <1>0, <1>20 DEF Inject
<1>21. ASSUME NEW c \in Cases, CallEnds(c) PROVE FailureIsSound(d)'
  BY <1>0, <1>21 DEF CallEnds
<1> QED
  BY <1>1, <1>2, <1>3, <1>4, <1>5, <1>6, <1>7, <1>8, <1>9, <1>10, <1>11, <1>12, <1>13,
     <1>14, <1>15, <1>16, <1>17, <1>18, <1>19, <1>20, <1>21
     DEF Next, Runs, Resume, Refused, Interrupt, CallStops

\* One component of one case.
WithinQuota(c, k) == Consumed(c)[k] + capability[c][k] <= quota[c][k]

LEMMA AuthorityStep ==
    ASSUME Inductive, [Next]_vars, NEW d \in Cases, NEW k \in Components
    PROVE  WithinQuota(d, k)'
<1> USE DEF rights, calls, effects
<1>0. /\ WithinQuota(d, k)
      /\ capability[d][k] \in Nat /\ quota[d][k] \in Nat
      /\ Magnitude(delta[d][k]) \in Nat
      /\ Zero[k] = 0
  BY MagnitudeIsNat, ZeroIsLimit
     DEF Inductive, AuthorityIsBounded, WithinQuota, TypeOK, Limits, Amounts
<1>1. ASSUME NEW c \in Cases, Investigate(c) PROVE WithinQuota(d, k)'
  BY <1>0, <1>1 DEF Investigate, WithinQuota, Consumed, Inductive, TypeOK, PhaseIsSound, Unapproved
<1>2. ASSUME NEW c \in Cases, CloseWithoutAction(c) PROVE WithinQuota(d, k)'
  BY <1>0, <1>2 DEF CloseWithoutAction, WithinQuota, Consumed, Inductive, TypeOK
<1>3. ASSUME NEW c \in Cases, DraftOnly(c) PROVE WithinQuota(d, k)'
  BY <1>0, <1>3 DEF DraftOnly, WithinQuota, Consumed, Inductive, TypeOK
<1>4. ASSUME NEW c \in Cases, AskApproval(c) PROVE WithinQuota(d, k)'
  BY <1>0, <1>4 DEF AskApproval, WithinQuota, Consumed, Inductive, TypeOK, PhaseIsSound, Unapproved
<1>5. ASSUME NEW c \in Cases, Approve(c) PROVE WithinQuota(d, k)'
  BY <1>0, <1>5 DEF Approve, WithinQuota, Consumed, Inductive, TypeOK, PhaseIsSound, Unapproved
<1>6. ASSUME NEW c \in Cases, Reject(c) PROVE WithinQuota(d, k)'
  BY <1>0, <1>6 DEF Reject, WithinQuota, Consumed, Inductive, TypeOK
<1>7. ASSUME NEW c \in Cases, StartExecution(c) PROVE WithinQuota(d, k)'
  BY <1>0, <1>7 DEF StartExecution, WithinQuota, Consumed, Inductive, TypeOK
<1>8. ASSUME NEW c \in Cases, Submit(c) PROVE WithinQuota(d, k)'
  <2>1. /\ Covers(capability[c], c)
        /\ capability' = [capability EXCEPT ![c] =
                            [i \in Components |-> @[i] - Magnitude(delta[c][i])]]
    BY <1>8, OnlyRowIsCharged
  <2>2. /\ executed[c] = "NONE" /\ executed' = [executed EXCEPT ![c] = "SUBMITTED"]
        /\ UNCHANGED <<delta, quota>>
    BY <1>8 DEF Submit
  <2>3. CASE d = c
    <3>1. Consumed(d)[k] = 0 /\ Consumed(d)'[k] = Magnitude(delta[d][k])
      BY <1>0, <2>2, <2>3 DEF Consumed, Inductive, TypeOK
    <3>2. capability'[d][k] = capability[d][k] - Magnitude(delta[d][k])
      BY <2>1, <2>3 DEF Inductive, TypeOK
    <3> QED BY <1>0, <2>2, <3>1, <3>2 DEF WithinQuota
  <2>4. CASE d # c
    BY <1>0, <2>1, <2>2, <2>4 DEF WithinQuota, Consumed, Inductive, TypeOK
  <2> QED BY <2>3, <2>4
<1>9. ASSUME NEW c \in Cases, HandOver(c) PROVE WithinQuota(d, k)'
  BY <1>0, <1>9 DEF HandOver, Posted, WithinQuota, Consumed, Inductive, TypeOK
<1>10. ASSUME NEW c \in Cases, Verify(c) PROVE WithinQuota(d, k)'
  BY <1>0, <1>10 DEF Verify, WithinQuota, Consumed, Inductive, TypeOK
<1>11. ASSUME NEW c \in Cases, Reverse(c) PROVE WithinQuota(d, k)'
  BY <1>0, <1>11 DEF Reverse, WithinQuota, Consumed, Inductive, TypeOK
<1>12. ASSUME NEW c \in Cases, ConfirmRollback(c) PROVE WithinQuota(d, k)'
  BY <1>0, <1>12 DEF ConfirmRollback, WithinQuota, Consumed, Inductive, TypeOK
<1>13. ASSUME NEW c \in Cases, FailUnconfirmed(c) PROVE WithinQuota(d, k)'
  BY <1>0, <1>13 DEF FailUnconfirmed, WithinQuota, Consumed, Inductive, TypeOK
<1>14. ASSUME NEW c \in Cases, live[c], StopRun(c), CallStops(c) PROVE WithinQuota(d, k)'
  BY <1>0, <1>14 DEF StopRun, CallStops, WithinQuota, Consumed, Inductive, TypeOK
<1>15. ASSUME NEW c \in Cases, Expire(c) PROVE WithinQuota(d, k)'
  BY <1>0, <1>15 DEF Expire, WithinQuota, Consumed, Inductive, TypeOK
<1>16. ASSUME NEW c \in Cases, ResumeExecution(c) PROVE WithinQuota(d, k)'
  BY <1>0, <1>16 DEF ResumeExecution, WithinQuota, Consumed, Inductive, TypeOK, Renewed
<1>17. ASSUME NEW c \in Cases, ResumeRollback(c) PROVE WithinQuota(d, k)'
  BY <1>0, <1>17 DEF ResumeRollback, WithinQuota, Consumed, Inductive, TypeOK
<1>18. ASSUME NEW c \in Cases, Reprepare(c) PROVE WithinQuota(d, k)'
  BY <1>0, <1>18 DEF Reprepare, WithinQuota, Consumed, Inductive, TypeOK
<1>19. CASE UNCHANGED vars
  BY <1>0, <1>19 DEF vars, WithinQuota, Consumed, Inductive, TypeOK
<1>20. ASSUME NEW c \in Cases, Inject(c) PROVE WithinQuota(d, k)'
  BY <1>0, <1>20 DEF Inject, WithinQuota, Consumed, Inductive, TypeOK
<1>21. ASSUME NEW c \in Cases, CallEnds(c) PROVE WithinQuota(d, k)'
  BY <1>0, <1>21 DEF CallEnds, WithinQuota, Consumed, Inductive, TypeOK
<1> QED
  BY <1>1, <1>2, <1>3, <1>4, <1>5, <1>6, <1>7, <1>8, <1>9, <1>10, <1>11, <1>12, <1>13,
     <1>14, <1>15, <1>16, <1>17, <1>18, <1>19, <1>20, <1>21
     DEF Next, Runs, Resume, Refused, Interrupt, CallStops

-----------------------------------------------------------------------------
LEMMA InductiveInit == Init => Inductive
<1> SUFFICES ASSUME Init PROVE Inductive
  OBVIOUS
<1>1. TypeOK
  BY ZeroIsLimit, AmountAssumption DEF Init, TypeOK, Status, Amounts
<1>2. ASSUME NEW c \in Cases PROVE PhaseIsSound(c) /\ ReversalIsSound(c) /\ FailureIsSound(c)
  BY DEF Init, PhaseIsSound, ReversalIsSound, FailureIsSound, Unapproved
<1>3. AuthorityIsBounded
  BY ZeroIsLimit DEF Init, AuthorityIsBounded, Consumed
<1> QED BY <1>1, <1>2, <1>3 DEF Inductive

LEMMA InductiveStep == Inductive /\ [Next]_vars => Inductive'
<1> SUFFICES ASSUME Inductive, [Next]_vars PROVE Inductive'
  OBVIOUS
<1>1. TypeOK'
  BY TypeStep DEF Inductive
<1>2. \A c \in Cases : (PhaseIsSound(c) /\ ReversalIsSound(c) /\ FailureIsSound(c))'
  BY PhaseStep, ReversalStep, FailureStep
<1>3. AuthorityIsBounded'
  BY AuthorityStep DEF AuthorityIsBounded, WithinQuota
<1> QED BY <1>1, <1>2, <1>3 DEF Inductive

\* Where each case may be, given what it has in the ledger and what the
\* verifier said, through every interruption and recovery of all cases.
THEOREM SettlementInductive == Spec => []Inductive
BY InductiveInit, InductiveStep, PTL DEF Spec

\* Amounts, limits and statuses are what they should be: no capability is ever
\* negative (_submit_single, renew_approval_capability).
THEOREM SettlementTypeCorrect == Spec => []TypeOK
BY SettlementInductive, PTL DEF Inductive

\* What drafts have used and the token in the approval row still allows stay
\* within the approval, in every component, although a recovery leaves earlier
\* tokens valid in the hands of postings under way: their tasks are cancelled in
\* the transaction that renews the token (resume_case_run, assert_active_claim).
THEOREM AuthorityStaysBounded == Spec => []AuthorityIsBounded
BY SettlementInductive, PTL DEF Inductive

\* At rest, exactly the postings that passed verification are in the ledger.
THEOREM OnlyVerifiedStays == Spec => []NothingUnverifiedStays
<1>1. Inductive => NothingUnverifiedStays
  BY DEF Inductive, PhaseIsSound, NothingUnverifiedStays, AtRest, Unapproved
<1> QED BY <1>1, SettlementInductive, PTL

\* Every reversal is verified before its case comes to rest, or found no entries
\* before the posting and leaves the case FAILED: resume_rollback loses the
\* snapshot only when it is empty.
THEOREM ReversalsAreVerified == Spec => []ReversalIsVerified
<1>1. Inductive => ReversalIsVerified
  BY DEF Inductive, PhaseIsSound, ReversalIsSound, ReversalIsVerified, AtRest, TypeOK, Status,
         Unapproved
<1> QED BY <1>1, SettlementInductive, PTL

-----------------------------------------------------------------------------
(***************************************************************************)
(* Components that do not apply.  The verifier counts their rows in the    *)
(* total although no case may touch them: whether adjustments can pass is  *)
(* settled by what the order had been paid for them before any case.       *)
(***************************************************************************)
Untouched(k) ==
    /\ ledger[k] = Prior[k]
    /\ \A c \in Cases : /\ delta[c][k] = 0 /\ own[c][k] = 0
                        /\ executed[c] # "NONE" => before[c][k] = Prior[k]

LEMMA UntouchedAmounts ==
    ASSUME TypeOK, NEW k \in Components \ Applied, Untouched(k), NEW c \in Cases
    PROVE  /\ Prior[k] \in Int
           /\ Effect(c)[k] = 0
           /\ \A amounts \in Written(c) : amounts[k] = 0
<1>1. Prior[k] \in Int
  BY AmountAssumption
<1>2. Effect(c)[k] = 0
  BY ZeroIsLimit DEF Untouched, Effect
<1>3. ASSUME NEW amounts \in Written(c) PROVE amounts[k] = 0
  BY <1>3 DEF Written, Pending, Untouched, TypeOK, Amounts
<1> QED BY <1>1, <1>2, <1>3

LEMMA UntouchedStep ==
    ASSUME TypeOK, [Next]_vars, NEW k \in Components \ Applied, Untouched(k)
    PROVE  Untouched(k)'
<1> USE DEF rights, calls, effects
<1>0. Prior[k] \in Int /\ Zero[k] = 0
  BY AmountAssumption, ZeroIsLimit
<1>1. ASSUME NEW c \in Cases, Investigate(c) PROVE Untouched(k)'
  BY <1>1 DEF Investigate, Difference, Untouched, TypeOK
<1>2. ASSUME NEW c \in Cases, Submit(c) PROVE Untouched(k)'
  <2>1. PICK amounts \in Written(c) : /\ own' = [own EXCEPT ![c] = amounts]
                                      /\ ledger' = Plus(ledger, amounts)
    BY <1>2 DEF Submit
  <2>2. amounts[k] = 0
    BY <2>1, UntouchedAmounts
  <2>3. ledger'[k] = Prior[k]
    BY <1>0, <2>1, <2>2 DEF Plus, Untouched
  <2> QED BY <1>2, <2>1, <2>2, <2>3 DEF Submit, Untouched, TypeOK
<1>3. ASSUME NEW c \in Cases, Reverse(c) PROVE Untouched(k)'
  <2>1. ledger'[k] = Prior[k]
    BY <1>0, <1>3 DEF Reverse, Minus, Untouched
  <2> QED BY <1>3, <2>1 DEF Reverse, Untouched, TypeOK
<1>4. ASSUME NEW c \in Cases, Reprepare(c) PROVE Untouched(k)'
  <2>1. ledger'[k] = Prior[k]
    BY <1>0, <1>4, UntouchedAmounts DEF Reprepare, Minus, Untouched
  <2> QED BY <1>0, <1>4, <2>1 DEF Reprepare, Untouched, TypeOK
<1>5. ASSUME UNCHANGED <<delta, effects>> PROVE Untouched(k)'
  BY <1>5 DEF Untouched
<1>6. ASSUME NEW c \in Cases,
             \/ CloseWithoutAction(c) \/ DraftOnly(c) \/ AskApproval(c)
             \/ Approve(c) \/ Reject(c) \/ StartExecution(c) \/ Inject(c) \/ HandOver(c)
             \/ Verify(c) \/ ConfirmRollback(c) \/ FailUnconfirmed(c) \/ Expire(c)
             \/ StopRun(c) \/ CallEnds(c)
             \/ ResumeExecution(c) \/ ResumeRollback(c)
      PROVE  UNCHANGED <<delta, effects>>
  BY <1>6
     DEF CloseWithoutAction, DraftOnly, AskApproval, Approve, Reject, StartExecution,
         Inject, HandOver, Verify, ConfirmRollback, FailUnconfirmed, Expire, StopRun, CallEnds,
         ResumeExecution, ResumeRollback
<1>7. CASE UNCHANGED vars
  BY <1>5, <1>7 DEF vars
<1> QED
  BY <1>1, <1>2, <1>3, <1>4, <1>5, <1>6, <1>7 DEF Next, Runs, Resume, Refused, Interrupt

LEMMA OthersByComponent == OthersAreUntouched <=> \A k \in Components \ Applied : Untouched(k)
BY DEF OthersAreUntouched, Untouched

\* Whatever is drafted, deviates, is reversed or prepared again, a component that
\* does not apply keeps what the order had been paid for it (_submit_single).
THEOREM OthersStayUntouched == Spec => []OthersAreUntouched
<1>1. Init => OthersAreUntouched
  <2> SUFFICES ASSUME Init PROVE OthersAreUntouched
    OBVIOUS
  <2> QED BY ZeroIsLimit DEF Init, OthersAreUntouched
<1>2. Inductive /\ OthersAreUntouched /\ [Next]_vars => OthersAreUntouched'
  <2> SUFFICES ASSUME Inductive, OthersAreUntouched, [Next]_vars,
                      NEW k \in Components \ Applied
               PROVE  Untouched(k)'
    BY DEF OthersAreUntouched, Untouched
  <2> QED BY UntouchedStep, OthersByComponent DEF Inductive
<1> QED BY <1>1, <1>2, SettlementInductive, PTL DEF Spec

\* Where the components that apply are right, the order is settled.
LEMMA RightIsSettled ==
    ASSUME Inductive, OthersAreUntouched, NEW c \in Cases, executed[c] # "NONE",
           \A k \in Applied : before[c][k] + own[c][k] = Entitled[k]
    PROVE  Plus(before[c], own[c]) = Settled
<1>1. ASSUME NEW k \in Components \ Applied PROVE before[c][k] + own[c][k] = Prior[k]
  BY AmountAssumption DEF OthersAreUntouched
<1> QED BY <1>1 DEF Plus, Settled

\* When what was paid for other components adds up to nothing, as it does when
\* there are none, only postings that leave a component wrong fail verification
\* (_verify_ledger_read).
THEOREM CorrectAdjustmentsPass ==
    ASSUME SumFunction(Settled) = SumFunction(Due)
    PROVE  Spec => []CorrectAdjustmentPasses
<1>1. Inductive /\ OthersAreUntouched => CorrectAdjustmentPasses
  <2> SUFFICES ASSUME Inductive, OthersAreUntouched, NEW c \in Cases, verdict[c] = "FAILED",
                      \A k \in Applied : before[c][k] + own[c][k] = Entitled[k]
               PROVE  FALSE
    BY DEF CorrectAdjustmentPasses
  <2>1. executed[c] # "NONE"
    BY DEF Inductive, PhaseIsSound, TypeOK, Status, Unapproved
  <2>2. Plus(before[c], own[c]) = Settled
    BY <2>1, RightIsSettled
  <2>3. Agrees(Settled)
    BY AmountAssumption DEF Agrees, Settled
  <2> QED BY <2>2, <2>3 DEF Inductive, FailureIsSound
<1> QED BY <1>1, SettlementInductive, OthersStayUntouched, PTL

NothingPasses == \A c \in Cases : verdict[c] # "PASSED"

LEMMA NothingPassesStep ==
    ASSUME SumFunction(Settled) # SumFunction(Due), Inductive, OthersAreUntouched,
           NothingPasses, [Next]_vars
    PROVE  NothingPasses'
<1>1. ASSUME NEW c \in Cases, Verify(c) PROVE NothingPasses'
  <2>1. executed[c] = "SUBMITTED" /\ Scope(c) = Plus(before[c], own[c])
    BY <1>1 DEF Verify, Inductive, PhaseIsSound, Scope, Effect
  <2>2. ASSUME Matches(c) PROVE FALSE
    <3>1. \A k \in Applied : before[c][k] + own[c][k] = Entitled[k]
      BY <2>1, <2>2, AmountAssumption DEF Matches, Agrees, Plus
    <3>2. Scope(c) = Settled
      BY <2>1, <3>1, RightIsSettled
    <3> QED BY <2>2, <3>2 DEF Matches, Agrees
  <2>3. verdict' = [verdict EXCEPT ![c] = "FAILED"]
    BY <1>1, <2>2 DEF Verify
  <2> QED BY <2>3 DEF NothingPasses, Inductive, TypeOK
<1>2. ASSUME UNCHANGED verdict PROVE NothingPasses'
  BY <1>2 DEF NothingPasses
<1>3. ASSUME NEW c \in Cases, DraftOnly(c) \/ Reprepare(c) PROVE NothingPasses'
  BY <1>3 DEF DraftOnly, Reprepare, NothingPasses, Inductive, TypeOK
<1>4. ASSUME NEW c \in Cases,
             \/ Investigate(c) \/ CloseWithoutAction(c) \/ AskApproval(c) \/ Approve(c)
             \/ Reject(c) \/ StartExecution(c) \/ Inject(c) \/ Submit(c) \/ HandOver(c)
             \/ Reverse(c) \/ ConfirmRollback(c) \/ FailUnconfirmed(c) \/ Expire(c)
             \/ StopRun(c) \/ CallEnds(c)
             \/ ResumeExecution(c) \/ ResumeRollback(c)
      PROVE  UNCHANGED verdict
  BY <1>4
     DEF Investigate, CloseWithoutAction, AskApproval, Approve, Reject, StartExecution,
         Inject, Submit, HandOver, Reverse, ConfirmRollback, FailUnconfirmed, Expire, StopRun,
         CallEnds, ResumeExecution, ResumeRollback
<1>5. CASE UNCHANGED vars
  BY <1>2, <1>5 DEF vars
<1> QED
  BY <1>1, <1>2, <1>3, <1>4, <1>5 DEF Next, Runs, Resume, Refused, Interrupt

\* When what was paid for other components does not add up to nothing, no
\* adjustment passes: what is posted for the order fails verification, however
\* right it was (_verify_ledger_read).
THEOREM NothingPassesBesideOthers ==
    ASSUME SumFunction(Settled) # SumFunction(Due)
    PROVE  Spec => []NothingPasses
<1>1. Init => NothingPasses
  BY DEF Init, NothingPasses
<1>2. Inductive /\ OthersAreUntouched /\ NothingPasses /\ [Next]_vars => NothingPasses'
  BY NothingPassesStep
<1> QED BY <1>1, <1>2, SettlementInductive, OthersStayUntouched, PTL DEF Spec

-----------------------------------------------------------------------------
(***************************************************************************)
(* One case alone.  What the runs refute for cases that read each other's  *)
(* unverified postings holds, for every policy, when an order has one case *)
(* only: its snapshot is the ledger it found.                              *)
(***************************************************************************)
Alone(c) ==
    /\ ledger = Plus(Prior, Effect(c))
    /\ executed[c] # "NONE" => before[c] = Prior
    /\ verdict[c] = "PASSED" => Plus(before[c], own[c]) = Due

LEMMA AddedAndTaken ==
    ASSUME NEW f \in Amounts, NEW g \in Amounts
    PROVE  Minus(Plus(f, g), g) = f /\ Plus(f, Zero) = f
BY DEF Plus, Minus, Amounts, Zero

\* The order had been paid nothing for components that do not apply.
PaidOnlyApplied == \A k \in Components \ Applied : Prior[k] = 0

LEMMA MatchingIsDue ==
    ASSUME Inductive, OthersAreUntouched, PaidOnlyApplied, NEW c \in Cases,
           executed[c] = "SUBMITTED", Matches(c)
    PROVE  Plus(before[c], own[c]) = Due
<1>1. Scope(c) = Plus(before[c], own[c])
  BY DEF Scope, Effect
<1>2. \A k \in Applied : before[c][k] + own[c][k] = Entitled[k]
  BY <1>1, AmountAssumption DEF Matches, Agrees, Plus
<1>3. Plus(before[c], own[c]) = Settled
  BY <1>2, RightIsSettled
<1>4. Settled = Due
  BY DEF Settled, Due, PaidOnlyApplied
<1> QED BY <1>3, <1>4

LEMMA AloneStep ==
    ASSUME NEW c, Cases = {c}, PaidOnlyApplied, Inductive, OthersAreUntouched, Alone(c),
           [Next]_vars
    PROVE  Alone(c)'
<1> USE DEF rights, calls, effects
<1>0. /\ c \in Cases
      /\ \A d \in Cases : d = c
      /\ Prior \in Amounts /\ own[c] \in Amounts /\ Effect(c) \in Amounts
  BY AmountAssumption, EffectIsAmount DEF Inductive, TypeOK, Amounts
<1>1. CASE Submit(c)
  <2>1. ledger = Prior
    BY <1>0, <1>1, AddedAndTaken DEF Submit, Alone, Effect
  <2>2. PICK amounts \in Written(c) : /\ own' = [own EXCEPT ![c] = amounts]
                                      /\ ledger' = Plus(ledger, amounts)
    BY <1>1 DEF Submit
  <2>3. before'[c] = Prior /\ Effect(c)' = amounts /\ ledger' = Plus(Prior, amounts)
    BY <1>0, <1>1, <2>1, <2>2 DEF Submit, Effect, Inductive, TypeOK
  <2>4. verdict'[c] # "PASSED"
    BY <1>0, <1>1 DEF Submit, Inductive, PhaseIsSound
  <2> QED BY <2>3, <2>4 DEF Alone, Plus
<1>2. CASE Verify(c)
  <2>1. Matches(c) => Plus(before[c], own[c]) = Due
    BY <1>0, <1>2, MatchingIsDue DEF Verify, Inductive, PhaseIsSound
  <2> QED BY <1>0, <1>2, <2>1 DEF Verify, Alone, Effect, Plus, Inductive, TypeOK
<1>3. CASE Reverse(c)
  <2>1. ledger' = Prior
    BY <1>0, <1>3, AddedAndTaken DEF Reverse, Alone, Effect
  <2>2. Effect(c)' = Zero
    BY <1>0, <1>3 DEF Reverse, Effect, Inductive, TypeOK
  <2>3. ledger' = Plus(Prior, Effect(c))'
    BY <1>0, <2>1, <2>2, AddedAndTaken DEF Plus
  <2> QED BY <1>0, <1>3, <2>3 DEF Reverse, Alone, Plus, Inductive, PhaseIsSound, TypeOK
<1>4. CASE Reprepare(c)
  <2>1. ledger' = Prior
    BY <1>0, <1>4, AddedAndTaken DEF Reprepare, Alone
  <2>2. Effect(c)' = Zero /\ executed'[c] = "NONE" /\ verdict'[c] = "NONE"
    BY <1>0, <1>4 DEF Reprepare, Effect, Inductive, TypeOK
  <2>3. ledger' = Plus(Prior, Effect(c))'
    BY <1>0, <2>1, <2>2, AddedAndTaken DEF Plus
  <2> QED BY <2>2, <2>3 DEF Alone
<1>5. ASSUME UNCHANGED effects, verdict'[c] = "PASSED" => verdict[c] = "PASSED"
      PROVE  Alone(c)'
  BY <1>5 DEF Alone, Effect, Plus
<1>6. ASSUME \/ Investigate(c) \/ CloseWithoutAction(c) \/ DraftOnly(c) \/ AskApproval(c)
             \/ Approve(c) \/ Reject(c) \/ StartExecution(c) \/ Inject(c) \/ HandOver(c)
             \/ ConfirmRollback(c) \/ FailUnconfirmed(c) \/ Expire(c) \/ StopRun(c)
             \/ CallEnds(c)
             \/ ResumeExecution(c) \/ ResumeRollback(c) \/ UNCHANGED vars
      PROVE  UNCHANGED effects /\ (verdict'[c] = "PASSED" => verdict[c] = "PASSED")
  BY <1>0, <1>6
     DEF Investigate, CloseWithoutAction, DraftOnly, AskApproval, Approve, Reject,
         StartExecution, Inject, HandOver, Posted, ConfirmRollback, FailUnconfirmed, Expire,
         StopRun, CallEnds, ResumeExecution, ResumeRollback, vars, Inductive, TypeOK
<1> QED
  BY <1>0, <1>1, <1>2, <1>3, <1>4, <1>5, <1>6
     DEF Next, Runs, Resume, Refused, Interrupt

\* When an order has one case and was paid only for components that apply, what
\* the case has posted and passed is what the order is entitled to.
THEOREM SoleCaseSettles ==
    ASSUME NEW c, Cases = {c}, PaidOnlyApplied
    PROVE  Spec => []SettledIsEntitled
<1>1. Init => Alone(c)
  <2> SUFFICES ASSUME Init PROVE Alone(c)
    OBVIOUS
  <2>1. Effect(c) = Zero /\ executed[c] = "NONE" /\ verdict[c] = "NONE"
    BY DEF Init, Effect
  <2>2. Plus(Prior, Zero) = Prior
    BY AmountAssumption, ZeroIsLimit, AddedAndTaken DEF Amounts
  <2> QED BY <2>1, <2>2 DEF Init, Alone
<1>2. Inductive /\ OthersAreUntouched /\ Alone(c) /\ [Next]_vars => Alone(c)'
  BY AloneStep
<1>3. Alone(c) => SettledIsEntitled
  BY DEF Alone, SettledIsEntitled, Effect
<1> QED BY <1>1, <1>2, <1>3, SettlementInductive, OthersStayUntouched, PTL DEF Spec

=============================================================================
