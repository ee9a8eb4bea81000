---------------------------- MODULE WorkflowProofs ----------------------------
(***************************************************************************)
(* The two ways in which the stages of a case are run, for any number of   *)
(* requests, findings, tasks, executions and versions.  Whatever requests  *)
(* run at once, fail or die, the in-process orchestrator implements        *)
(* CaseVerdict, files true samples, and leaves no case waiting that cannot *)
(* be decided (Orchestrator).  The tables of stage tasks tell a consistent *)
(* story, and implement TaskBook (StageTasks).  The rules do what they     *)
(* should for lists, orders and findings of any size (CommissionRules).    *)
(***************************************************************************)
EXTENDS MCWorkflow, FiniteSetTheorems, SequenceTheorems, WellFoundedInduction, TLAPS

-----------------------------------------------------------------------------
(* The in-process orchestrator *)


\* The tables of the stages, the labels and the levels have values of their
\* types.

LEMMA StatusOfIsReading ==
    ASSUME NEW s \in Stages
    PROVE  StatusOf[s] \in Reading
  BY DEF Stages, StatusOf, Reading

LEMMA RiskStageReviews == StatusOf["Risk"] = "RISK_REVIEW"
  BY DEF StatusOf

LEMMA AfterIsStage ==
    ASSUME NEW s \in Stages
    PROVE  After[s] \in Stages
  BY DEF Stages, After

\* Risk comes after the root cause, whose stage writes the report.
LEMMA RiskFollowsRootCause ==
    ASSUME NEW s \in Stages, s # "Risk", After[s] = "Risk"
    PROVE  s = "RootCause"
  BY DEF Stages, After

LEMMA RiskLevelIsLevel ==
    ASSUME NEW deltas, NEW score, NEW conflict
    PROVE  RiskLevel(deltas, score, conflict) \in {"L0", "L1", "L2", "L3"}
  BY DEF RiskLevel

\* A write needs the row as it is, and leaves it to the writer alone.
LEMMA WriterIsAlone ==
    ASSUME NEW q \in Requests, Write(q)
    PROVE  /\ fresh[q]
           /\ fresh' \in [Requests -> BOOLEAN]
           /\ \A p \in Requests : fresh'[p] <=> p = q
  BY DEF Write, MayWrite

\* One lemma for each action: it keeps the invariant.

\* Another writer is only there before anybody works for the case.
LEMMA OtherWriteKeeps ==
    ASSUME Inductive, OtherWrite
    PROVE  Inductive'
  <1> USE DEF Inductive, OtherWrite, work, gateway, row
  <1>1. TypeOK'
    BY DEF TypeOK
  <1>2. OneIsFresh' /\ PlaceIsSound' /\ ReportIsSound' /\ PlanIsSound'
    BY DEF OneIsFresh, PlaceIsSound, ReportIsSound, PlanIsSound
  <1>3. OwnersAreFresh'
    BY DEF OwnersAreFresh, Concluded
  <1>4. FormsAreNew' /\ WaitingIsSound' /\ LedgerIsSound' /\ WorkIsSound'
    BY DEF FormsAreNew, WaitingIsSound, LedgerIsSound, WorkIsSound
  <1>5. SamplesAreTrue' /\ WaitingCanBeDecided'
    BY DEF SamplesAreTrue, WaitingCanBeDecided
  <1> QED BY <1>1, <1>2, <1>3, <1>4, <1>5

LEMMA ReceiveKeeps ==
    ASSUME Inductive, NEW q \in Requests, Receive(q)
    PROVE  Inductive'
  <1> USE DEF Inductive, Receive, gateway, row, Goto
  <1>1. TypeOK'
    BY DEF TypeOK, InFlight
  <1>2. OneIsFresh' /\ OwnersAreFresh' /\ PlanIsSound' /\ FormsAreNew'
    BY DEF TypeOK, OneIsFresh, OwnersAreFresh, PlanIsSound, FormsAreNew
  <1>3. PlaceIsSound'
    BY DEF TypeOK, PlaceIsSound, Undecided, Settling, Concluded
  <1>4. ReportIsSound'
    BY DEF TypeOK, ReportIsSound, PlanIsSound
  <1>5. WaitingIsSound' /\ LedgerIsSound' /\ WorkIsSound' /\ SamplesAreTrue'
    BY DEF TypeOK, WaitingIsSound, LedgerIsSound, WorkIsSound, SamplesAreTrue
  <1>6. WaitingCanBeDecided'
    BY DEF WaitingCanBeDecided
  <1> QED BY <1>1, <1>2, <1>3, <1>4, <1>5, <1>6

LEMMA SupplyKeeps ==
    ASSUME Inductive, NEW q \in Requests, Supply(q)
    PROVE  Inductive'
  <1> USE DEF Inductive, Supply, work, gateway, row, Goto
  <1>1. TypeOK'
    BY WriterIsAlone DEF TypeOK, InFlight
  <1>2. OneIsFresh' /\ WaitingIsSound'
    BY WriterIsAlone DEF OneIsFresh, WaitingIsSound
  <1>3. PlaceIsSound'
    BY WriterIsAlone DEF TypeOK, PlaceIsSound, Undecided, Settling, Concluded
  <1>4. ReportIsSound'
    BY WriterIsAlone DEF ReportIsSound, PlanIsSound
  <1>5. OwnersAreFresh'
    BY WriterIsAlone DEF PlaceIsSound, OwnersAreFresh, Concluded
  <1>6. PlanIsSound' /\ FormsAreNew' /\ LedgerIsSound' /\ WorkIsSound'
    BY DEF PlanIsSound, FormsAreNew, LedgerIsSound, WorkIsSound
  <1>7. SamplesAreTrue' /\ WaitingCanBeDecided'
    BY DEF SamplesAreTrue, WaitingCanBeDecided
  <1> QED BY <1>1, <1>2, <1>3, <1>4, <1>5, <1>6, <1>7

LEMMA EnterStageKeeps ==
    ASSUME Inductive, NEW q \in Requests, EnterStage(q)
    PROVE  Inductive'
  <1> USE DEF Inductive, EnterStage, work, gateway, rowButStatus, Move, Goto
  <1>1. TypeOK'
    BY StatusOfIsReading, WriterIsAlone DEF TypeOK, InFlight, Undecided
  <1>2. OneIsFresh' /\ PlaceIsSound' /\ ReportIsSound'
    BY WriterIsAlone DEF TypeOK, OneIsFresh, PlaceIsSound, ReportIsSound
  <1>3. OwnersAreFresh'
    BY WriterIsAlone DEF PlaceIsSound, OwnersAreFresh, Reading, Concluded
  <1>4. PlanIsSound' /\ FormsAreNew' /\ WorkIsSound' /\ SamplesAreTrue'
    BY DEF PlanIsSound, FormsAreNew, WorkIsSound, SamplesAreTrue
  <1>5. WaitingIsSound'
    BY StatusOfIsReading, WriterIsAlone DEF TypeOK, WaitingIsSound,
        WaitingCanBeDecided, Reading
  <1>6. LedgerIsSound'
    BY StatusOfIsReading, WriterIsAlone DEF TypeOK, PlaceIsSound, LedgerIsSound,
        Reading, Settling, Concluded
  <1>7. WaitingCanBeDecided'
    BY StatusOfIsReading DEF TypeOK, WaitingCanBeDecided, Reading
  <1> QED BY <1>1, <1>2, <1>3, <1>4, <1>5, <1>6, <1>7

LEMMA FinishStageKeeps ==
    ASSUME Inductive, NEW q \in Requests, FinishStage(q)
    PROVE  Inductive'
  <1> USE DEF Inductive, FinishStage, gateway, Goto
  <1>1. TypeOK'
    BY AfterIsStage, WriterIsAlone DEF TypeOK, InFlight
  <1>2. OneIsFresh' /\ WaitingIsSound'
    BY WriterIsAlone DEF OneIsFresh, WaitingIsSound
  <1>3. PlaceIsSound'
    BY StatusOfIsReading, WriterIsAlone DEF TypeOK, PlaceIsSound
  <1>4. ReportIsSound'
    BY RiskFollowsRootCause, WriterIsAlone DEF TypeOK, ReportIsSound
  <1>5. OwnersAreFresh'
    BY StatusOfIsReading, WriterIsAlone DEF TypeOK, PlaceIsSound, OwnersAreFresh,
        Reading, Concluded
  <1>6. PlanIsSound'
    BY StatusOfIsReading, WriterIsAlone DEF TypeOK, PlaceIsSound, OwnersAreFresh,
        PlanIsSound, Reading
  <1>7. FormsAreNew'
    BY DEF FormsAreNew
  <1>8. LedgerIsSound'
    BY StatusOfIsReading, WriterIsAlone DEF TypeOK, PlaceIsSound, LedgerIsSound,
        Reading
  <1>9. WorkIsSound'
    BY StatusOfIsReading, WriterIsAlone DEF TypeOK, PlaceIsSound, OwnersAreFresh,
        WorkIsSound, Reading
  <1>10. SamplesAreTrue'
    BY StatusOfIsReading, WriterIsAlone DEF TypeOK, PlaceIsSound, LedgerIsSound,
        SamplesAreTrue, Reading, Concluded
  <1>11. WaitingCanBeDecided'
    BY WriterIsAlone DEF WaitingIsSound, WaitingCanBeDecided
  <1> QED BY <1>1, <1>2, <1>3, <1>4, <1>5, <1>6, <1>7, <1>8, <1>9, <1>10, <1>11

LEMMA EscalateKeeps ==
    ASSUME Inductive, NEW q \in Requests, Escalate(q)
    PROVE  Inductive'
  <1> USE DEF Inductive, Escalate, work, gateway, rowButStatus, Move, Goto
  <1>1. TypeOK'
    BY WriterIsAlone DEF TypeOK, InFlight, Reading, Undecided
  <1>2. OneIsFresh' /\ PlanIsSound' /\ FormsAreNew' /\ WorkIsSound'
    BY DEF OneIsFresh, PlanIsSound, FormsAreNew, WorkIsSound
  <1>3. PlaceIsSound' /\ ReportIsSound'
    BY WriterIsAlone DEF TypeOK, PlaceIsSound, ReportIsSound
  <1>4. OwnersAreFresh'
    BY StatusOfIsReading, WriterIsAlone DEF TypeOK, PlaceIsSound, OwnersAreFresh,
        Reading, Concluded
  <1>5. WaitingIsSound'
    BY WriterIsAlone DEF WaitingIsSound, WaitingCanBeDecided
  <1>6. LedgerIsSound'
    BY StatusOfIsReading, WriterIsAlone DEF TypeOK, PlaceIsSound, LedgerIsSound,
        Reading, Settling, Concluded
  <1>7. SamplesAreTrue' /\ WaitingCanBeDecided'
    BY DEF SamplesAreTrue, WaitingCanBeDecided
  <1> QED BY <1>1, <1>2, <1>3, <1>4, <1>5, <1>6, <1>7

LEMMA SaveRiskKeeps ==
    ASSUME Inductive, NEW q \in Requests, SaveRisk(q)
    PROVE  Inductive'
  <1> USE DEF Inductive, SaveRisk, gateway, row, Goto
  <1>1. TypeOK'
    BY RiskLevelIsLevel, WriterIsAlone DEF TypeOK, InFlight
  <1>2. OneIsFresh' /\ ReportIsSound' /\ WaitingIsSound'
    BY WriterIsAlone DEF OneIsFresh, ReportIsSound, WaitingIsSound
  <1>3. PlaceIsSound'
    BY RiskStageReviews, WriterIsAlone DEF PlaceIsSound
  <1>4. OwnersAreFresh'
    BY RiskStageReviews, WriterIsAlone DEF PlaceIsSound, OwnersAreFresh, Concluded
  <1>5. PlanIsSound'
    BY RiskStageReviews, WriterIsAlone DEF PlaceIsSound, OwnersAreFresh, PlanIsSound
  <1>6. FormsAreNew' /\ WorkIsSound' /\ WaitingCanBeDecided'
    BY DEF FormsAreNew, WorkIsSound, WaitingCanBeDecided
  <1>7. LedgerIsSound'
    BY RiskStageReviews, WriterIsAlone DEF PlaceIsSound, LedgerIsSound
  <1>8. SamplesAreTrue'
    BY RiskStageReviews, WriterIsAlone DEF PlaceIsSound, LedgerIsSound,
        SamplesAreTrue, Concluded
  <1> QED BY <1>1, <1>2, <1>3, <1>4, <1>5, <1>6, <1>7, <1>8

LEMMA RouteKeeps ==
    ASSUME Inductive, NEW q \in Requests, Route(q)
    PROVE  Inductive'
  <1> USE DEF Inductive, Route, work, gateway, rowButStatus, Move, Goto
  <1>1. TypeOK'
    BY WriterIsAlone DEF TypeOK, InFlight, Undecided, Concluded
  <1>2. OneIsFresh' /\ PlaceIsSound' /\ ReportIsSound'
    BY WriterIsAlone DEF TypeOK, OneIsFresh, PlaceIsSound, ReportIsSound
  <1>3. OwnersAreFresh'
    BY WriterIsAlone DEF TypeOK, PlaceIsSound, OwnersAreFresh, Concluded
  <1>4. PlanIsSound'
    BY WriterIsAlone DEF TypeOK, ReportIsSound, PlanIsSound
  <1>5. FormsAreNew' /\ WorkIsSound' /\ SamplesAreTrue' /\ WaitingCanBeDecided'
    BY DEF TypeOK, FormsAreNew, WorkIsSound, SamplesAreTrue, WaitingCanBeDecided
  <1>6. WaitingIsSound'
    BY WriterIsAlone DEF TypeOK, WaitingIsSound, WaitingCanBeDecided
  <1>7. LedgerIsSound'
    BY WriterIsAlone DEF TypeOK, PlaceIsSound, LedgerIsSound, Settling, Concluded
  <1> QED BY <1>1, <1>2, <1>3, <1>4, <1>5, <1>6, <1>7

LEMMA AskKeeps ==
    ASSUME Inductive, NEW q \in Requests, Ask(q)
    PROVE  Inductive'
  <1> USE DEF Inductive, Ask, work, row, Goto
  <1>1. TypeOK'
    BY DEF TypeOK, InFlight
  <1>2. OneIsFresh' /\ PlaceIsSound' /\ ReportIsSound' /\ OwnersAreFresh'
    BY DEF OneIsFresh, PlaceIsSound, ReportIsSound, OwnersAreFresh
  <1>3. PlanIsSound' /\ FormsAreNew' /\ WaitingIsSound' /\ LedgerIsSound'
    BY DEF TypeOK, PlanIsSound, FormsAreNew, WaitingIsSound, LedgerIsSound
  <1>4. WorkIsSound' /\ SamplesAreTrue' /\ WaitingCanBeDecided'
    BY DEF WorkIsSound, SamplesAreTrue, WaitingCanBeDecided
  <1> QED BY <1>1, <1>2, <1>3, <1>4

LEMMA AskedKeeps ==
    ASSUME Inductive, NEW q \in Requests, Asked(q)
    PROVE  Inductive'
  <1> USE DEF Inductive, Asked, work, gateway, Move, Goto
  <1>1. TypeOK'
    BY WriterIsAlone DEF TypeOK, InFlight, Undecided
  <1>2. OneIsFresh' /\ FormsAreNew' /\ WorkIsSound' /\ SamplesAreTrue'
    BY DEF TypeOK, OneIsFresh, FormsAreNew, WorkIsSound, SamplesAreTrue
  <1>3. PlaceIsSound' /\ ReportIsSound'
    BY WriterIsAlone DEF TypeOK, PlaceIsSound, ReportIsSound
  <1>4. OwnersAreFresh'
    BY WriterIsAlone DEF TypeOK, PlaceIsSound, OwnersAreFresh, Concluded
  <1>5. PlanIsSound'
    BY WriterIsAlone DEF TypeOK, ReportIsSound, PlanIsSound
  <1>6. WaitingIsSound'
    BY WriterIsAlone DEF TypeOK, ReportIsSound, WaitingIsSound, WaitingCanBeDecided
  <1>7. LedgerIsSound'
    BY WriterIsAlone DEF TypeOK, PlaceIsSound, LedgerIsSound, Settling, Concluded
  <1>8. WaitingCanBeDecided'
    BY WriterIsAlone DEF ReportIsSound, FormsAreNew, WaitingCanBeDecided
  <1> QED BY <1>1, <1>2, <1>3, <1>4, <1>5, <1>6, <1>7, <1>8

\* The simulated approver finds its form open only while the case waits for it.
LEMMA SimulateKeeps ==
    ASSUME Inductive, NEW q \in Requests, Simulate(q)
    PROVE  Inductive'
  <1> USE DEF Inductive, Simulate, row, Goto
  <1>1. TypeOK'
    BY DEF TypeOK, InFlight
  <1>2. OneIsFresh' /\ PlaceIsSound' /\ ReportIsSound' /\ OwnersAreFresh'
    BY DEF OneIsFresh, PlaceIsSound, ReportIsSound, OwnersAreFresh
  <1>3. PlanIsSound' /\ FormsAreNew' /\ WaitingIsSound' /\ LedgerIsSound'
    BY DEF TypeOK, PlanIsSound, FormsAreNew, WaitingIsSound, LedgerIsSound
  <1>4. WorkIsSound' /\ SamplesAreTrue' /\ WaitingCanBeDecided'
    BY DEF WorkIsSound, SamplesAreTrue, WaitingCanBeDecided
  <1> QED BY <1>1, <1>2, <1>3, <1>4

LEMMA DecidedKeeps ==
    ASSUME Inductive, NEW q \in Requests, Decided(q)
    PROVE  Inductive'
  <1> USE DEF Inductive, Decided, work, gateway, Move, Goto
  <1>1. TypeOK'
    BY WriterIsAlone DEF TypeOK, InFlight, Undecided
  <1>2. OneIsFresh' /\ PlaceIsSound' /\ ReportIsSound'
    BY WriterIsAlone DEF TypeOK, OneIsFresh, PlaceIsSound, ReportIsSound
  <1>3. OwnersAreFresh'
    BY WriterIsAlone DEF PlaceIsSound, OwnersAreFresh, Concluded
  <1>4. PlanIsSound'
    BY WriterIsAlone DEF ReportIsSound, PlanIsSound
  <1>5. FormsAreNew' /\ WorkIsSound' /\ SamplesAreTrue' /\ WaitingCanBeDecided'
    BY DEF FormsAreNew, WorkIsSound, SamplesAreTrue, WaitingCanBeDecided
  <1>6. WaitingIsSound'
    BY WriterIsAlone DEF WaitingIsSound, WaitingCanBeDecided
  <1>7. LedgerIsSound'
    BY WriterIsAlone DEF TypeOK, PlaceIsSound, LedgerIsSound, Settling, Concluded
  <1> QED BY <1>1, <1>2, <1>3, <1>4, <1>5, <1>6, <1>7

LEMMA ReadForDecisionKeeps ==
    ASSUME Inductive, NEW q \in Requests, ReadForDecision(q)
    PROVE  Inductive'
  <1> USE DEF Inductive, ReadForDecision, gateway, row, Goto
  <1>1. TypeOK'
    BY DEF TypeOK, InFlight
  <1>2. OneIsFresh' /\ PlaceIsSound' /\ ReportIsSound' /\ OwnersAreFresh'
    BY DEF OneIsFresh, PlaceIsSound, ReportIsSound, OwnersAreFresh
  <1>3. PlanIsSound' /\ FormsAreNew' /\ WaitingIsSound' /\ LedgerIsSound'
    BY DEF TypeOK, PlanIsSound, FormsAreNew, WaitingIsSound, LedgerIsSound
  <1>4. WorkIsSound' /\ SamplesAreTrue' /\ WaitingCanBeDecided'
    BY DEF WorkIsSound, SamplesAreTrue, WaitingCanBeDecided
  <1> QED BY <1>1, <1>2, <1>3, <1>4

\* A person decides the form of the plan that the case reports.
LEMMA DecideKeeps ==
    ASSUME Inductive, NEW q \in Requests, Decide(q)
    PROVE  Inductive'
  <1> USE DEF Inductive, Decide, work, Move, Goto
  <1>1. TypeOK'
    BY WriterIsAlone DEF TypeOK, PlaceIsSound, WaitingIsSound, InFlight, Undecided,
        Concluded
  <1>2. OneIsFresh' /\ PlaceIsSound' /\ ReportIsSound'
    BY WriterIsAlone DEF TypeOK, OneIsFresh, PlaceIsSound, ReportIsSound
  <1>3. OwnersAreFresh'
    BY WriterIsAlone DEF PlaceIsSound, OwnersAreFresh, Concluded
  <1>4. PlanIsSound'
    BY WriterIsAlone DEF PlaceIsSound, PlanIsSound, WaitingIsSound,
        WaitingCanBeDecided
  <1>5. FormsAreNew' /\ WaitingIsSound' /\ WorkIsSound' /\ SamplesAreTrue'
    BY DEF TypeOK, FormsAreNew, WaitingIsSound, WorkIsSound, SamplesAreTrue
  <1>6. LedgerIsSound'
    BY WriterIsAlone DEF TypeOK, PlaceIsSound, LedgerIsSound, Settling, Concluded
  <1>7. WaitingCanBeDecided'
    BY DEF WaitingCanBeDecided
  <1> QED BY <1>1, <1>2, <1>3, <1>4, <1>5, <1>6, <1>7

\* What the row reports and the store names is one plan.
LEMMA RebuildKeeps ==
    ASSUME Inductive, NEW q \in Requests, Rebuild(q)
    PROVE  Inductive'
  <1> USE DEF Inductive, Rebuild, gateway, row, Goto
  <1>1. TypeOK'
    BY DEF TypeOK, PlanIsSound, InFlight
  <1>2. OneIsFresh' /\ PlaceIsSound' /\ ReportIsSound' /\ OwnersAreFresh'
    BY DEF OneIsFresh, PlaceIsSound, ReportIsSound, OwnersAreFresh
  <1>3. PlanIsSound' /\ FormsAreNew' /\ WaitingIsSound' /\ LedgerIsSound'
    BY DEF TypeOK, PlanIsSound, FormsAreNew, WaitingIsSound, LedgerIsSound
  <1>4. WorkIsSound' /\ SamplesAreTrue' /\ WaitingCanBeDecided'
    BY DEF WorkIsSound, SamplesAreTrue, WaitingCanBeDecided
  <1> QED BY <1>1, <1>2, <1>3, <1>4

LEMMA ExecuteKeeps ==
    ASSUME Inductive, NEW q \in Requests, Execute(q)
    PROVE  Inductive'
  <1> USE DEF Inductive, Execute, work, gateway, rowButStatus, Move, Goto
  <1>1. TypeOK'
    BY WriterIsAlone DEF TypeOK, InFlight, Settling
  <1>2. OneIsFresh' /\ PlaceIsSound' /\ ReportIsSound'
    BY WriterIsAlone DEF OneIsFresh, PlaceIsSound, ReportIsSound
  <1>3. OwnersAreFresh'
    BY WriterIsAlone DEF TypeOK, OneIsFresh, OwnersAreFresh
  <1>4. PlanIsSound' /\ FormsAreNew' /\ SamplesAreTrue' /\ WaitingCanBeDecided'
    BY DEF PlanIsSound, FormsAreNew, SamplesAreTrue, WaitingCanBeDecided
  <1>5. WaitingIsSound'
    BY WriterIsAlone DEF WaitingIsSound, WaitingCanBeDecided
  <1>6. LedgerIsSound'
    BY DEF TypeOK, OwnersAreFresh, LedgerIsSound, Settling, Concluded
  <1>7. WorkIsSound'
    BY DEF TypeOK, OwnersAreFresh, LedgerIsSound, WorkIsSound, Settling, Concluded
  <1> QED BY <1>1, <1>2, <1>3, <1>4, <1>5, <1>6, <1>7

LEMMA LeaveDraftsKeeps ==
    ASSUME Inductive, NEW q \in Requests, LeaveDrafts(q)
    PROVE  Inductive'
  <1> USE DEF Inductive, LeaveDrafts, work, gateway, Move, Goto
  <1>1. TypeOK'
    BY WriterIsAlone DEF TypeOK, InFlight, Concluded
  <1>2. OneIsFresh' /\ PlaceIsSound' /\ ReportIsSound'
    BY WriterIsAlone DEF OneIsFresh, PlaceIsSound, ReportIsSound
  <1>3. OwnersAreFresh'
    BY WriterIsAlone DEF TypeOK, OneIsFresh, OwnersAreFresh, Concluded
  <1>4. PlanIsSound' /\ FormsAreNew' /\ WorkIsSound' /\ SamplesAreTrue'
    BY DEF PlanIsSound, FormsAreNew, WorkIsSound, SamplesAreTrue
  <1>5. WaitingIsSound'
    BY WriterIsAlone DEF WaitingIsSound, WaitingCanBeDecided
  <1>6. LedgerIsSound'
    BY DEF OwnersAreFresh, PlanIsSound, LedgerIsSound, WorkIsSound, Reading,
        Undecided, Concluded
  <1>7. WaitingCanBeDecided'
    BY DEF WaitingCanBeDecided
  <1> QED BY <1>1, <1>2, <1>3, <1>4, <1>5, <1>6, <1>7

\* Nobody else works for the case, so its ledger was empty.
LEMMA AdjustKeeps ==
    ASSUME Inductive, NEW q \in Requests, Adjust(q)
    PROVE  Inductive'
  <1> USE DEF Inductive, Adjust, MayAdjust, work, row, Raised, Goto
  <1>1. TypeOK'
    BY DEF TypeOK, InFlight
  <1>2. OneIsFresh' /\ PlaceIsSound' /\ ReportIsSound' /\ OwnersAreFresh'
    BY DEF TypeOK, OneIsFresh, PlaceIsSound, ReportIsSound, OwnersAreFresh
  <1>3. PlanIsSound' /\ FormsAreNew' /\ WaitingIsSound' /\ WaitingCanBeDecided'
    BY DEF TypeOK, PlanIsSound, FormsAreNew, WaitingIsSound, WaitingCanBeDecided
  <1>4. LedgerIsSound'
    BY DEF OwnersAreFresh, LedgerIsSound, Reading, Undecided
  <1>5. WorkIsSound'
    BY DEF TypeOK, OneIsFresh, OwnersAreFresh, PlanIsSound, WorkIsSound
  <1>6. SamplesAreTrue'
    BY DEF WorkIsSound, SamplesAreTrue
  <1> QED BY <1>1, <1>2, <1>3, <1>4, <1>5, <1>6

LEMMA VerifyKeeps ==
    ASSUME Inductive, NEW q \in Requests, Verify(q)
    PROVE  Inductive'
  <1> USE DEF Inductive, Verify, work, gateway, rowButStatus, Move, Goto
  <1>1. TypeOK'
    BY WriterIsAlone DEF TypeOK, InFlight, Settling
  <1>2. OneIsFresh' /\ PlaceIsSound' /\ ReportIsSound'
    BY WriterIsAlone DEF OneIsFresh, PlaceIsSound, ReportIsSound
  <1>3. OwnersAreFresh'
    BY WriterIsAlone DEF TypeOK, OneIsFresh, OwnersAreFresh
  <1>4. PlanIsSound' /\ FormsAreNew' /\ WorkIsSound' /\ SamplesAreTrue'
    BY DEF PlanIsSound, FormsAreNew, WorkIsSound, SamplesAreTrue
  <1>5. WaitingIsSound'
    BY WriterIsAlone DEF WaitingIsSound, WaitingCanBeDecided
  <1>6. LedgerIsSound'
    BY DEF OwnersAreFresh, LedgerIsSound, WorkIsSound, Reading, Undecided, Concluded
  <1>7. WaitingCanBeDecided'
    BY DEF WaitingCanBeDecided
  <1> QED BY <1>1, <1>2, <1>3, <1>4, <1>5, <1>6, <1>7

LEMMA CheckKeeps ==
    ASSUME Inductive, NEW q \in Requests, Check(q)
    PROVE  Inductive'
  <1> USE DEF Inductive, Check, work, gateway, Move, Goto
  <1>1. TypeOK'
    BY WriterIsAlone DEF TypeOK, InFlight, Settling, Concluded
  <1>2. OneIsFresh' /\ PlaceIsSound' /\ ReportIsSound'
    BY WriterIsAlone DEF TypeOK, OneIsFresh, PlaceIsSound, ReportIsSound
  <1>3. OwnersAreFresh'
    BY WriterIsAlone DEF TypeOK, OneIsFresh, OwnersAreFresh, Concluded
  <1>4. PlanIsSound' /\ FormsAreNew' /\ SamplesAreTrue' /\ WaitingCanBeDecided'
    BY DEF TypeOK, PlanIsSound, FormsAreNew, SamplesAreTrue, WaitingCanBeDecided
  <1>5. WaitingIsSound'
    BY WriterIsAlone DEF TypeOK, WaitingIsSound, WaitingCanBeDecided
  <1>6. LedgerIsSound'
    BY DEF OwnersAreFresh, LedgerIsSound, Reading, Undecided, Concluded
  <1>7. WorkIsSound'
    BY DEF TypeOK, OwnersAreFresh, LedgerIsSound, WorkIsSound
  <1> QED BY <1>1, <1>2, <1>3, <1>4, <1>5, <1>6, <1>7

LEMMA ReverseKeeps ==
    ASSUME Inductive, NEW q \in Requests, Reverse(q)
    PROVE  Inductive'
  <1> USE DEF Inductive, Reverse, work, row, Raised, Goto
  <1>1. TypeOK'
    BY DEF TypeOK, InFlight
  <1>2. OneIsFresh' /\ PlaceIsSound' /\ ReportIsSound' /\ OwnersAreFresh'
    BY DEF TypeOK, OneIsFresh, PlaceIsSound, ReportIsSound, OwnersAreFresh
  <1>3. PlanIsSound' /\ FormsAreNew' /\ WaitingIsSound' /\ WaitingCanBeDecided'
    BY DEF TypeOK, PlanIsSound, FormsAreNew, WaitingIsSound, WaitingCanBeDecided
  <1>4. LedgerIsSound'
    BY DEF OwnersAreFresh, LedgerIsSound
  <1>5. WorkIsSound'
    BY DEF TypeOK, OneIsFresh, OwnersAreFresh, PlanIsSound, WorkIsSound
  <1>6. SamplesAreTrue'
    BY DEF OwnersAreFresh, LedgerIsSound, SamplesAreTrue, Concluded
  <1> QED BY <1>1, <1>2, <1>3, <1>4, <1>5, <1>6

\* The reversal has undone the one posting.
LEMMA ConfirmKeeps ==
    ASSUME Inductive, NEW q \in Requests, Confirm(q)
    PROVE  Inductive'
  <1> USE DEF Inductive, Confirm, work, gateway, rowButStatus, Move, Goto
  <1>1. TypeOK'
    BY WriterIsAlone DEF TypeOK, InFlight, Concluded
  <1>2. OneIsFresh' /\ PlaceIsSound' /\ ReportIsSound'
    BY WriterIsAlone DEF OneIsFresh, PlaceIsSound, ReportIsSound
  <1>3. OwnersAreFresh'
    BY WriterIsAlone DEF TypeOK, OneIsFresh, OwnersAreFresh, LedgerIsSound,
        Concluded
  <1>4. PlanIsSound' /\ FormsAreNew' /\ WorkIsSound' /\ SamplesAreTrue'
    BY DEF PlanIsSound, FormsAreNew, WorkIsSound, SamplesAreTrue
  <1>5. WaitingIsSound'
    BY WriterIsAlone DEF WaitingIsSound, WaitingCanBeDecided
  <1>6. LedgerIsSound'
    BY DEF OwnersAreFresh, LedgerIsSound, WorkIsSound, Reading, Undecided, Concluded
  <1>7. WaitingCanBeDecided'
    BY DEF WaitingCanBeDecided
  <1> QED BY <1>1, <1>2, <1>3, <1>4, <1>5, <1>6, <1>7

\* The sample is filed by the request that came to the conclusion.
LEMMA ArchiveKeeps ==
    ASSUME Inductive, NEW q \in Requests, Archive(q)
    PROVE  Inductive'
  <1> USE DEF Inductive, Archive, work, gateway, Goto
  <1>1. TypeOK'
    BY DEF TypeOK, InFlight, Label
  <1>2. OneIsFresh' /\ PlaceIsSound' /\ ReportIsSound' /\ OwnersAreFresh'
    BY DEF OneIsFresh, PlaceIsSound, ReportIsSound, OwnersAreFresh
  <1>3. PlanIsSound' /\ FormsAreNew' /\ WaitingIsSound' /\ WorkIsSound'
    BY DEF PlanIsSound, FormsAreNew, WaitingIsSound, WorkIsSound
  <1>4. LedgerIsSound'
    BY DEF OwnersAreFresh, LedgerIsSound
  <1>5. SamplesAreTrue'
    BY DEF OwnersAreFresh, LedgerIsSound, SamplesAreTrue, Concluded, Label
  <1>6. WaitingCanBeDecided'
    BY DEF WaitingCanBeDecided
  <1> QED BY <1>1, <1>2, <1>3, <1>4, <1>5, <1>6

LEMMA CloseKeeps ==
    ASSUME Inductive, NEW q \in Requests, Close(q)
    PROVE  Inductive'
  <1> USE DEF Inductive, Close, work, gateway, rowButStatus, Move, Goto
  <1>1. TypeOK'
    BY WriterIsAlone DEF TypeOK, InFlight, Concluded
  <1>2. OneIsFresh' /\ PlaceIsSound' /\ ReportIsSound'
    BY WriterIsAlone DEF TypeOK, OneIsFresh, PlaceIsSound, ReportIsSound
  <1>3. OwnersAreFresh'
    BY WriterIsAlone DEF TypeOK, OneIsFresh, OwnersAreFresh
  <1>4. PlanIsSound' /\ FormsAreNew' /\ WaitingIsSound' /\ WorkIsSound'
    BY DEF TypeOK, PlanIsSound, FormsAreNew, WaitingIsSound, WorkIsSound
  <1>5. LedgerIsSound'
    BY DEF LedgerIsSound, Reading, Undecided, Concluded
  <1>6. SamplesAreTrue' /\ WaitingCanBeDecided'
    BY DEF SamplesAreTrue, WaitingCanBeDecided
  <1> QED BY <1>1, <1>2, <1>3, <1>4, <1>5, <1>6

LEMMA ExportKeeps ==
    ASSUME Inductive, NEW q \in Requests, Export(q)
    PROVE  Inductive'
  <1> USE DEF Inductive, Export, work, gateway, row, Goto
  <1>1. TypeOK'
    BY WriterIsAlone DEF TypeOK
  <1>2. OneIsFresh' /\ PlaceIsSound' /\ ReportIsSound' /\ WaitingIsSound'
    BY WriterIsAlone DEF OneIsFresh, PlaceIsSound, ReportIsSound, WaitingIsSound
  <1>3. OwnersAreFresh'
    BY WriterIsAlone DEF OneIsFresh, OwnersAreFresh, Concluded
  <1>4. PlanIsSound' /\ FormsAreNew' /\ LedgerIsSound' /\ WorkIsSound'
    BY DEF PlanIsSound, FormsAreNew, LedgerIsSound, WorkIsSound
  <1>5. SamplesAreTrue' /\ WaitingCanBeDecided'
    BY DEF SamplesAreTrue, WaitingCanBeDecided
  <1> QED BY <1>1, <1>2, <1>3, <1>4, <1>5

\* A person who decides does not turn the case over when something raises.
LEMMA RaiseKeeps ==
    ASSUME Inductive, NEW q \in Requests, Raise(q)
    PROVE  Inductive'
  <1> USE DEF Inductive, Raise, work, gateway, row, Raised, Goto
  <1>1. TypeOK'
    BY DEF TypeOK
  <1>2. OneIsFresh' /\ PlaceIsSound' /\ ReportIsSound' /\ OwnersAreFresh'
    BY DEF OneIsFresh, PlaceIsSound, ReportIsSound, OwnersAreFresh
  <1>3. PlanIsSound' /\ FormsAreNew' /\ LedgerIsSound' /\ WorkIsSound'
    BY DEF PlanIsSound, FormsAreNew, LedgerIsSound, WorkIsSound
  <1>4. WaitingIsSound'
    BY DEF PlanIsSound, WaitingIsSound, InFlight
  <1>5. SamplesAreTrue' /\ WaitingCanBeDecided'
    BY DEF SamplesAreTrue, WaitingCanBeDecided
  <1> QED BY <1>1, <1>2, <1>3, <1>4, <1>5

\* A failure turns a case over that nobody works for.
LEMMA FailKeeps ==
    ASSUME Inductive, NEW q \in Requests, Fail(q)
    PROVE  Inductive'
  <1> USE DEF Inductive, Fail, work, gateway, rowButStatus, Move, Goto
  <1>1. TypeOK'
    BY WriterIsAlone DEF TypeOK, Concluded
  <1>2. OneIsFresh' /\ PlaceIsSound' /\ ReportIsSound'
    BY WriterIsAlone DEF OneIsFresh, PlaceIsSound, ReportIsSound
  <1>3. OwnersAreFresh'
    BY WriterIsAlone DEF OneIsFresh, OwnersAreFresh, Concluded
  <1>4. PlanIsSound' /\ FormsAreNew' /\ WorkIsSound' /\ SamplesAreTrue'
    BY DEF PlanIsSound, FormsAreNew, WorkIsSound, SamplesAreTrue
  <1>5. WaitingIsSound'
    BY WriterIsAlone DEF WaitingIsSound, WaitingCanBeDecided
  <1>6. LedgerIsSound'
    BY DEF LedgerIsSound, Reading, Undecided, Concluded
  <1>7. WaitingCanBeDecided'
    BY DEF WaitingCanBeDecided
  <1> QED BY <1>1, <1>2, <1>3, <1>4, <1>5, <1>6, <1>7

LEMMA DieKeeps ==
    ASSUME Inductive, NEW q \in Requests, Die(q)
    PROVE  Inductive'
  <1> USE DEF Inductive, Die, work, gateway, row, Goto
  <1>1. TypeOK'
    BY DEF TypeOK
  <1>2. OneIsFresh' /\ PlaceIsSound' /\ ReportIsSound' /\ OwnersAreFresh'
    BY DEF OneIsFresh, PlaceIsSound, ReportIsSound, OwnersAreFresh
  <1>3. PlanIsSound' /\ FormsAreNew' /\ WaitingIsSound' /\ LedgerIsSound'
    BY DEF PlanIsSound, FormsAreNew, WaitingIsSound, LedgerIsSound
  <1>4. WorkIsSound' /\ SamplesAreTrue' /\ WaitingCanBeDecided'
    BY DEF WorkIsSound, SamplesAreTrue, WaitingCanBeDecided
  <1> QED BY <1>1, <1>2, <1>3, <1>4

-----------------------------------------------------------------------------

LEMMA InitIsInductive == Init => Inductive
  <1> SUFFICES ASSUME Init PROVE Inductive
    OBVIOUS
  <1> USE NoOneAssumption DEF Init
  <1>1. TypeOK
    BY DEF TypeOK, InFlight, Undecided, Reading, Stages
  <1>2. OneIsFresh /\ PlaceIsSound /\ ReportIsSound /\ OwnersAreFresh
    BY DEF OneIsFresh, PlaceIsSound, ReportIsSound, OwnersAreFresh
  <1>3. PlanIsSound /\ FormsAreNew /\ WaitingIsSound /\ WorkIsSound
    BY DEF PlanIsSound, FormsAreNew, WaitingIsSound, WorkIsSound
  <1>4. LedgerIsSound /\ SamplesAreTrue /\ WaitingCanBeDecided
    BY DEF LedgerIsSound, SamplesAreTrue, WaitingCanBeDecided, Undecided, Reading
  <1> QED BY <1>1, <1>2, <1>3, <1>4 DEF Inductive

LEMMA RestKeeps ==
    ASSUME Inductive, UNCHANGED vars
    PROVE  Inductive'
  BY DEF vars, row, gateway, work, Inductive, TypeOK, OneIsFresh, PlaceIsSound,
         ReportIsSound, OwnersAreFresh, PlanIsSound, FormsAreNew, WaitingIsSound,
         LedgerIsSound, WorkIsSound, SamplesAreTrue, WaitingCanBeDecided

LEMMA NextKeeps ==
    ASSUME Inductive, [Next]_vars
    PROVE  Inductive'
  BY RestKeeps,
     OtherWriteKeeps, ReceiveKeeps, SupplyKeeps, EnterStageKeeps,
     FinishStageKeeps, EscalateKeeps, SaveRiskKeeps, RouteKeeps, AskKeeps,
     AskedKeeps, SimulateKeeps, DecidedKeeps, ReadForDecisionKeeps, DecideKeeps,
     RebuildKeeps, ExecuteKeeps, LeaveDraftsKeeps, AdjustKeeps, VerifyKeeps,
     CheckKeeps, ReverseKeeps, ConfirmKeeps, ArchiveKeeps, CloseKeeps,
     ExportKeeps, RaiseKeeps, FailKeeps, DieKeeps
     DEF Next

\* The invariant of the proofs holds in every state of every behaviour.
THEOREM WorkflowInductive == Spec => []Inductive
  BY InitIsInductive, NextKeeps, PTL DEF Spec

\* However requests race, fail or die, what _finalize files for evaluation is
\* what happened: a golden sample never comes from a case whose posting was
\* reversed, and a safe rollback always does.
THEOREM WorkflowSamplesAreTrue == Spec => []SamplesAreTrue
  <1>1. Inductive => SamplesAreTrue
    BY DEF Inductive
  <1> QED BY <1>1, WorkflowInductive, PTL

\* A case that waits for a decision names the form of its own plan, and the
\* form is open unless the simulated approver has decided it: no case waits for
\* a form that is not there.
THEOREM WorkflowWaitingCanBeDecided == Spec => []WaitingCanBeDecided
  <1>1. Inductive => WaitingCanBeDecided
    BY DEF Inductive
  <1> QED BY <1>1, WorkflowInductive, PTL

-----------------------------------------------------------------------------
(* The refinement.  A step maps to a grant, a posting, a reversal or a      *)
(* conclusion of CaseVerdict, or to no step.                                *)

Granted == {q \in Requests : gate[q] = "APPROVED"}

\* Most steps show nothing outside: forms and ledger are as they were, and the
\* case is as open, or as concluded, as before.
LEMMA NothingShows ==
    ASSUME Granted' = Granted, UNCHANGED <<posted, undone>>, Verdict' = Verdict
    PROVE  UNCHANGED Promise!vars
  BY DEF Granted, Promise!vars

\* Steps that leave status and verification alone.
LEMMA RowIsQuiet ==
    ASSUME Granted' = Granted, UNCHANGED <<posted, undone, status, verification>>
    PROVE  UNCHANGED Promise!vars
  BY NothingShows DEF Verdict

\* Steps of a case that has no conclusion before or after them.
Open == Undecided \cup Settling

LEMMA OpenIsQuiet ==
    ASSUME Granted' = Granted, UNCHANGED <<posted, undone>>,
           status \in Open, status' \in Open
    PROVE  UNCHANGED Promise!vars
  BY NothingShows DEF Verdict, Open, Undecided, Settling, Reading

LEMMA SimulateImplements ==
    ASSUME Inductive, NEW q \in Requests, Simulate(q)
    PROVE  Promise!Grant(q)
  <1> USE DEF Inductive, Simulate, row
  <1>1. status = "WAITING_FOR_APPROVAL" /\ posted = {}
    BY DEF WaitingIsSound, LedgerIsSound, Undecided
  <1>2. Granted' = Granted \cup {q}
    BY DEF Granted, TypeOK
  <1> QED BY <1>1, <1>2 DEF Granted, Verdict, Promise!Grant

LEMMA DecideImplements ==
    ASSUME Inductive, NEW q \in Requests, Decide(q)
    PROVE  \/ \E p \in Requests : Promise!Grant(p)
           \/ Promise!Conclude("untouched")
  <1> USE DEF Inductive, Decide
  <1>1. /\ status = "WAITING_FOR_APPROVAL" /\ stored \in Requests
        /\ posted = {} /\ verification = "NONE"
    BY WriterIsAlone DEF Move, PlaceIsSound, WaitingIsSound, LedgerIsSound, Undecided
  <1>2. PICK d \in {"APPROVED", "REJECTED"} :
           /\ status' = IF d = "APPROVED" THEN "READY_TO_EXECUTE" ELSE "REJECTED"
           /\ gate' = [gate EXCEPT ![stored] = d]
    BY DEF Move
  <1>3. CASE d = "APPROVED"
    <2>1. Granted' = Granted \cup {stored}
      BY <1>1, <1>2, <1>3 DEF Granted, TypeOK
    <2> QED BY <1>1, <1>2, <1>3, <2>1 DEF Granted, Verdict, Promise!Grant
  <1>4. CASE d = "REJECTED"
    <2>1. Granted' = Granted
      BY <1>1, <1>2, <1>4 DEF Granted, TypeOK
    <2> QED BY <1>1, <1>2, <1>4, <2>1 DEF Granted, Verdict, Promise!Conclude
  <1> QED BY <1>2, <1>3, <1>4

\* What posts was granted, and the ledger was empty.
LEMMA AdjustImplements ==
    ASSUME Inductive, NEW q \in Requests, Adjust(q)
    PROVE  Promise!Post(plan[q])
  <1> USE DEF Inductive, Adjust, row
  <1>1. status = "EXECUTING" /\ posted = {} /\ plan[q] = report /\ held[q] = report
    BY DEF OwnersAreFresh, WorkIsSound, PlanIsSound, MayAdjust
  <1>2. plan[q] \in Granted
    BY <1>1 DEF Granted, MayAdjust, TypeOK
  <1>3. Granted' = Granted
    BY DEF Granted
  <1> QED BY <1>1, <1>2, <1>3 DEF Granted, Verdict, Promise!Post

LEMMA ReverseImplements ==
    ASSUME Inductive, NEW q \in Requests, Reverse(q)
    PROVE  Promise!Undo
  <1> USE DEF Inductive, Reverse, row
  <1>1. /\ status = "ROLLBACK_REQUIRED" /\ posted = {report} /\ undone = {}
        /\ plan[q] = report
    BY DEF OwnersAreFresh, WorkIsSound, PlanIsSound, LedgerIsSound
  <1>2. Granted' = Granted
    BY DEF Granted
  <1> QED BY <1>1, <1>2 DEF Granted, Verdict, Promise!Undo

\* Nothing to adjust, a draft or work for people: nothing was posted.
LEMMA RouteImplements ==
    ASSUME Inductive, NEW q \in Requests, Route(q)
    PROVE  Promise!Conclude("untouched") \/ UNCHANGED Promise!vars
  <1> USE DEF Inductive, Route, Move, rowButStatus, gateway
  <1>1. status = "RISK_REVIEW" /\ posted = {} /\ verification = "NONE"
    BY WriterIsAlone DEF PlaceIsSound, LedgerIsSound, Undecided, Reading
  <1>2. Granted' = Granted
    BY DEF Granted
  <1>3. CASE status' = "READY_TO_EXECUTE"
    BY <1>1, <1>2, <1>3, OpenIsQuiet DEF Open, Undecided, Reading
  <1>4. CASE status' \in {"RESOLVED", "CLOSED"}
    BY <1>1, <1>2, <1>4 DEF Granted, Verdict, Promise!Conclude
  <1> QED BY <1>3, <1>4

LEMMA LeaveDraftsImplements ==
    ASSUME Inductive, NEW q \in Requests, LeaveDrafts(q)
    PROVE  Promise!Conclude("untouched")
  <1> USE DEF Inductive, LeaveDrafts, Move, gateway
  <1>1. status = "EXECUTING" /\ posted = {}
    BY DEF OwnersAreFresh, WorkIsSound
  <1>2. Granted' = Granted
    BY DEF Granted
  <1> QED BY <1>1, <1>2 DEF Granted, Verdict, Promise!Conclude

LEMMA CheckImplements ==
    ASSUME Inductive, NEW q \in Requests, Check(q)
    PROVE  Promise!Conclude("settled") \/ UNCHANGED Promise!vars
  <1> USE DEF Inductive, Check, Move, gateway
  <1>1. status = "VERIFYING" /\ posted # {} /\ undone = {}
    BY DEF OwnersAreFresh, LedgerIsSound
  <1>2. Granted' = Granted
    BY DEF Granted
  <1>3. CASE status' = "RESOLVED" /\ verification' = "PASSED"
    BY <1>1, <1>2, <1>3 DEF Granted, Verdict, Promise!Conclude
  <1>4. CASE status' = "ROLLBACK_REQUIRED"
    BY <1>1, <1>2, <1>4, OpenIsQuiet DEF Open, Settling
  <1> QED BY <1>3, <1>4

LEMMA ConfirmImplements ==
    ASSUME Inductive, NEW q \in Requests, Confirm(q)
    PROVE  Promise!Conclude("undone") \/ Promise!Conclude("unclear")
  <1> USE DEF Inductive, Confirm, Move, rowButStatus, gateway
  <1>1. status = "ROLLBACK_REQUIRED" /\ undone # {}
    BY DEF OwnersAreFresh, WorkIsSound
  <1>2. Granted' = Granted
    BY DEF Granted
  <1> QED BY <1>1, <1>2 DEF Granted, Verdict, Promise!Conclude

\* A concluded case may be given up, but not one that was reversed.
LEMMA FailImplements ==
    ASSUME NEW q \in Requests, Fail(q)
    PROVE  Promise!Conclude("unclear")
  <1> USE DEF Fail, Move, rowButStatus, gateway
  <1>1. Verdict \in {"none", "settled", "untouched"}
    BY DEF Verdict
  <1>2. Granted' = Granted
    BY DEF Granted
  <1> QED BY <1>1, <1>2 DEF Granted, Verdict, Promise!Conclude

\* An archived case says what it said before.
LEMMA CloseImplements ==
    ASSUME Inductive, NEW q \in Requests, Close(q)
    PROVE  UNCHANGED Promise!vars
  <1> USE DEF Inductive, Close, Move, rowButStatus, gateway
  <1>1. Verdict' = Verdict
    BY DEF Verdict, LedgerIsSound
  <1>2. Granted' = Granted
    BY DEF Granted
  <1> QED BY <1>1, <1>2, NothingShows

\* A form that is asked for is granted to nobody yet.
LEMMA AskImplements ==
    ASSUME Inductive, NEW q \in Requests, Ask(q)
    PROVE  UNCHANGED Promise!vars
  <1>1. Granted' = Granted
    BY DEF Inductive, Ask, Granted, TypeOK, FormsAreNew
  <1> QED BY <1>1, RowIsQuiet DEF Ask, row

\* The steps between the statuses of an open case.
LEMMA OpenStepsImplement ==
    ASSUME Inductive, NEW q \in Requests,
           \/ EnterStage(q) \/ Escalate(q) \/ Asked(q) \/ Decided(q)
           \/ Execute(q) \/ Verify(q)
    PROVE  UNCHANGED Promise!vars
  <1> USE WriterIsAlone DEF Inductive, Move, rowButStatus, gateway
  <1>1. /\ Granted' = Granted
        /\ UNCHANGED <<posted, undone>>
    BY DEF EnterStage, Escalate, Asked, Decided, Execute, Verify, Granted
  <1>2. CASE EnterStage(q)
    BY <1>1, <1>2, StatusOfIsReading, OpenIsQuiet
       DEF EnterStage, TypeOK, PlaceIsSound, Open, Undecided
  <1>3. CASE Escalate(q)
    BY <1>1, <1>3, StatusOfIsReading, OpenIsQuiet
       DEF Escalate, TypeOK, PlaceIsSound, Open, Undecided, Reading
  <1>4. CASE Asked(q)
    BY <1>1, <1>4, OpenIsQuiet DEF Asked, PlaceIsSound, Open, Undecided, Reading
  <1>5. CASE Decided(q)
    BY <1>1, <1>5, OpenIsQuiet DEF Decided, PlaceIsSound, Open, Undecided, Reading
  <1>6. CASE Execute(q)
    BY <1>1, <1>6, OpenIsQuiet DEF Execute, OwnersAreFresh, Open, Undecided, Settling
  <1>7. CASE Verify(q)
    BY <1>1, <1>7, OpenIsQuiet DEF Verify, OwnersAreFresh, Open, Settling
  <1> QED BY <1>2, <1>3, <1>4, <1>5, <1>6, <1>7

\* The steps that write neither the status nor what is outside.
LEMMA QuietStepsImplement ==
    ASSUME NEW q \in Requests,
           \/ Receive(q) \/ Supply(q) \/ FinishStage(q) \/ SaveRisk(q)
           \/ ReadForDecision(q) \/ Rebuild(q) \/ Archive(q) \/ Export(q)
           \/ Raise(q) \/ Die(q)
    PROVE  UNCHANGED Promise!vars
  <1>1. UNCHANGED <<gate, posted, undone, status, verification>>
    BY DEF Receive, Supply, FinishStage, SaveRisk, ReadForDecision, Rebuild, Archive,
           Export, Raise, Die, row, gateway
  <1>2. Granted' = Granted
    BY <1>1 DEF Granted
  <1> QED BY <1>1, <1>2, RowIsQuiet

LEMMA NextImplements ==
    ASSUME Inductive, [Next]_vars
    PROVE  [Promise!Next]_(Promise!vars)
  <1>1. ASSUME NEW q \in Requests,
               \/ Receive(q) \/ Supply(q) \/ FinishStage(q) \/ SaveRisk(q)
               \/ ReadForDecision(q) \/ Rebuild(q) \/ Archive(q) \/ Export(q)
               \/ Raise(q) \/ Die(q) \/ Close(q) \/ Ask(q)
               \/ EnterStage(q) \/ Escalate(q) \/ Asked(q) \/ Decided(q)
               \/ Execute(q) \/ Verify(q)
        PROVE  UNCHANGED Promise!vars
    BY <1>1, QuietStepsImplement, OpenStepsImplement, AskImplements, CloseImplements
  <1>2. ASSUME NEW q \in Requests,
               \/ Route(q) \/ LeaveDrafts(q) \/ Check(q) \/ Confirm(q) \/ Fail(q)
        PROVE  \/ \E v \in {"settled", "undone", "untouched", "unclear"} :
                     Promise!Conclude(v)
               \/ UNCHANGED Promise!vars
    BY <1>2, RouteImplements, LeaveDraftsImplements, CheckImplements,
       ConfirmImplements, FailImplements
  <1>3. ASSUME NEW q \in Requests, Simulate(q) \/ Decide(q) \/ Adjust(q) \/ Reverse(q)
        PROVE  Promise!Next
    <2>1. CASE Simulate(q)
      BY <2>1, SimulateImplements DEF Promise!Next
    <2>2. CASE Decide(q)
      BY <2>2, DecideImplements DEF Promise!Next
    <2>3. CASE Adjust(q)
      <3>1. plan[q] \in Requests
        BY DEF Inductive, TypeOK
      <3> QED BY <2>3, <3>1, AdjustImplements DEF Promise!Next
    <2>4. CASE Reverse(q)
      BY <2>4, ReverseImplements DEF Promise!Next
    <2> QED BY <1>3, <2>1, <2>2, <2>3, <2>4
  <1>4. CASE OtherWrite \/ UNCHANGED vars
    <2>1. UNCHANGED <<gate, posted, undone, status, verification>>
      BY <1>4 DEF OtherWrite, vars, row, gateway
    <2>2. Granted' = Granted
      BY <2>1 DEF Granted
    <2> QED BY <2>1, <2>2, RowIsQuiet
  <1> QED BY <1>1, <1>2, <1>3, <1>4 DEF Next, Promise!Next

\* The in-process orchestrator implements CaseVerdict: one plan posts at most,
\* only a granted one and only before the case has a conclusion, and the
\* conclusion a case shows is what its posting and reversal left in the ledger.
THEOREM WorkflowImplementsCaseVerdict == Spec => ImplementsCaseVerdict
  <1>1. Init => Promise!Init
    BY DEF Init, Promise!Init, Verdict
  <1>2. Inductive /\ [Next]_vars => [Promise!Next]_(Promise!vars)
    BY NextImplements
  <1> QED BY <1>1, <1>2, WorkflowInductive, PTL
          DEF Spec, ImplementsCaseVerdict, Promise!Spec

-----------------------------------------------------------------------------
(* Stage tasks: every action keeps the tables sound *)


LEMMA NewTasksAreSound == T!Init => T!Inductive
  BY BoundsAreNumbers
     DEF T!Init, T!Inductive, T!TypeOK, T!ResultsMatchTasks, T!AttemptsHaveOneExecution,
         T!NewRowsAreBlank, T!EffectsFitTheTask, T!Versions, T!Attempts, T!TaskStatus, T!Outcomes

-----------------------------------------------------------------------------
(* Writing a row *)

LEMMA DispatchKeeps ==
    ASSUME T!Inductive, NEW t \in Tasks, T!DispatchTask(t)
    PROVE  T!Inductive'
  <1> USE BoundsAreNumbers, NoTaskIsNoTask DEF T!Inductive, T!DispatchTask, T!Create
  <1>1. T!TypeOK'
    BY DEF T!TypeOK, T!Versions, T!executions
  <1>2. T!ResultsMatchTasks'
    BY DEF T!ResultsMatchTasks
  <1>3. T!AttemptsHaveOneExecution'
    BY DEF T!AttemptsHaveOneExecution, T!executions
  <1>4. T!NewRowsAreBlank'
    BY DEF T!TypeOK, T!NewRowsAreBlank
  <1>5. T!EffectsFitTheTask'
    BY DEF T!TypeOK, T!NewRowsAreBlank, T!EffectsFitTheTask
  <1> QED BY <1>1, <1>2, <1>3, <1>4, <1>5

LEMMA ReassignKeeps ==
    ASSUME T!Inductive, NEW t \in Tasks, NEW old \in Tasks \ {t}, T!Reassign(t, old)
    PROVE  T!Inductive'
  <1> USE BoundsAreNumbers, NoTaskIsNoTask DEF T!Inductive, T!Reassign, T!Create
  <1>1. T!TypeOK'
    BY DEF T!TypeOK, T!Versions, T!executions
  <1>2. T!ResultsMatchTasks'
    BY DEF T!ResultsMatchTasks
  <1>3. T!AttemptsHaveOneExecution'
    BY DEF T!AttemptsHaveOneExecution, T!executions
  <1>4. T!NewRowsAreBlank'
    BY DEF T!TypeOK, T!NewRowsAreBlank, T!Versions
  <1>5. T!EffectsFitTheTask'
    BY DEF T!TypeOK, T!NewRowsAreBlank, T!EffectsFitTheTask
  <1> QED BY <1>1, <1>2, <1>3, <1>4, <1>5

LEMMA SaveKeeps ==
    ASSUME T!Inductive, NEW t \in Tasks, T!SaveTask(t)
    PROVE  T!Inductive'
  <1> USE BoundsAreNumbers, NoTaskIsNoTask DEF T!Inductive, T!SaveTask
  <1>1. T!TypeOK'
    BY DEF T!TypeOK, T!TaskStatus, T!OpenTask, T!executions
  <1>2. taskStatus[t] = "ABSENT" /\ attempt[t] = 0
    BY DEF T!NewRowsAreBlank
  <1>3. T!ResultsMatchTasks'
    BY <1>2 DEF T!TypeOK, T!ResultsMatchTasks, T!Outcomes, T!Attempts
  <1>4. T!AttemptsHaveOneExecution'
    BY <1>2 DEF T!TypeOK, T!AttemptsHaveOneExecution, T!executions
  <1>5. T!NewRowsAreBlank'
    BY <1>2 DEF T!TypeOK, T!NewRowsAreBlank
  <1>6. T!EffectsFitTheTask'
    BY DEF T!EffectsFitTheTask
  <1> QED BY <1>1, <1>3, <1>4, <1>5, <1>6

LEMMA ReplaceKeeps ==
    ASSUME T!Inductive, NEW t \in Tasks, T!Replace(t)
    PROVE  T!Inductive'
  <1> USE BoundsAreNumbers, NoTaskIsNoTask DEF T!Inductive
  <1>1. CASE ~T!MayReplace(supersedes[t])
    <2>1. /\ supersedes' = [supersedes EXCEPT ![t] = NoTask]
          /\ origin' = [origin EXCEPT ![t] = "NOBODY"]
          /\ UNCHANGED <<version, taskStatus, attempt, bound, results, effects, T!executions>>
      BY <1>1 DEF T!Replace
    <2>2. T!TypeOK'
      BY <2>1 DEF T!TypeOK, T!executions
    <2>3. T!ResultsMatchTasks' /\ T!EffectsFitTheTask' /\ T!AttemptsHaveOneExecution'
      BY <2>1 DEF T!ResultsMatchTasks, T!EffectsFitTheTask, T!AttemptsHaveOneExecution, T!executions
    <2>4. T!NewRowsAreBlank'
      BY <2>1 DEF T!TypeOK, T!NewRowsAreBlank
    <2> QED BY <2>2, <2>3, <2>4
  <1>2. CASE T!MayReplace(supersedes[t])
    <2> DEFINE old == supersedes[t]
    <2>1. /\ taskStatus' = [taskStatus EXCEPT ![old] = "CANCELLED", ![t] = "PENDING"]
          /\ origin' = [origin EXCEPT ![t] = "NOBODY"]
          /\ UNCHANGED <<version, attempt, bound, supersedes, results, effects, T!executions>>
      BY <1>2 DEF T!Replace
    <2>2. /\ taskStatus[t] = "ABSENT" /\ attempt[t] = 0
          /\ old \in Tasks \ {t} /\ taskStatus[old] # "ABSENT"
      BY DEF T!Replace, T!NewRowsAreBlank
    <2>3. taskStatus[old] \in {"FAILED_RETRYABLE", "FAILED_FINAL", "CANCELLED"}
      BY <1>2 DEF T!MayReplace, T!Replaceable
    <2>4. /\ taskStatus'[t] = "PENDING" /\ taskStatus'[old] = "CANCELLED"
          /\ \A s \in Tasks \ {t, old} : taskStatus'[s] = taskStatus[s]
      BY <2>1, <2>2 DEF T!TypeOK
    <2>5. T!TypeOK'
      BY <2>1 DEF T!TypeOK, T!TaskStatus, T!OpenTask, T!Ended, T!executions
    <2>6. T!ResultsMatchTasks'
      <3>1. \A x \in results :
              /\ x.attempt \in 1..attempt[x.task]
              /\ x.attempt < attempt[x.task] => x.status = "FAILED_RETRYABLE"
              /\ x.attempt = attempt[x.task] =>
                   \/ x.status = taskStatus'[x.task]
                   \/ /\ taskStatus'[x.task] = "CANCELLED"
                      /\ x.status \in {"FAILED_RETRYABLE", "FAILED_FINAL"}
        BY <2>2, <2>3, <2>4 DEF T!TypeOK, T!ResultsMatchTasks
      <3>2. \A s \in Tasks : taskStatus'[s] \in T!Outcomes => taskStatus'[s] = taskStatus[s]
        BY <2>4 DEF T!Outcomes
      <3>3. \A s \in Tasks :
               /\ taskStatus'[s] \in T!Outcomes =>
                    [task |-> s, attempt |-> attempt[s], status |-> taskStatus'[s]] \in results
               /\ \A n \in 1..(attempt[s] - 1) :
                    [task |-> s, attempt |-> n, status |-> "FAILED_RETRYABLE"] \in results
        BY <3>2 DEF T!ResultsMatchTasks
      <3>4. \A x, y \in results : x.task = y.task /\ x.attempt = y.attempt => x = y
        BY DEF T!ResultsMatchTasks
      <3>5. attempt' = attempt /\ results' = results
        BY <2>1
      <3> QED BY <3>1, <3>3, <3>4, <3>5 DEF T!ResultsMatchTasks
    <2>7. T!AttemptsHaveOneExecution'
      BY <2>1, <2>2, <2>3, <2>4 DEF T!TypeOK, T!AttemptsHaveOneExecution, T!executions
    <2>8. T!NewRowsAreBlank'
      BY <2>1, <2>2, <2>3, <2>4 DEF T!TypeOK, T!NewRowsAreBlank
    <2>9. T!EffectsFitTheTask'
      BY <2>1 DEF T!EffectsFitTheTask
    <2> QED BY <2>5, <2>6, <2>7, <2>8, <2>9
  <1> QED BY <1>1, <1>2

-----------------------------------------------------------------------------
(* Executing it *)

LEMMA ValidateKeeps ==
    ASSUME T!Inductive, NEW e \in Executions, NEW t \in Tasks, T!Validate(e, t)
    PROVE  T!Inductive'
  <1> USE BoundsAreNumbers, NoTaskIsNoTask DEF T!Inductive, T!Validate
  <1>1. T!TypeOK'
    BY DEF T!TypeOK, T!rows
  <1>2. T!ResultsMatchTasks' /\ T!NewRowsAreBlank' /\ T!EffectsFitTheTask'
    BY DEF T!ResultsMatchTasks, T!NewRowsAreBlank, T!EffectsFitTheTask, T!rows
  <1>3. T!AttemptsHaveOneExecution'
    BY DEF T!TypeOK, T!AttemptsHaveOneExecution, T!Valid, T!Claimable, T!rows
  <1> QED BY <1>1, <1>2, <1>3

\* The attempt claimed is new: nothing has run on it and it has no result.
LEMMA ClaimKeeps ==
    ASSUME T!Inductive, NEW e \in Executions, T!Claim(e)
    PROVE  T!Inductive'
  <1> USE BoundsAreNumbers, NoTaskIsNoTask DEF T!Inductive
  <1> DEFINE t == job[e]
  <1>1. /\ taskStep[e] = "validated" /\ attempt[t] < MaxAttempts
        /\ taskStatus[t] \in {"PENDING", "FAILED_RETRYABLE"}
        /\ taskStatus' = [taskStatus EXCEPT ![t] = "RUNNING"]
        /\ attempt' = [attempt EXCEPT ![t] = @ + 1]
        /\ taskStep' = [taskStep EXCEPT ![e] = "running"]
        /\ claim' = [claim EXCEPT ![e] = attempt[t] + 1]
        /\ UNCHANGED <<version, bound, supersedes, results, effects, origin, job>>
    BY DEF T!Claim, T!Valid, T!Claimable
  <1>2. t \in Tasks /\ attempt[t] \in Nat
    BY <1>1 DEF T!AttemptsHaveOneExecution, T!TypeOK, T!Attempts
  <1>3. T!TypeOK'
    BY <1>1, <1>2 DEF T!TypeOK, T!TaskStatus, T!OpenTask, T!Attempts
  <1>4. \A f \in Executions : taskStep[f] = "running" => job[f] # t
    BY <1>1 DEF T!AttemptsHaveOneExecution
  <1>5. T!ResultsMatchTasks'
    <2>1. \A x \in results : x.task = t /\ x.attempt = attempt[t] => x.status = "FAILED_RETRYABLE"
      BY <1>1, <1>2 DEF T!TypeOK, T!ResultsMatchTasks, T!Outcomes
    <2>2. \A x \in results :
              /\ x.attempt \in 1..attempt'[x.task]
              /\ x.attempt < attempt'[x.task] => x.status = "FAILED_RETRYABLE"
              /\ x.attempt = attempt'[x.task] =>
                   \/ x.status = taskStatus'[x.task]
                   \/ /\ taskStatus'[x.task] = "CANCELLED"
                      /\ x.status \in {"FAILED_RETRYABLE", "FAILED_FINAL"}
      BY <1>1, <1>2, <2>1 DEF T!TypeOK, T!ResultsMatchTasks, T!Attempts
    <2>3. \A n \in 1..attempt[t] :
             [task |-> t, attempt |-> n, status |-> "FAILED_RETRYABLE"] \in results
      <3>1. CASE taskStatus[t] = "PENDING"
        BY <3>1, <1>2 DEF T!NewRowsAreBlank
      <3>2. CASE taskStatus[t] = "FAILED_RETRYABLE"
        <4>1. [task |-> t, attempt |-> attempt[t], status |-> "FAILED_RETRYABLE"] \in results
          BY <3>2, <1>2 DEF T!ResultsMatchTasks, T!Outcomes
        <4>2. \A n \in 1..(attempt[t] - 1) :
                 [task |-> t, attempt |-> n, status |-> "FAILED_RETRYABLE"] \in results
          BY <1>2 DEF T!ResultsMatchTasks
        <4>3. \A n \in 1..attempt[t] : n = attempt[t] \/ n \in 1..(attempt[t] - 1)
          BY <1>2
        <4> QED BY <4>1, <4>2, <4>3
      <3> QED BY <1>1, <3>1, <3>2
    <2>4. \A s \in Tasks :
             /\ taskStatus'[s] \in T!Outcomes =>
                  [task |-> s, attempt |-> attempt'[s], status |-> taskStatus'[s]] \in results
             /\ \A n \in 1..(attempt'[s] - 1) :
                  [task |-> s, attempt |-> n, status |-> "FAILED_RETRYABLE"] \in results
      BY <1>1, <1>2, <2>3 DEF T!TypeOK, T!ResultsMatchTasks, T!Outcomes
    <2>5. \A x, y \in results : x.task = y.task /\ x.attempt = y.attempt => x = y
      BY DEF T!ResultsMatchTasks
    <2> QED BY <1>1, <2>2, <2>4, <2>5 DEF T!ResultsMatchTasks
  <1>6. T!AttemptsHaveOneExecution'
    BY <1>1, <1>2, <1>4 DEF T!TypeOK, T!AttemptsHaveOneExecution
  <1>7. T!NewRowsAreBlank'
    BY <1>1, <1>2 DEF T!TypeOK, T!NewRowsAreBlank
  <1>8. T!EffectsFitTheTask'
    BY <1>1, <1>2 DEF T!TypeOK, T!EffectsFitTheTask, T!Attempts
  <1> QED BY <1>3, <1>5, <1>6, <1>7, <1>8

LEMMA CallKeeps ==
    ASSUME T!Inductive, NEW e \in Executions, T!CallTool(e)
    PROVE  T!Inductive'
  <1> USE BoundsAreNumbers, NoTaskIsNoTask DEF T!Inductive
  <1> DEFINE t == job[e]
  <1>1. /\ taskStep[e] = "running" /\ taskStatus[t] = "RUNNING"
        /\ claim[e] = attempt[t] /\ bound[t] = version
        /\ effects' = effects \cup {[task |-> t, attempt |-> claim[e], version |-> version]}
        /\ UNCHANGED <<version, T!rows, results, origin, T!executions>>
    BY DEF T!CallTool, T!ClaimIsActive, T!Holds
  <1>2. t \in Tasks /\ attempt[t] \in T!Attempts \ {0}
    BY <1>1 DEF T!TypeOK, T!AttemptsHaveOneExecution, T!NewRowsAreBlank
  <1>3. T!TypeOK'
    BY <1>1, <1>2 DEF T!TypeOK, T!rows, T!executions
  <1>4. T!ResultsMatchTasks' /\ T!AttemptsHaveOneExecution' /\ T!NewRowsAreBlank'
    BY <1>1 DEF T!ResultsMatchTasks, T!AttemptsHaveOneExecution, T!NewRowsAreBlank, T!rows, T!executions
  <1>5. T!EffectsFitTheTask'
    BY <1>1, <1>2 DEF T!EffectsFitTheTask, T!rows, T!Attempts
  <1> QED BY <1>3, <1>4, <1>5

LEMMA CompleteKeeps ==
    ASSUME T!Inductive, NEW e \in Executions, NEW o \in T!Outcomes, T!Complete(e, o)
    PROVE  T!Inductive'
  <1> USE BoundsAreNumbers, NoTaskIsNoTask DEF T!Inductive
  <1> DEFINE t == job[e]
             r == [task |-> t, attempt |-> attempt[t], status |-> o]
  <1>1. /\ taskStep[e] = "running" /\ taskStatus[t] = "RUNNING"
        /\ taskStatus' = [taskStatus EXCEPT ![t] = o]
        /\ results' = results \cup {r}
        /\ taskStep' = [taskStep EXCEPT ![e] = "idle"]
        /\ job' = [job EXCEPT ![e] = NoTask]
        /\ claim' = [claim EXCEPT ![e] = 0]
        /\ UNCHANGED <<version, attempt, bound, supersedes, effects, origin>>
    BY DEF T!Complete, T!Holds, T!Idle
  <1>2. t \in Tasks /\ attempt[t] \in T!Attempts \ {0} /\ attempt[t] \in Nat
    BY <1>1 DEF T!TypeOK, T!AttemptsHaveOneExecution, T!NewRowsAreBlank, T!Attempts
  <1>3. o \notin {"RUNNING", "ABSENT", "PENDING", "CANCELLED"} /\ o \in T!TaskStatus
    BY DEF T!Outcomes, T!TaskStatus, T!OpenTask, T!Ended
  <1>4. T!TypeOK'
    BY <1>1, <1>2, <1>3 DEF T!TypeOK, T!Attempts
  <1>5. \A x \in results : x.task = t => x.attempt < attempt[t]
    BY <1>1, <1>2 DEF T!TypeOK, T!ResultsMatchTasks, T!Outcomes, T!Attempts
  <1>6. T!ResultsMatchTasks'
    <2>1. \A x, y \in results' : x.task = y.task /\ x.attempt = y.attempt => x = y
      BY <1>1, <1>2, <1>5 DEF T!TypeOK, T!ResultsMatchTasks
    <2>2. \A x \in results' :
              /\ x.attempt \in 1..attempt[x.task]
              /\ x.attempt < attempt[x.task] => x.status = "FAILED_RETRYABLE"
              /\ x.attempt = attempt[x.task] =>
                   \/ x.status = taskStatus'[x.task]
                   \/ /\ taskStatus'[x.task] = "CANCELLED"
                      /\ x.status \in {"FAILED_RETRYABLE", "FAILED_FINAL"}
      BY <1>1, <1>2, <1>5 DEF T!TypeOK, T!ResultsMatchTasks, T!Attempts
    <2>3. \A s \in Tasks :
             /\ taskStatus'[s] \in T!Outcomes =>
                  [task |-> s, attempt |-> attempt[s], status |-> taskStatus'[s]] \in results'
             /\ \A n \in 1..(attempt[s] - 1) :
                  [task |-> s, attempt |-> n, status |-> "FAILED_RETRYABLE"] \in results'
      BY <1>1, <1>2 DEF T!TypeOK, T!ResultsMatchTasks
    <2> QED BY <1>1, <2>1, <2>2, <2>3 DEF T!ResultsMatchTasks
  <1>7. T!AttemptsHaveOneExecution'
    BY <1>1, <1>2, <1>3 DEF T!TypeOK, T!AttemptsHaveOneExecution
  <1>8. T!NewRowsAreBlank'
    BY <1>1, <1>2, <1>3 DEF T!TypeOK, T!NewRowsAreBlank
  <1>9. T!EffectsFitTheTask'
    BY <1>1 DEF T!EffectsFitTheTask
  <1> QED BY <1>4, <1>6, <1>7, <1>8, <1>9

\* An execution that is refused or dies leaves the tables as they are.
LEMMA LeavingKeeps ==
    ASSUME T!Inductive, NEW e \in Executions, T!Idle(e),
           UNCHANGED <<version, T!rows, results, effects, origin>>
    PROVE  T!Inductive'
  <1> USE BoundsAreNumbers, NoTaskIsNoTask DEF T!Inductive, T!Idle, T!rows
  <1>1. T!TypeOK'
    BY DEF T!TypeOK, T!Attempts
  <1>2. T!ResultsMatchTasks' /\ T!NewRowsAreBlank' /\ T!EffectsFitTheTask'
    BY DEF T!ResultsMatchTasks, T!NewRowsAreBlank, T!EffectsFitTheTask
  <1>3. T!AttemptsHaveOneExecution'
    BY DEF T!TypeOK, T!AttemptsHaveOneExecution
  <1> QED BY <1>1, <1>2, <1>3

-----------------------------------------------------------------------------
(* The case *)

LEMMA DomainWriteKeeps ==
    ASSUME T!Inductive, T!DomainWrite
    PROVE  T!Inductive'
  <1> USE BoundsAreNumbers, NoTaskIsNoTask DEF T!Inductive, T!DomainWrite, T!rows, T!executions
  <1>1. T!TypeOK'
    BY DEF T!TypeOK, T!Versions
  <1>2. T!ResultsMatchTasks' /\ T!AttemptsHaveOneExecution' /\ T!EffectsFitTheTask'
    BY DEF T!ResultsMatchTasks, T!AttemptsHaveOneExecution, T!EffectsFitTheTask
  <1>3. T!NewRowsAreBlank'
    BY DEF T!TypeOK, T!Versions, T!NewRowsAreBlank
  <1> QED BY <1>1, <1>2, <1>3

LEMMA CancelKeeps ==
    ASSUME T!Inductive, T!CancelOpenTasks
    PROVE  T!Inductive'
  <1> USE BoundsAreNumbers, NoTaskIsNoTask DEF T!Inductive
  <1>1. /\ taskStatus' = [t \in Tasks |-> IF taskStatus[t] \in T!OpenTask THEN "CANCELLED" ELSE taskStatus[t]]
        /\ version' \in {version, version + 1} /\ version' \in T!Versions
        /\ UNCHANGED <<attempt, bound, supersedes, results, effects, origin, taskStep, job, claim>>
    BY DEF T!CancelOpenTasks, T!OpenTasks, T!executions, T!TypeOK, T!Versions
  <1>2. T!TypeOK'
    BY <1>1 DEF T!TypeOK, T!TaskStatus, T!Ended
  <1>3. T!ResultsMatchTasks'
    <2>1. \A x \in results :
              /\ x.attempt \in 1..attempt[x.task]
              /\ x.attempt < attempt[x.task] => x.status = "FAILED_RETRYABLE"
              /\ x.attempt = attempt[x.task] =>
                   \/ x.status = taskStatus'[x.task]
                   \/ /\ taskStatus'[x.task] = "CANCELLED"
                      /\ x.status \in {"FAILED_RETRYABLE", "FAILED_FINAL"}
      BY <1>1 DEF T!TypeOK, T!ResultsMatchTasks, T!OpenTask, T!Outcomes
    <2>2. \A s \in Tasks : taskStatus'[s] \in T!Outcomes => taskStatus'[s] = taskStatus[s]
      BY <1>1 DEF T!Outcomes
    <2> QED BY <1>1, <2>1, <2>2 DEF T!ResultsMatchTasks
  <1>4. T!AttemptsHaveOneExecution'
    BY <1>1 DEF T!AttemptsHaveOneExecution, T!OpenTask
  <1>5. T!NewRowsAreBlank'
    BY <1>1 DEF T!TypeOK, T!Versions, T!NewRowsAreBlank, T!OpenTask
  <1>6. T!EffectsFitTheTask'
    BY <1>1 DEF T!EffectsFitTheTask
  <1> QED BY <1>2, <1>3, <1>4, <1>5, <1>6

-----------------------------------------------------------------------------
LEMMA StepKeeps ==
    ASSUME T!Inductive, [T!Next]_(T!vars)
    PROVE  T!Inductive'
  <1>1. CASE UNCHANGED T!vars
    BY <1>1 DEF T!vars, T!rows, T!executions, T!Inductive, T!TypeOK, T!ResultsMatchTasks,
                T!AttemptsHaveOneExecution, T!NewRowsAreBlank, T!EffectsFitTheTask
  <1>2. ASSUME NEW t \in Tasks, T!DispatchTask(t) \/ T!SaveTask(t) \/ T!Replace(t)
        PROVE  T!Inductive'
    BY <1>2, DispatchKeeps, SaveKeeps, ReplaceKeeps
  <1>3. ASSUME NEW t \in Tasks, NEW old \in Tasks \ {t}, T!Reassign(t, old)
        PROVE  T!Inductive'
    BY <1>3, ReassignKeeps
  <1>4. ASSUME NEW e \in Executions, NEW t \in Tasks, T!Validate(e, t)
        PROVE  T!Inductive'
    BY <1>4, ValidateKeeps
  <1>5. ASSUME NEW e \in Executions, T!Claim(e) \/ T!CallTool(e)
        PROVE  T!Inductive'
    BY <1>5, ClaimKeeps, CallKeeps
  <1>6. ASSUME NEW e \in Executions, NEW o \in T!Outcomes, T!Complete(e, o)
        PROVE  T!Inductive'
    BY <1>6, CompleteKeeps
  <1>7. ASSUME NEW e \in Executions, T!ClaimRefused(e) \/ T!CompleteRefused(e) \/ T!Die(e)
        PROVE  T!Inductive'
    BY <1>7, LeavingKeeps DEF T!ClaimRefused, T!CompleteRefused, T!Die
  <1>8. CASE T!DomainWrite \/ T!CancelOpenTasks
    BY <1>8, DomainWriteKeeps, CancelKeeps
  <1> QED BY <1>1, <1>2, <1>3, <1>4, <1>5, <1>6, <1>7, <1>8 DEF T!Next

\* Two executions never share an attempt, and a tool call took effect on the
\* version of the case its task was created for (workflow_persistence.py:97,
\* task_guard.py:25).
THEOREM TasksAreInductive == T!Spec => []T!Inductive
  BY NewTasksAreSound, StepKeeps, PTL DEF T!Spec

\* The rows of agent_tasks and of agent_task_results agree, whatever is
\* repeated, cancelled, replaced or lost (store.py:402).
THEOREM TablesAgree == T!Spec => []T!ResultsMatchTasks
  <1>1. T!Inductive => T!ResultsMatchTasks
    BY DEF T!Inductive
  <1> QED BY <1>1, TasksAreInductive, PTL

-----------------------------------------------------------------------------
(* The refinement *)

LEMMA StepIsOneOfTheBook ==
    ASSUME T!Inductive, [T!Next]_(T!vars)
    PROVE  [Book!Next]_(Book!vars)
  <1> USE BoundsAreNumbers, NoTaskIsNoTask
  <1> DEFINE kept == <<version, taskStatus, attempt, bound, results, effects>>
  <1>0. T!Inductive'
    BY StepKeeps
  <1>1. CASE UNCHANGED kept
    BY <1>1 DEF Book!vars
  <1>2. ASSUME NEW t \in Tasks, origin[t] = "NOBODY", taskStatus[t] = "ABSENT",
               \E v \in T!Versions : bound' = [bound EXCEPT ![t] = v],
               UNCHANGED <<version, taskStatus, attempt, results, effects>>
        PROVE  UNCHANGED Book!vars
    BY <1>2 DEF Book!vars, T!Inductive, T!TypeOK
  <1>3. ASSUME NEW t \in Tasks, T!SaveTask(t)
        PROVE  Book!Next
    <2>1. /\ taskStatus[t] = "ABSENT" /\ bound[t] \in 0..version
          /\ taskStatus' = [taskStatus EXCEPT ![t] = "PENDING"]
          /\ UNCHANGED <<version, attempt, bound, results, effects>>
      BY <1>3 DEF T!SaveTask, T!Inductive, T!NewRowsAreBlank
    <2>2. Book!Open(t, bound[t], {})
      BY <2>1 DEF Book!Open, T!Inductive, T!TypeOK
    <2> QED BY <2>1, <2>2 DEF Book!Next
  <1>4. ASSUME NEW t \in Tasks, T!Replace(t), T!MayReplace(supersedes[t])
        PROVE  Book!Next
    <2>1. PICK old \in Tasks \ {t} : old = supersedes[t]
      BY <1>4 DEF T!Replace, T!Inductive, T!NewRowsAreBlank
    <2>2. PICK v \in 0..version : v = bound[t]
      BY <1>4 DEF T!Replace, T!Inductive, T!NewRowsAreBlank
    <2>3. /\ taskStatus[t] = "ABSENT"
          /\ taskStatus[old] \in {"FAILED_RETRYABLE", "FAILED_FINAL", "CANCELLED"}
          /\ taskStatus' = [taskStatus EXCEPT ![old] = "CANCELLED", ![t] = "PENDING"]
          /\ UNCHANGED <<version, attempt, bound, supersedes, results, effects>>
      BY <1>4, <2>1 DEF T!Replace, T!MayReplace, T!Replaceable, T!Inductive, T!NewRowsAreBlank
    <2>4. Book!Open(t, v, {old})
      BY <2>1, <2>2, <2>3 DEF Book!Open, T!Inductive, T!TypeOK
    <2>5. {old} \in SUBSET (Tasks \ {t})
      BY <2>1
    <2> QED BY <2>4, <2>5 DEF Book!Next
  <1>5. ASSUME NEW e \in Executions, T!Claim(e)
        PROVE  Book!Next
    <2> DEFINE t == job[e]
    <2>1. /\ t \in Tasks
          /\ taskStatus[t] \in {"PENDING", "FAILED_RETRYABLE"} /\ bound[t] = version
          /\ taskStatus' = [taskStatus EXCEPT ![t] = "RUNNING"]
          /\ attempt' = [attempt EXCEPT ![t] = @ + 1]
          /\ UNCHANGED <<version, bound, results, effects>>
      BY <1>5 DEF T!Claim, T!Valid, T!Claimable, T!Inductive, T!AttemptsHaveOneExecution
    <2>2. Book!Start(t)
      BY <2>1 DEF Book!Start, Book!Startable, T!Inductive, T!TypeOK
    <2> QED BY <2>1, <2>2 DEF Book!Next
  <1>6. ASSUME NEW e \in Executions, T!CallTool(e)
        PROVE  Book!Next
    <2> DEFINE t == job[e]
    <2>1. /\ t \in Tasks
          /\ taskStatus[t] = "RUNNING" /\ bound[t] = version /\ claim[e] = attempt[t]
          /\ effects' = effects \cup {[task |-> t, attempt |-> claim[e], version |-> version]}
          /\ UNCHANGED <<version, taskStatus, attempt, bound, results>>
      BY <1>6 DEF T!CallTool, T!ClaimIsActive, T!Holds, T!Inductive, T!AttemptsHaveOneExecution, T!rows
    <2>2. Book!Act(t)
      BY <2>1 DEF Book!Act
    <2> QED BY <2>1, <2>2 DEF Book!Next
  <1>7. ASSUME NEW e \in Executions, NEW o \in T!Outcomes, T!Complete(e, o)
        PROVE  Book!Next
    <2> DEFINE t == job[e]
    <2>1. /\ t \in Tasks
          /\ taskStatus[t] = "RUNNING"
          /\ taskStatus' = [taskStatus EXCEPT ![t] = o]
          /\ results' = results \cup {[task |-> t, attempt |-> attempt[t], status |-> o]}
          /\ UNCHANGED <<version, attempt, bound, effects>>
      BY <1>7 DEF T!Complete, T!Holds, T!Inductive, T!AttemptsHaveOneExecution
    <2>2. o # "ABSENT"
      BY DEF T!Outcomes
    <2>3. Book!End(t, o)
      BY <2>1, <2>2 DEF Book!End, T!Inductive, T!TypeOK
    <2> QED BY <2>1, <2>3 DEF Book!Next
  <1>8. ASSUME T!DomainWrite
        PROVE  Book!Next
    <2>1. /\ version' = version + 1
          /\ version' \in 0..MaxVersion
          /\ UNCHANGED <<taskStatus, attempt, bound, results, effects>>
      BY <1>8 DEF T!DomainWrite, T!rows, T!Inductive, T!TypeOK, T!Versions
    <2>2. Book!Move(version + 1, {})
      BY <2>1 DEF Book!Move, T!Inductive, T!TypeOK, T!Versions
    <2> QED BY <2>1, <2>2 DEF Book!Next
  <1>9. ASSUME T!CancelOpenTasks
        PROVE  Book!Next
    <2> DEFINE S == {t \in Tasks : taskStatus[t] \in T!OpenTask}
    <2>1. /\ version' \in version..(version + 1) /\ version' \in 0..MaxVersion
          /\ taskStatus' = [t \in Tasks |-> IF t \in S THEN "CANCELLED" ELSE taskStatus[t]]
          /\ UNCHANGED <<attempt, bound, results, effects>>
      BY <1>9 DEF T!CancelOpenTasks, T!OpenTasks, T!Inductive, T!TypeOK, T!Versions
    <2>2. Book!Move(version', S)
      BY <2>1 DEF Book!Move, Book!Live, Book!Startable, T!OpenTask
    <2> QED BY <2>1, <2>2 DEF Book!Next
  <1>10. ASSUME NEW t \in Tasks, T!DispatchTask(t)
         PROVE  UNCHANGED Book!vars
    <2>1. \E v \in T!Versions : bound' = [bound EXCEPT ![t] = v]
      <3>1. PICK v \in 0..version : bound' = [bound EXCEPT ![t] = v]
        BY <1>10 DEF T!DispatchTask, T!Create
      <3>2. v \in T!Versions
        BY DEF T!Inductive, T!TypeOK, T!Versions
      <3> QED BY <3>1, <3>2
    <2> QED BY <2>1, <1>2, <1>10 DEF T!DispatchTask, T!Create
  <1>11. ASSUME NEW t \in Tasks, NEW old \in Tasks \ {t}, T!Reassign(t, old)
         PROVE  UNCHANGED Book!vars
    <2>1. \E v \in T!Versions : bound' = [bound EXCEPT ![t] = v]
      BY <1>11 DEF T!Reassign, T!Create, T!Inductive, T!TypeOK
    <2> QED BY <2>1, <1>2, <1>11 DEF T!Reassign, T!Create
  <1>12. ASSUME NEW t \in Tasks, T!Replace(t), ~T!MayReplace(supersedes[t])
         PROVE  UNCHANGED kept
    BY <1>12 DEF T!Replace
  <1>13. ASSUME NEW e \in Executions,
                \/ \E t \in Tasks : T!Validate(e, t)
                \/ T!ClaimRefused(e) \/ T!CompleteRefused(e) \/ T!Die(e)
         PROVE  UNCHANGED kept
    BY <1>13 DEF T!Validate, T!ClaimRefused, T!CompleteRefused, T!Die, T!rows
  <1>14. UNCHANGED T!vars => UNCHANGED kept
    BY DEF T!vars, T!rows
  <1> QED
    BY <1>1, <1>3, <1>4, <1>5, <1>6, <1>7, <1>8, <1>9, <1>10, <1>11, <1>12, <1>13, <1>14
    DEF T!Next

\* The tables implement TaskBook: an attempt has effects only while it runs
\* and the case is at its task's version, and ends once.
THEOREM TasksImplementTheBook == T!Spec => ImplementsTaskBook
  <1>1. T!Init => Book!Init
    BY DEF T!Init, Book!Init
  <1>2. T!Inductive /\ [T!Next]_(T!vars) => [Book!Next]_(Book!vars)
    BY StepIsOneOfTheBook
  <1> QED BY <1>1, <1>2, TasksAreInductive, PTL DEF T!Spec, ImplementsTaskBook, Book!Spec

-----------------------------------------------------------------------------
(* Sums *)

LEMMA SmallestOf ==
    ASSUME NEW S \in SUBSET Nat, S # {}
    PROVE  \E x \in S : \A y \in S : x <= y
  <1>1. PICK x \in S : \A y \in S : <<y, x>> \notin OpToRel(<, Nat)
    BY NatLessThanWellFounded, WFMin
  <1>2. \A y \in S : ~(y < x)
    BY <1>1 DEF OpToRel
  <1> QED BY <1>2

\* A smallest among some subsets of a finite set: what a proof by induction
\* over finite sets takes its counterexample from.
LEMMA SmallestSet ==
    ASSUME NEW S, IsFiniteSet(S), NEW B \in SUBSET (SUBSET S), B # {}
    PROVE  \E Q \in B : \A U \in SUBSET Q : U # Q => U \notin B
  <1> DEFINE N == {Cardinality(Q) : Q \in B}
  <1>0. \A Q \in B : IsFiniteSet(Q) /\ Cardinality(Q) \in Nat
    BY FS_Subset, FS_CardinalityType
  <1>1. N \in SUBSET Nat /\ N # {}
    BY <1>0
  <1>2. PICK n \in N : \A m \in N : n <= m
    BY <1>1, SmallestOf
  <1>3. PICK Q \in B : n = Cardinality(Q)
    BY <1>2
  <1>4. ASSUME NEW U \in SUBSET Q, U # Q, U \in B
        PROVE  FALSE
    <2>1. Cardinality(U) <= Cardinality(Q) /\ Cardinality(U) # Cardinality(Q)
      BY <1>0, <1>4, FS_Subset
    <2>2. Cardinality(Q) <= Cardinality(U)
      BY <1>2, <1>3, <1>4
    <2> HIDE DEF N
    <2> QED BY <2>1, <2>2, <1>0, <1>3, <1>4
  <1> QED BY <1>4

-----------------------------------------------------------------------------
(* What SumFunctionOnSet folds: the function of Folds, chosen by its equation *)

First(s) == CHOOSE x \in s : TRUE

Running(g, f, S) ==
    g = [s \in SUBSET S |-> IF s = {} THEN 0 ELSE f[First(s)] + g[s \ {First(s)}]]

LEMMA SumIsChosen ==
    ASSUME NEW f, NEW S
    PROVE  SumFunctionOnSet(f, S) = (CHOOSE g : Running(g, f, S))[S]
  BY DEF SumFunctionOnSet, FoldFunctionOnSet, MapThenFoldSet, Running, First

LEMMA FirstIsOne ==
    ASSUME NEW s, s # {}
    PROVE  First(s) \in s
  BY DEF First

LEMMA RunningOfSet ==
    ASSUME NEW g, NEW f, NEW S, Running(g, f, S)
    PROVE  /\ g[{}] = 0
           /\ \A s \in SUBSET S : s # {} => g[s] = f[First(s)] + g[s \ {First(s)}]
  <1> DEFINE Term(s) == IF s = {} THEN 0 ELSE f[First(s)] + g[s \ {First(s)}]
  <1> HIDE DEF Term
  <1>1. g = [s \in SUBSET S |-> Term(s)]
    BY DEF Running, Term
  <1>2. \A s \in SUBSET S : g[s] = Term(s)
    BY <1>1
  <1> QED BY <1>2 DEF Term

\* Two of them agree where both are defined.
LEMMA RunningIsUnique ==
    ASSUME NEW f, NEW S, NEW Q, NEW g, NEW h, Running(g, f, S), Running(h, f, Q),
           NEW s \in SUBSET (S \cap Q), IsFiniteSet(s)
    PROVE  g[s] = h[s]
  <1> DEFINE B == {u \in SUBSET s : g[u] # h[u]}
  <1>1. SUFFICES ASSUME B # {} PROVE FALSE
    OBVIOUS
  <1>2. PICK u \in B : \A v \in SUBSET u : v # u => v \notin B
    <2>1. B \in SUBSET (SUBSET s)
      OBVIOUS
    <2> HIDE DEF B
    <2> QED BY <1>1, <2>1, SmallestSet
  <1>3. u # {}
    BY <1>2, RunningOfSet
  <1>4. g[u \ {First(u)}] = h[u \ {First(u)}]
    BY <1>2, <1>3, FirstIsOne
  <1>5. g[u] = f[First(u)] + g[u \ {First(u)}] /\ h[u] = f[First(u)] + h[u \ {First(u)}]
    BY <1>2, <1>3, RunningOfSet
  <1> QED BY <1>2, <1>4, <1>5

\* Where it exists it is what SumFunctionOnSet gives.
LEMMA SumIsRunning ==
    ASSUME NEW f, NEW S, IsFiniteSet(S), NEW g, Running(g, f, S)
    PROVE  SumFunctionOnSet(f, S) = g[S]
  <1>1. Running(CHOOSE h : Running(h, f, S), f, S)
    OBVIOUS
  <1>2. (CHOOSE h : Running(h, f, S))[S] = g[S]
    BY <1>1, RunningIsUnique
  <1> QED BY <1>2, SumIsChosen

LEMMA SumStepsWhere ==
    ASSUME NEW f, NEW S, IsFiniteSet(S), S # {},
           NEW g, Running(g, f, S), NEW h, Running(h, f, S \ {First(S)})
    PROVE  SumFunctionOnSet(f, S) = f[First(S)] + SumFunctionOnSet(f, S \ {First(S)})
  <1> DEFINE R == S \ {First(S)}
  <1>1. IsFiniteSet(R) /\ R \in SUBSET (S \cap R)
    BY FS_Subset
  <1>2. SumFunctionOnSet(f, S) = g[S] /\ SumFunctionOnSet(f, R) = h[R]
    BY <1>1, SumIsRunning
  <1>3. g[R] = h[R]
    BY <1>1, RunningIsUnique
  <1>4. g[S] = f[First(S)] + g[R]
    BY RunningOfSet
  <1> QED BY <1>2, <1>3, <1>4

\* It exists for every finite set: a smallest one without it would have one.
LEMMA RunningExists ==
    ASSUME NEW f, NEW S, IsFiniteSet(S)
    PROVE  \E g : Running(g, f, S)
  <1> DEFINE B == {Q \in SUBSET S : ~\E g : Running(g, f, Q)}
  <1>1. SUFFICES ASSUME B # {} PROVE FALSE
    OBVIOUS
  <1>2. PICK Q \in B : \A U \in SUBSET Q : U # Q => U \notin B
    <2>1. B \in SUBSET (SUBSET S)
      OBVIOUS
    <2> HIDE DEF B
    <2> QED BY <1>1, <2>1, SmallestSet
  <1> DEFINE Value(s) == IF s = {} THEN 0
                         ELSE f[First(s)] + SumFunctionOnSet(f, s \ {First(s)})
             g == [s \in SUBSET Q |-> Value(s)]
  <1>3. \A s \in SUBSET Q : s # Q => \E h : Running(h, f, s)
    BY <1>2
  <1>4. ASSUME NEW s \in SUBSET Q, s # Q
        PROVE  Value(s) = SumFunctionOnSet(f, s)
    <2>1. PICK h : Running(h, f, s)
      BY <1>3, <1>4
    <2>2. IsFiniteSet(s)
      BY FS_Subset
    <2>3. CASE s = {}
      BY <2>1, <2>2, <2>3, SumIsRunning, RunningOfSet
    <2>4. CASE s # {}
      <3>1. \E k : Running(k, f, s \ {First(s)})
        BY <1>3, <1>4, <2>4, FirstIsOne
      <3> QED BY <2>1, <2>2, <2>4, <3>1, SumStepsWhere
    <2> QED BY <2>3, <2>4
  <1>5. \A s \in SUBSET Q : s # {} => SumFunctionOnSet(f, s \ {First(s)}) = g[s \ {First(s)}]
    <2> SUFFICES ASSUME NEW s \in SUBSET Q, s # {}
                 PROVE  SumFunctionOnSet(f, s \ {First(s)}) = g[s \ {First(s)}]
      OBVIOUS
    <2>1. s \ {First(s)} \in SUBSET Q /\ s \ {First(s)} # Q
      BY FirstIsOne
    <2>2. Value(s \ {First(s)}) = SumFunctionOnSet(f, s \ {First(s)})
      BY <2>1, <1>4
    <2> HIDE DEF Value
    <2> QED BY <2>1, <2>2
  <1>6. \A s \in SUBSET Q :
            Value(s) = IF s = {} THEN 0 ELSE f[First(s)] + g[s \ {First(s)}]
    BY <1>5
  <1>7. Running(g, f, Q)
    <2> HIDE DEF Value
    <2>1. g = [s \in SUBSET Q |-> IF s = {} THEN 0 ELSE f[First(s)] + g[s \ {First(s)}]]
      BY <1>6
    <2> QED BY <2>1 DEF Running
  <1> QED BY <1>2, <1>7

LEMMA SumOfNone == ASSUME NEW f PROVE SumFunctionOnSet(f, {}) = 0
  BY RunningExists, SumIsRunning, RunningOfSet, FS_EmptySet

LEMMA SumSteps ==
    ASSUME NEW f, NEW S, IsFiniteSet(S), S # {}
    PROVE  SumFunctionOnSet(f, S) = f[First(S)] + SumFunctionOnSet(f, S \ {First(S)})
  <1>1. IsFiniteSet(S \ {First(S)})
    BY FS_Subset
  <1>2. PICK g : Running(g, f, S)
    BY RunningExists
  <1>3. PICK h : Running(h, f, S \ {First(S)})
    BY <1>1, RunningExists
  <1> QED BY <1>2, <1>3, SumStepsWhere

-----------------------------------------------------------------------------
(* Laws of sums *)

LEMMA SumIsInt ==
    ASSUME NEW S, IsFiniteSet(S), NEW f, \A x \in S : f[x] \in Int
    PROVE  SumFunctionOnSet(f, S) \in Int
  <1> DEFINE B == {Q \in SUBSET S : SumFunctionOnSet(f, Q) \notin Int}
  <1>1. SUFFICES ASSUME B # {} PROVE FALSE
    OBVIOUS
  <1>2. PICK Q \in B : \A U \in SUBSET Q : U # Q => U \notin B
    <2>1. B \in SUBSET (SUBSET S)
      OBVIOUS
    <2> HIDE DEF B
    <2> QED BY <1>1, <2>1, SmallestSet
  <1>3. Q # {} /\ IsFiniteSet(Q)
    <2>1. SumFunctionOnSet(f, {}) \in Int
      BY SumOfNone
    <2> QED BY <1>2, <2>1, FS_Subset
  <1>4. First(Q) \in Q
    BY <1>3, FirstIsOne
  <1>5. SumFunctionOnSet(f, Q \ {First(Q)}) \in Int
    BY <1>2, <1>4
  <1>6. SumFunctionOnSet(f, Q) = f[First(Q)] + SumFunctionOnSet(f, Q \ {First(Q)})
    BY <1>3, SumSteps
  <1>7. f[First(Q)] \in Int
    BY <1>4
  <1> QED BY <1>2, <1>5, <1>6, <1>7

\* A sum may begin with any of its terms.
LEMMA SumFromAny ==
    ASSUME NEW S, IsFiniteSet(S), NEW f, \A x \in S : f[x] \in Int, NEW a \in S
    PROVE  SumFunctionOnSet(f, S) = f[a] + SumFunctionOnSet(f, S \ {a})
  <1> DEFINE Sum(Q) == SumFunctionOnSet(f, Q)
             B == {Q \in SUBSET S : \E x \in Q : Sum(Q) # f[x] + Sum(Q \ {x})}
  <1>1. SUFFICES ASSUME B # {} PROVE FALSE
    OBVIOUS
  <1>2. PICK Q \in B : \A U \in SUBSET Q : U # Q => U \notin B
    <2>1. B \in SUBSET (SUBSET S)
      OBVIOUS
    <2> HIDE DEF B
    <2> QED BY <1>1, <2>1, SmallestSet
  <1>3. PICK x \in Q : Sum(Q) # f[x] + Sum(Q \ {x})
    BY <1>2
  <1> DEFINE p == First(Q)
  <1>4. p \in Q /\ IsFiniteSet(Q) /\ Q # {}
    BY <1>2, <1>3, FirstIsOne, FS_Subset
  <1>5. Sum(Q) = f[p] + Sum(Q \ {p})
    BY <1>4, SumSteps
  <1>6. x # p
    BY <1>3, <1>5
  <1>7. Q \ {p} \notin B /\ Q \ {x} \notin B
    BY <1>2, <1>4
  <1>8. x \in Q \ {p} /\ p \in Q \ {x}
    BY <1>4, <1>6
  <1>9. Sum(Q \ {p}) = f[x] + Sum((Q \ {p}) \ {x})
    BY <1>7, <1>8
  <1>10. Sum(Q \ {x}) = f[p] + Sum((Q \ {x}) \ {p})
    BY <1>7, <1>8
  <1>11. (Q \ {p}) \ {x} = (Q \ {x}) \ {p}
    OBVIOUS
  <1>12. Sum((Q \ {x}) \ {p}) \in Int
    <2>1. IsFiniteSet((Q \ {x}) \ {p})
      BY <1>4, FS_Subset
    <2> QED BY <2>1, SumIsInt
  <1>13. f[p] \in Int /\ f[x] \in Int
    BY <1>4
  <1>14. Sum(Q) = f[p] + (f[x] + Sum((Q \ {x}) \ {p}))
    BY <1>5, <1>9, <1>11
  <1>15. f[x] + Sum(Q \ {x}) = f[x] + (f[p] + Sum((Q \ {x}) \ {p}))
    BY <1>10
  <1> HIDE DEF Sum, p, B
  <1> QED BY <1>3, <1>12, <1>13, <1>14, <1>15

\* The sum depends on the terms only.
LEMMA SumCongruent ==
    ASSUME NEW S, IsFiniteSet(S), NEW f, NEW h, \A x \in S : f[x] \in Int /\ f[x] = h[x]
    PROVE  SumFunctionOnSet(f, S) = SumFunctionOnSet(h, S)
  <1> DEFINE Sum(g, Q) == SumFunctionOnSet(g, Q)
             B == {Q \in SUBSET S : Sum(f, Q) # Sum(h, Q)}
  <1>1. SUFFICES ASSUME B # {} PROVE FALSE
    OBVIOUS
  <1>2. PICK Q \in B : \A U \in SUBSET Q : U # Q => U \notin B
    <2>1. B \in SUBSET (SUBSET S)
      OBVIOUS
    <2> HIDE DEF B
    <2> QED BY <1>1, <2>1, SmallestSet
  <1>3. Q # {} /\ IsFiniteSet(Q)
    <2>1. Sum(f, {}) = Sum(h, {})
      BY SumOfNone
    <2> QED BY <1>2, <2>1, FS_Subset
  <1>4. PICK x \in Q : TRUE
    BY <1>3
  <1>5. Sum(f, Q \ {x}) = Sum(h, Q \ {x})
    BY <1>2, <1>4
  <1>6. Sum(f, Q) = f[x] + Sum(f, Q \ {x}) /\ Sum(h, Q) = h[x] + Sum(h, Q \ {x})
    BY <1>3, SumFromAny
  <1>7. f[x] = h[x]
    OBVIOUS
  <1> QED BY <1>2, <1>5, <1>6, <1>7

LEMMA SumMonotone ==
    ASSUME NEW S, IsFiniteSet(S), NEW f, NEW h,
           \A x \in S : f[x] \in Int /\ h[x] \in Int /\ f[x] <= h[x]
    PROVE  SumFunctionOnSet(f, S) <= SumFunctionOnSet(h, S)
  <1> DEFINE Sum(g, Q) == SumFunctionOnSet(g, Q)
             B == {Q \in SUBSET S : ~(Sum(f, Q) <= Sum(h, Q))}
  <1>1. SUFFICES ASSUME B # {} PROVE FALSE
    OBVIOUS
  <1>2. PICK Q \in B : \A U \in SUBSET Q : U # Q => U \notin B
    <2>1. B \in SUBSET (SUBSET S)
      OBVIOUS
    <2> HIDE DEF B
    <2> QED BY <1>1, <2>1, SmallestSet
  <1>3. Q # {} /\ IsFiniteSet(Q)
    <2>1. Sum(f, {}) <= Sum(h, {})
      BY SumOfNone
    <2> QED BY <1>2, <2>1, FS_Subset
  <1>4. PICK x \in Q : TRUE
    BY <1>3
  <1>5. Sum(f, Q \ {x}) <= Sum(h, Q \ {x})
    BY <1>2, <1>4
  <1>6. Sum(f, Q) = f[x] + Sum(f, Q \ {x}) /\ Sum(h, Q) = h[x] + Sum(h, Q \ {x})
    BY <1>3, SumFromAny
  <1>7. f[x] \in Int /\ h[x] \in Int /\ f[x] <= h[x]
    OBVIOUS
  <1>8. Sum(f, Q \ {x}) \in Int /\ Sum(h, Q \ {x}) \in Int
    <2>1. IsFiniteSet(Q \ {x})
      BY <1>3, FS_Subset
    <2> QED BY <2>1, SumIsInt
  <1>9. ~(Sum(f, Q) <= Sum(h, Q))
    BY <1>2
  <1> HIDE DEF Sum, B
  <1> QED BY <1>5, <1>6, <1>7, <1>8, <1>9

LEMMA SumOfUnion ==
    ASSUME NEW S, IsFiniteSet(S), NEW R, IsFiniteSet(R), S \cap R = {},
           NEW f, \A x \in S \cup R : f[x] \in Int
    PROVE  SumFunctionOnSet(f, S \cup R) = SumFunctionOnSet(f, S) + SumFunctionOnSet(f, R)
  <1> DEFINE Sum(Q) == SumFunctionOnSet(f, Q)
             B == {Q \in SUBSET S : Sum(Q \cup R) # Sum(Q) + Sum(R)}
  <1>1. SUFFICES ASSUME B # {} PROVE FALSE
    OBVIOUS
  <1>2. PICK Q \in B : \A U \in SUBSET Q : U # Q => U \notin B
    <2>1. B \in SUBSET (SUBSET S)
      OBVIOUS
    <2> HIDE DEF B
    <2> QED BY <1>1, <2>1, SmallestSet
  <1>0. Sum(R) \in Int
    BY SumIsInt
  <1>3. Q # {} /\ IsFiniteSet(Q)
    <2>1. Sum({} \cup R) = Sum({}) + Sum(R)
      <3>1. {} \cup R = R
        OBVIOUS
      <3>2. Sum({}) = 0
        BY SumOfNone
      <3> HIDE DEF Sum
      <3> QED BY <1>0, <3>1, <3>2
    <2> QED BY <1>2, <2>1, FS_Subset
  <1>4. PICK x \in Q : TRUE
    BY <1>3
  <1>5. Sum((Q \ {x}) \cup R) = Sum(Q \ {x}) + Sum(R)
    BY <1>2, <1>4
  <1>6. Sum(Q) = f[x] + Sum(Q \ {x})
    BY <1>3, SumFromAny
  <1>7. Sum(Q \cup R) = f[x] + Sum((Q \ {x}) \cup R)
    <2>1. (Q \cup R) \ {x} = (Q \ {x}) \cup R
      BY <1>2, <1>4
    <2>2. IsFiniteSet(Q \cup R)
      BY <1>3, FS_Union
    <2> QED BY <2>1, <2>2, SumFromAny
  <1>8. f[x] \in Int /\ Sum(Q \ {x}) \in Int
    <2>1. IsFiniteSet(Q \ {x})
      BY <1>3, FS_Subset
    <2> QED BY <2>1, SumIsInt
  <1>9. Sum(Q \cup R) # Sum(Q) + Sum(R)
    BY <1>2
  <1> HIDE DEF Sum, B
  <1> QED BY <1>0, <1>5, <1>6, <1>7, <1>8, <1>9

\* The terms may be named anew.
LEMMA SumRenamed ==
    ASSUME NEW S, IsFiniteSet(S), NEW f, \A x \in S : f[x] \in Int,
           NEW name, \A x, y \in S : x # y => name[x] # name[y],
           NEW h, \A x \in S : h[name[x]] = f[x],
           NEW R, \A x \in S : name[x] \in R, \A y \in R : \E x \in S : y = name[x]
    PROVE  IsFiniteSet(R) /\ SumFunctionOnSet(h, R) = SumFunctionOnSet(f, S)
  <1> DEFINE Named(Q) == {name[x] : x \in Q}
             B == {Q \in SUBSET S :
                      ~(/\ IsFiniteSet(Named(Q))
                        /\ SumFunctionOnSet(h, Named(Q)) = SumFunctionOnSet(f, Q))}
  <1>0. R = Named(S)
    OBVIOUS
  <1>1. SUFFICES ASSUME B # {} PROVE FALSE
    <2>1. S \notin B => IsFiniteSet(Named(S))
                         /\ SumFunctionOnSet(h, Named(S)) = SumFunctionOnSet(f, S)
      OBVIOUS
    <2> HIDE DEF Named
    <2> QED BY <2>1, <1>0
  <1>2. PICK Q \in B : \A U \in SUBSET Q : U # Q => U \notin B
    <2>1. B \in SUBSET (SUBSET S)
      OBVIOUS
    <2> HIDE DEF B
    <2> QED BY <1>1, <2>1, SmallestSet
  <1>3. Q # {} /\ IsFiniteSet(Q)
    <2>1. Named({}) = {}
      OBVIOUS
    <2>2. {} \notin B
      BY <2>1, FS_EmptySet, SumOfNone
    <2> QED BY <1>2, <2>2, FS_Subset
  <1>4. PICK x \in Q : TRUE
    BY <1>3
  <1>5. /\ IsFiniteSet(Named(Q \ {x}))
        /\ SumFunctionOnSet(h, Named(Q \ {x})) = SumFunctionOnSet(f, Q \ {x})
    BY <1>2, <1>4
  <1>6. SumFunctionOnSet(f, Q) = f[x] + SumFunctionOnSet(f, Q \ {x})
    BY <1>3, SumFromAny
  <1>7. Named(Q) = Named(Q \ {x}) \cup {name[x]} /\ Named(Q) \ {name[x]} = Named(Q \ {x})
    BY <1>2, <1>4
  <1>8. IsFiniteSet(Named(Q))
    <2>1. IsFiniteSet(Named(Q \ {x}))
      BY <1>5
    <2>2. IsFiniteSet(Named(Q \ {x}) \cup {name[x]})
      BY <2>1, FS_AddElement
    <2> QED BY <2>2, <1>7
  <1>9. \A y \in Named(Q) : h[y] \in Int
    BY <1>2
  <1>10. SumFunctionOnSet(h, Named(Q)) = h[name[x]] + SumFunctionOnSet(h, Named(Q) \ {name[x]})
    <2>1. name[x] \in Named(Q)
      OBVIOUS
    <2> HIDE DEF Named
    <2> QED BY <2>1, <1>8, <1>9, SumFromAny
  <1>11. h[name[x]] = f[x]
    BY <1>2, <1>4
  <1>12. SumFunctionOnSet(h, Named(Q)) = SumFunctionOnSet(f, Q)
    <2> HIDE DEF Named
    <2> QED BY <1>5, <1>6, <1>7, <1>10, <1>11
  <1> QED BY <1>2, <1>8, <1>12

-----------------------------------------------------------------------------
(* Risk *)

LEMMA MagnitudeIsNat == ASSUME NEW x \in Int PROVE Magnitude(x) \in Nat
  BY DEF Magnitude

LEMMA GrossAmountGrows ==
    ASSUME NEW d, NEW e, DOMAIN d = DOMAIN e, IsFiniteSet(DOMAIN d),
           \A i \in DOMAIN d : d[i] \in Int /\ e[i] \in Int /\ Magnitude(d[i]) <= Magnitude(e[i])
    PROVE  /\ GrossAmount(d) \in Int /\ GrossAmount(e) \in Int
           /\ GrossAmount(d) <= GrossAmount(e)
  <1> DEFINE D == DOMAIN d
             f == [i \in DOMAIN d |-> Magnitude(d[i])]
             h == [i \in DOMAIN e |-> Magnitude(e[i])]
  <1>1. DOMAIN f = D /\ DOMAIN h = D
    OBVIOUS
  <1>2. \A i \in D : f[i] \in Int /\ h[i] \in Int /\ f[i] <= h[i]
    BY MagnitudeIsNat
  <1>3. GrossAmount(d) = SumFunctionOnSet(f, D) /\ GrossAmount(e) = SumFunctionOnSet(h, D)
    BY <1>1 DEF GrossAmount, SumFunction
  <1> HIDE DEF f, h
  <1> QED BY <1>2, <1>3, SumIsInt, SumMonotone

\* Whatever the number of deltas: components cannot offset each other, and a
\* worse finding is never of lower risk (classify_risk).
THEOREM WorseIsNoLower ==
    ASSUME NEW d, NEW e, DOMAIN d = DOMAIN e, IsFiniteSet(DOMAIN d),
           \A i \in DOMAIN d : d[i] \in Int /\ e[i] \in Int /\ Magnitude(d[i]) <= Magnitude(e[i]),
           Negative(d) => Negative(e),
           NEW score \in Int, NEW lower \in Int, lower <= score,
           NEW conflict \in BOOLEAN, NEW more \in BOOLEAN, conflict => more
    PROVE  Rank[RiskLevel(d, score, conflict)] <= Rank[RiskLevel(e, lower, more)]
  <1> DEFINE small(x, s) == ~Negative(x) /\ GrossAmount(x) <= L1Max /\ s >= ScoreAuto
             manual(x, s, c) == c \/ s < ScoreMin \/ GrossAmount(x) > L2Max
             none(x) == \A i \in DOMAIN x : x[i] = 0
  <1>1. /\ GrossAmount(d) \in Int /\ GrossAmount(e) \in Int
        /\ GrossAmount(d) <= GrossAmount(e)
    BY GrossAmountGrows
  <1>2. small(e, lower) => small(d, score)
    BY <1>1, LimitAssumption, ScoreAssumption
  <1>3. manual(d, score, conflict) => manual(e, lower, more)
    BY <1>1, LimitAssumption, ScoreAssumption
  <1>4. none(e) => none(d)
    BY DEF Magnitude
  <1> HIDE DEF small, manual, none
  <1>5. \A x, s, c : RiskLevel(x, s, c) =
            IF none(x) THEN "L0" ELSE IF manual(x, s, c) THEN "L3"
            ELSE IF small(x, s) THEN "L1" ELSE "L2"
    BY DEF RiskLevel, small, manual, none
  <1>6. Rank["L0"] = 0 /\ Rank["L1"] = 1 /\ Rank["L2"] = 2 /\ Rank["L3"] = 3
    BY DEF Rank
  <1> QED BY <1>2, <1>3, <1>4, <1>5, <1>6

-----------------------------------------------------------------------------
(* Versions and tiers *)

LEMMA LargestOf ==
    ASSUME NEW n \in Nat, NEW S \in SUBSET (1..n), S # {}
    PROVE  \E x \in S : \A y \in S : y <= x
  <1> DEFINE Q == {n - x : x \in S}
  <1>0. \A x \in S : n - x \in Nat
    OBVIOUS
  <1>1. Q \in SUBSET Nat /\ Q # {}
    BY <1>0
  <1> HIDE DEF Q
  <1>2. PICK t \in Q : \A u \in Q : t <= u
    BY <1>1, SmallestOf
  <1>3. PICK x \in S : t = n - x
    BY <1>2 DEF Q
  <1>4. \A y \in S : n - y \in Q
    BY DEF Q
  <1>5. \A y \in S : y <= x
    BY <1>2, <1>3, <1>4
  <1> QED BY <1>5

\* A list that v is inserted into, after the first n.
Inserted(old, n, v) == SubSeq(old, 1, n) \o <<v>> \o SubSeq(old, n + 1, Len(old))

\* What is at a place of it.
Element(old, n, v, i) == IF i <= n THEN old[i] ELSE IF i = n + 1 THEN v ELSE old[i - 1]

\* Where the elements go.
Moved(n, j) == IF j <= n THEN j ELSE j + 1

LEMMA InsertedIsList ==
    ASSUME NEW V, NEW old \in Seq(V), NEW v \in V, NEW n \in 0..Len(old)
    PROVE  /\ Inserted(old, n, v) \in Seq(V)
           /\ Len(Inserted(old, n, v)) = Len(old) + 1
           /\ \A i \in 1..(Len(old) + 1) : Inserted(old, n, v)[i] = Element(old, n, v, i)
  <1> DEFINE L == Len(old)
             a == SubSeq(old, 1, n)
             b == SubSeq(old, n + 1, L)
  <1>0. L \in Nat /\ n \in Nat /\ n <= L
    BY LenProperties
  <1>1. a \in Seq(V) /\ Len(a) = n /\ \A i \in 1..n : a[i] = old[i]
    BY <1>0, SubSeqProperties
  <1>2. b \in Seq(V) /\ Len(b) = L - n /\ \A i \in 1..(L - n) : b[i] = old[n + i]
    BY <1>0, SubSeqProperties
  <1> HIDE DEF a, b
  <1>3. /\ a \o <<v>> \in Seq(V) /\ Len(a \o <<v>>) = n + 1
        /\ \A i \in 1..(n + 1) : (a \o <<v>>)[i] = IF i <= n THEN old[i] ELSE v
    BY <1>0, <1>1
  <1> DEFINE ab == a \o <<v>>
  <1> HIDE DEF ab
  <1>4. /\ ab \o b \in Seq(V) /\ Len(ab \o b) = L + 1
        /\ \A i \in 1..(L + 1) : (ab \o b)[i] = IF i <= n + 1 THEN ab[i] ELSE b[i - (n + 1)]
    BY <1>0, <1>2, <1>3 DEF ab
  <1>5. Inserted(old, n, v) = ab \o b
    BY DEF Inserted, ab, a, b
  <1>6. ASSUME NEW i \in 1..(L + 1)
        PROVE  (ab \o b)[i] = Element(old, n, v, i)
    <2>1. CASE i <= n + 1
      BY <1>0, <1>3, <1>4, <2>1 DEF ab, Element
    <2>2. CASE i > n + 1
      <3> DEFINE m == i - (n + 1)
      <3>1. m \in 1..(L - n) /\ n + m = i - 1
        BY <1>0, <2>2
      <3>2. (ab \o b)[i] = b[m]
        BY <1>4, <2>2
      <3>3. ~(i <= n) /\ i # n + 1
        BY <1>0, <2>2
      <3> HIDE DEF m
      <3>4. b[m] = old[n + m]
        BY <3>1, <1>2
      <3>5. old[n + m] = old[i - 1]
        BY <3>1
      <3>6. (ab \o b)[i] = old[i - 1]
        BY <3>2, <3>4, <3>5, Zenon
      <3> QED BY <3>3, <3>6, Zenon DEF Element
    <2>3. i <= n + 1 \/ i > n + 1
      BY <1>0
    <2> QED BY <2>1, <2>2, <2>3, Zenon
  <1> QED BY <1>4, <1>5, <1>6

\* Of places in a list, dated up to a day, the first (the last) of the latest
\* date is the one that is chosen.
LEMMA ChoicesExist ==
    ASSUME NEW old, NEW L \in Nat, NEW day \in Nat, NEW S \in SUBSET (1..L), S # {},
           \A i \in S : old[i].from \in Nat /\ old[i].from <= day
    PROVE  /\ \E i \in S : \A j \in S : Newer(old, i, j)
           /\ \E i \in S : \A j \in S : Later(old, i, j)
  <1> DEFINE Age(i) == day - old[i].from
             Ages == {Age(i) : i \in S}
  <1>1. \A i \in S : Age(i) \in Nat
    OBVIOUS
  <1>2. \A i, j \in S : Age(i) < Age(j) => old[j].from < old[i].from
    OBVIOUS
  <1>3. \A i, j \in S : Age(i) = Age(j) => old[j].from = old[i].from
    OBVIOUS
  <1> HIDE DEF Age
  <1>4. PICK least \in Ages : \A a \in Ages : least <= a
    <2>1. Ages \in SUBSET Nat /\ Ages # {}
      BY <1>1
    <2> QED BY <2>1, SmallestOf
  <1> DEFINE R == {i \in S : Age(i) = least}
  <1>5. R # {} /\ R \in SUBSET (1..L) /\ R \in SUBSET Nat /\ R \in SUBSET S
    BY <1>4
  <1>6. \A i \in R, j \in S : \/ old[j].from < old[i].from
                              \/ old[j].from = old[i].from /\ j \in R
    <2> SUFFICES ASSUME NEW i \in R, NEW j \in S
                 PROVE  \/ old[j].from < old[i].from
                        \/ old[j].from = old[i].from /\ j \in R
      OBVIOUS
    <2>1. Age(i) = least /\ Age(i) <= Age(j) /\ Age(i) \in Nat /\ Age(j) \in Nat
      BY <1>1, <1>4
    <2>2. Age(i) < Age(j) \/ Age(j) = least
      BY <2>1
    <2> QED BY <2>1, <2>2, <1>2, <1>3
  <1> HIDE DEF R
  <1>7. PICK first \in R : \A j \in R : first <= j
    BY <1>5, SmallestOf
  <1>8. PICK last \in R : \A j \in R : j <= last
    BY <1>5, LargestOf
  <1>9. \A j \in S : Newer(old, first, j)
    BY <1>6, <1>7 DEF Newer
  <1>10. \A j \in S : Later(old, last, j)
    BY <1>6, <1>8 DEF Later
  <1> QED BY <1>5, <1>7, <1>8, <1>9, <1>10

\* Nothing else is chosen.
LEMMA ChoicesAreUnique ==
    ASSUME NEW old, NEW S \in SUBSET Nat, \A i \in S : old[i].from \in Nat,
           NEW i \in S, NEW k \in S
    PROVE  /\ Newer(old, i, k) /\ Newer(old, k, i) => i = k
           /\ Later(old, i, k) /\ Later(old, k, i) => i = k
  BY DEF Newer, Later

\* What a choice of one list is in another whose places are moved in order.
LEMMA ChoicesMove ==
    ASSUME NEW old, NEW new, NEW S \in SUBSET Nat, NEW n \in Nat, S # {},
           \A j \in S : old[j].from \in Nat /\ new[Moved(n, j)] = old[j],
           NEW Q, Q = {Moved(n, j) : j \in S},
           NEW i \in S
    PROVE  /\ (\A j \in S : Newer(old, i, j)) => \A k \in Q : Newer(new, Moved(n, i), k)
           /\ (\A j \in S : Later(old, i, j)) => \A k \in Q : Later(new, Moved(n, i), k)
  <1>1. \A j \in S : i <= j <=> Moved(n, i) <= Moved(n, j)
    BY DEF Moved
  <1>2. \A j \in S : j <= i <=> Moved(n, j) <= Moved(n, i)
    BY DEF Moved
  <1>3. \A j \in S : /\ Newer(old, i, j) <=> Newer(new, Moved(n, i), Moved(n, j))
                     /\ Later(old, i, j) <=> Later(new, Moved(n, i), Moved(n, j))
    BY <1>1, <1>2 DEF Newer, Later
  <1> QED BY <1>3

Dated == [from : Nat, to : Nat]

LEMMA DaysMove ==
    ASSUME NEW old \in Seq(Dated), NEW v \in Dated, NEW n \in 0..Len(old),
           NEW day \in Nat, day < v.from,
           NEW new, new = Inserted(old, n, v)
    PROVE  /\ \A j \in 1..Len(old) : new[Moved(n, j)] = old[j] /\ old[j].from \in Nat
           /\ new[n + 1] = v /\ n + 1 \in DOMAIN new /\ n \in Nat
           /\ Covering(old, day) \in SUBSET (1..Len(old))
           /\ InForce(old, day) \in SUBSET (1..Len(old))
           /\ Covering(new, day) = {Moved(n, j) : j \in Covering(old, day)}
           /\ InForce(new, day) = {Moved(n, j) : j \in InForce(old, day)}
  <1> DEFINE L == Len(old)
  <1>0. L \in Nat /\ n \in Nat /\ n <= L /\ DOMAIN old = 1..L
    BY LenProperties
  <1>1. /\ new \in Seq(Dated) /\ Len(new) = L + 1
        /\ \A i \in 1..(L + 1) : new[i] = Element(old, n, v, i)
    BY InsertedIsList
  <1>2. DOMAIN new = 1..(L + 1)
    BY <1>1, LenProperties
  <1>3. \A j \in 1..L : old[j] \in Dated
    BY <1>0, ElementOfSeq
  <1>4. ASSUME NEW j \in 1..L
        PROVE  Moved(n, j) \in 1..(L + 1) /\ new[Moved(n, j)] = old[j]
    <2>1. CASE j <= n
      BY <2>1, <1>0, <1>1 DEF Moved, Element
    <2>2. CASE ~(j <= n)
      <3>1. PICK k \in Int : k = j + 1
        BY <1>0
      <3>2. k \in 1..(L + 1) /\ ~(k <= n) /\ k # n + 1 /\ k - 1 = j
        BY <1>0, <2>2, <3>1
      <3>3. new[k] = old[k - 1]
        BY <1>1, <3>2 DEF Element
      <3>4. old[k - 1] = old[j]
        BY <3>2
      <3>5. Moved(n, j) = k
        BY <2>2, <3>1 DEF Moved
      <3> QED BY <3>2, <3>3, <3>4, <3>5, Zenon
    <2> QED BY <2>1, <2>2
  <1>5. n + 1 \in 1..(L + 1) /\ new[n + 1] = v
    <2>1. PICK k \in Int : k = n + 1
      BY <1>0
    <2>2. k \in 1..(L + 1) /\ ~(k <= n)
      BY <2>1, <1>0
    <2>3. new[k] = v
      BY <2>1, <2>2, <1>1 DEF Element
    <2> QED BY <2>1, <2>2, <2>3
  <1>6. ASSUME NEW i \in 1..(L + 1), i # n + 1
        PROVE  \E j \in 1..L : i = Moved(n, j)
    <2>1. CASE i <= n
      BY <2>1, <1>0 DEF Moved
    <2>2. CASE ~(i <= n)
      <3>1. i - 1 \in 1..L /\ ~(i - 1 <= n) /\ i = (i - 1) + 1
        BY <2>2, <1>0, <1>6
      <3>2. i = Moved(n, i - 1)
        BY <3>1 DEF Moved
      <3> QED BY <3>1, <3>2
    <2> QED BY <2>1, <2>2
  <1>7. ~Covers(v, day) /\ ~(v.from <= day)
    BY DEF Covers, Dated
  <1>8. Covering(new, day) = {Moved(n, j) : j \in Covering(old, day)}
    BY <1>0, <1>2, <1>4, <1>5, <1>6, <1>7 DEF Covering
  <1>9. InForce(new, day) = {Moved(n, j) : j \in InForce(old, day)}
    <2>1. \A i \in InForce(new, day) : i \in 1..(L + 1) /\ i # n + 1
      BY <1>2, <1>5, <1>7 DEF InForce
    <2>2. \A i \in InForce(new, day) : \E j \in InForce(old, day) : i = Moved(n, j)
      BY <1>0, <1>4, <1>6, <2>1 DEF InForce
    <2>3. \A j \in InForce(old, day) : Moved(n, j) \in InForce(new, day)
      BY <1>0, <1>2, <1>4 DEF InForce
    <2> QED BY <2>2, <2>3
  <1>10. \A j \in 1..L : old[j].from \in Nat
    BY <1>3 DEF Dated
  <1> QED BY <1>0, <1>2, <1>4, <1>5, <1>8, <1>9, <1>10 DEF Covering, InForce

LEMMA ManyMeansTwo ==
    ASSUME NEW S, IsFiniteSet(S)
    PROVE  Cardinality(S) > 1 <=> \E x, y \in S : x # y
  <1>1. Cardinality(S) \in Nat
    BY FS_CardinalityType
  <1>2. Cardinality(S) = 0 <=> S = {}
    BY FS_EmptySet
  <1>3. Cardinality(S) = 1 <=> \E x : S = {x}
    BY FS_Singleton
  <1>4. (S = {} \/ \E x : S = {x}) <=> ~\E x, y \in S : x # y
    OBVIOUS
  <1> QED BY <1>1, <1>2, <1>3, <1>4

\* Whatever is in a list of versions or tiers, and wherever in it a version or
\* tier that begins after a day is published, the day keeps its version, its
\* tier and its conflict, and is told of the later tier
\* (select_policy_version, resolve_tier_at_date).
THEOREM PublishingKeepsThePast ==
    ASSUME NEW old \in Seq(Dated), NEW v \in Dated, NEW n \in 0..Len(old),
           NEW day \in Nat, day < v.from,
           NEW new, new = Inserted(old, n, v)
    PROVE  /\ Covering(old, day) # {} =>
                 /\ Covering(new, day) # {}
                 /\ new[ChosenVersion(new, day)] = old[ChosenVersion(old, day)]
                 /\ PolicyConflict(new, day) <=> PolicyConflict(old, day)
           /\ InForce(old, day) # {} =>
                 /\ new[TierAt(new, day)] = old[TierAt(old, day)]
                 /\ TierConflict(new, day)
  <1> DEFINE L == Len(old)
  <1>0. L \in Nat
    BY LenProperties
  <1>1. /\ \A j \in 1..L : new[Moved(n, j)] = old[j] /\ old[j].from \in Nat
        /\ new[n + 1] = v /\ n + 1 \in DOMAIN new /\ n \in Nat
        /\ Covering(old, day) \in SUBSET (1..L)
        /\ InForce(old, day) \in SUBSET (1..L)
        /\ Covering(new, day) = {Moved(n, j) : j \in Covering(old, day)}
        /\ InForce(new, day) = {Moved(n, j) : j \in InForce(old, day)}
    BY DaysMove
  <1>2. ASSUME NEW S \in SUBSET (1..L), NEW Q, Q = {Moved(n, j) : j \in S}
        PROVE  /\ S \in SUBSET Nat /\ Q \in SUBSET Nat
               /\ \A j \in S : new[Moved(n, j)] = old[j] /\ old[j].from \in Nat
               /\ \A k \in Q : new[k].from \in Nat
    <2>1. \A j \in S : new[Moved(n, j)] = old[j] /\ old[j].from \in Nat
      BY <1>1
    <2>2. \A k \in Q : new[k].from \in Nat
      BY <2>1, <1>2, Zenon
    <2>3. \A j \in S : j \in Nat /\ Moved(n, j) \in Nat
      BY <1>0, <1>1 DEF Moved
    <2>4. S \in SUBSET Nat /\ Q \in SUBSET Nat
      BY <2>3, <1>2
    <2> QED BY <2>1, <2>2, <2>4
  <1>3. ASSUME Covering(old, day) # {}
        PROVE  /\ Covering(new, day) # {}
               /\ new[ChosenVersion(new, day)] = old[ChosenVersion(old, day)]
    <2> DEFINE S == Covering(old, day)
               Q == Covering(new, day)
    <2>1. Q # {} /\ Q = {Moved(n, j) : j \in S} /\ S \in SUBSET (1..L)
      BY <1>1, <1>3
    <2>2. \A i \in S : old[i].from \in Nat /\ old[i].from <= day
      BY <1>1 DEF Covering, Covers
    <2> HIDE DEF S, Q
    <2>3. \E i \in S : \A j \in S : Newer(old, i, j)
      BY <1>0, <1>3, <2>1, <2>2, ChoicesExist DEF S
    <2> DEFINE c == ChosenVersion(old, day)
               d == ChosenVersion(new, day)
    <2>4. c \in S /\ \A j \in S : Newer(old, c, j)
      BY <2>3 DEF ChosenVersion, S
    <2>5. \A k \in Q : Newer(new, Moved(n, c), k)
      BY <1>1, <1>2, <2>1, <2>4, ChoicesMove
    <2>6. Moved(n, c) \in Q
      BY <2>1, <2>4
    <2>7. d \in Q /\ \A k \in Q : Newer(new, d, k)
      BY <2>5, <2>6 DEF ChosenVersion, Q
    <2>8. d = Moved(n, c)
      BY <1>2, <2>1, <2>5, <2>6, <2>7, ChoicesAreUnique
    <2>9. new[Moved(n, c)] = old[c]
      BY <1>2, <2>1, <2>4
    <2> QED BY <2>1, <2>8, <2>9 DEF Q
  <1>4. PolicyConflict(new, day) <=> PolicyConflict(old, day)
    <2> DEFINE S == Covering(old, day)
               Q == Covering(new, day)
    <2>1. Q = {Moved(n, j) : j \in S} /\ S \in SUBSET (1..L)
      BY <1>1
    <2>2. \A i, j \in S : i # j <=> Moved(n, i) # Moved(n, j)
      BY <1>1 DEF Moved
    <2>3. IsFiniteSet(S) /\ IsFiniteSet(Q)
      <3>1. IsFiniteSet(1..L) /\ IsFiniteSet(1..(L + 1))
        <4>1. 1 \in Int /\ L \in Int /\ L + 1 \in Int
          BY <1>0
        <4> HIDE DEF L
        <4> QED BY <4>1, FS_Interval
      <3>2. Q \in SUBSET (1..(L + 1))
        <4>1. \A j \in 1..L : Moved(n, j) \in 1..(L + 1)
          BY <1>0, <1>1 DEF Moved
        <4> QED BY <4>1, <2>1
      <3> HIDE DEF S, Q
      <3>3. IsFiniteSet(S)
        BY <2>1, <3>1, FS_Subset
      <3>4. IsFiniteSet(Q)
        BY <3>1, <3>2, FS_Subset
      <3> QED BY <3>3, <3>4
    <2>4. (\E x, y \in Q : x # y) <=> (\E x, y \in S : x # y)
      BY <2>1, <2>2
    <2> HIDE DEF S, Q
    <2>5. Cardinality(Q) > 1 <=> Cardinality(S) > 1
      BY <2>3, <2>4, ManyMeansTwo
    <2> QED BY <2>5 DEF S, Q, PolicyConflict
  <1>5. ASSUME InForce(old, day) # {}
        PROVE  /\ new[TierAt(new, day)] = old[TierAt(old, day)]
               /\ TierConflict(new, day)
    <2> DEFINE S == InForce(old, day)
               Q == InForce(new, day)
    <2>1. Q # {} /\ Q = {Moved(n, j) : j \in S} /\ S \in SUBSET (1..L)
      BY <1>1, <1>5
    <2>2. \A i \in S : old[i].from \in Nat /\ old[i].from <= day
      BY <1>1 DEF InForce
    <2> HIDE DEF S, Q
    <2>3. \E i \in S : \A j \in S : Later(old, i, j)
      BY <1>0, <1>5, <2>1, <2>2, ChoicesExist DEF S
    <2> DEFINE c == TierAt(old, day)
               d == TierAt(new, day)
    <2>4. c \in S /\ \A j \in S : Later(old, c, j)
      BY <2>3 DEF TierAt, S
    <2>5. \A k \in Q : Later(new, Moved(n, c), k)
      BY <1>1, <1>2, <2>1, <2>4, ChoicesMove
    <2>6. Moved(n, c) \in Q
      BY <2>1, <2>4
    <2>7. d \in Q /\ \A k \in Q : Later(new, d, k)
      BY <2>5, <2>6 DEF TierAt, Q
    <2>8. d = Moved(n, c)
      BY <1>2, <2>1, <2>5, <2>6, <2>7, ChoicesAreUnique
    <2>9. new[d] = old[c] /\ old[c].from <= day /\ old[c].from \in Nat
      BY <1>2, <2>1, <2>2, <2>4, <2>8
    <2>10. ~Later(new, d, n + 1)
      BY <1>1, <2>9 DEF Later, Dated
    <2> QED BY <1>1, <2>9, <2>10 DEF TierConflict
  <1> QED BY <1>3, <1>4, <1>5

-----------------------------------------------------------------------------
(* Amounts *)

Earned(lines) == {i \in DOMAIN lines : lines[i].applied}
Paid(lines) == {lines[i].component : i \in Earned(lines)}

\* No two rules that apply pay the same component.
PaysOnce(lines) ==
    \A i, j \in Earned(lines) : i # j => lines[i].component # lines[j].component

WholeLines(lines) == \A i \in DOMAIN lines : lines[i].amount \in Int

Whole(lines, ledger) ==
    /\ WholeLines(lines)
    /\ \A k \in DOMAIN ledger : ledger[k] \in Int

SettledRight(lines, ledger, new) ==
    /\ DOMAIN new = DOMAIN ledger \cup Paid(lines)
    /\ \A i \in Earned(lines) : new[lines[i].component] = lines[i].amount
    /\ \A k \in DOMAIN ledger \ Paid(lines) : new[k] = ledger[k]

\* Posting the deltas gives every component that the order earns its amount
\* and leaves the others alone.
LEMMA SettledAmounts ==
    ASSUME NEW lines, NEW ledger, Whole(lines, ledger), PaysOnce(lines)
    PROVE  SettledRight(lines, ledger, Settled(lines, ledger))
  <1> USE DEF Whole, WholeLines, PaysOnce
  <1> DEFINE E == Earned(lines)
             C == Paid(lines)
             new == Settled(lines, ledger)
             ds == Deltas(lines, ledger)
             Of(k) == [i \in {j \in DOMAIN ds : lines[j].component = k} |-> ds[i]]
  <1>1. DOMAIN ds = E
    BY DEF Deltas, Earned
  <1>2. \A i \in E : ds[i] = lines[i].amount - PostedFor(ledger, lines[i].component)
    BY DEF Deltas, Earned
  <1>3. \A k : PostedFor(ledger, k) \in Int
    BY DEF PostedFor
  <1>4. new = [k \in DOMAIN ledger \cup {lines[i].component : i \in DOMAIN ds} |->
                  PostedFor(ledger, k) + SumFunction(Of(k))]
    BY DEF Settled
  <1> HIDE DEF ds, new
  <1>5. /\ DOMAIN new = DOMAIN ledger \cup C
        /\ \A k \in DOMAIN ledger \cup C : new[k] = PostedFor(ledger, k) + SumFunction(Of(k))
    <2> HIDE DEF Of, new
    <2> QED BY <1>1, <1>4 DEF Paid
  <1>6. ASSUME NEW i \in E
        PROVE  new[lines[i].component] = lines[i].amount
    <2> DEFINE k == lines[i].component
    <2>1. DOMAIN Of(k) = {i} /\ Of(k)[i] = ds[i]
      BY <1>1
    <2>2. ds[i] \in Int /\ ds[i] = lines[i].amount - PostedFor(ledger, k) /\ lines[i].amount \in Int
      BY <1>2, <1>3 DEF Earned
    <2> DEFINE f == Of(k)
    <2> HIDE DEF Of
    <2>3. SumFunction(f) = ds[i]
      <3>1. SumFunction(f) = SumFunctionOnSet(f, {i})
        BY <2>1 DEF SumFunction
      <3>2. SumFunctionOnSet(f, {i}) = f[i] + SumFunctionOnSet(f, {i} \ {i})
        BY <2>1, <2>2, FS_Singleton, SumFromAny
      <3>3. SumFunctionOnSet(f, {i} \ {i}) = 0
        <4>1. {i} \ {i} = {}
          OBVIOUS
        <4> QED BY <4>1, SumOfNone
      <3> QED BY <2>1, <2>2, <3>1, <3>2, <3>3
    <2>4. k \in C
      BY DEF Paid
    <2>5. new[k] = PostedFor(ledger, k) + ds[i]
      BY <1>5, <2>3, <2>4
    <2> HIDE DEF k
    <2>6. new[k] = lines[i].amount
      BY <1>3, <2>2, <2>5
    <2> QED BY <2>6 DEF k
  <1>7. ASSUME NEW k \in DOMAIN ledger \ C
        PROVE  new[k] = ledger[k]
    <2> DEFINE f == Of(k)
    <2>1. DOMAIN f = {}
      BY <1>1 DEF Paid
    <2> HIDE DEF Of, f
    <2>2. SumFunction(f) = 0
      BY <2>1, SumOfNone DEF SumFunction
    <2>3. new[k] = PostedFor(ledger, k) + 0
      BY <1>5, <2>2 DEF f
    <2>4. PostedFor(ledger, k) = ledger[k] /\ ledger[k] \in Int
      BY DEF PostedFor
    <2> QED BY <2>3, <2>4
  <1> QED BY <1>5, <1>6, <1>7 DEF new, SettledRight

\* Whatever the rules and the ledger are: once the deltas are posted, the
\* verification passes exactly when what is posted for components the order
\* does not earn adds up to nothing (difference_explain, _verify_ledger_read).
THEOREM PostingTheDeltasSettles ==
    ASSUME NEW lines, IsFiniteSet(DOMAIN lines), NEW ledger, IsFiniteSet(DOMAIN ledger),
           Whole(lines, ledger), PaysOnce(lines)
    PROVE  Agrees(lines, Settled(lines, ledger)) <=>
              SumFunctionOnSet(ledger, DOMAIN ledger \ Paid(lines)) = 0
  <1>0. SettledRight(lines, ledger, Settled(lines, ledger))
    BY SettledAmounts
  <1> USE DEF Whole, WholeLines, PaysOnce
  <1> DEFINE E == Earned(lines)
             C == Paid(lines)
             other == DOMAIN ledger \ C
             new == Settled(lines, ledger)
             due == [i \in {j \in DOMAIN lines : lines[j].applied} |-> lines[i].amount]
             name == [i \in E |-> lines[i].component]
  <1>1. /\ DOMAIN new = DOMAIN ledger \cup C
        /\ \A i \in E : new[lines[i].component] = lines[i].amount
        /\ \A k \in other : new[k] = ledger[k]
    BY <1>0 DEF SettledRight
  <1>2. /\ DOMAIN due = E
        /\ \A i \in E : due[i] = lines[i].amount /\ due[i] \in Int
    BY DEF Earned
  <1>3. Agrees(lines, new) <=> /\ \A i \in E : PostedFor(new, lines[i].component) = due[i]
                               /\ SumFunction(new) = SumFunction(due)
    BY DEF Agrees, Earned
  <1>4. \A i \in E : lines[i].component \in DOMAIN new
    BY <1>1 DEF Paid
  <1> HIDE DEF new, due
  <1>5. \A i \in E : PostedFor(new, lines[i].component) = due[i]
    BY <1>1, <1>2, <1>4 DEF PostedFor
  <1>6. IsFiniteSet(E) /\ IsFiniteSet(other)
    BY FS_Subset DEF Earned
  <1>7. /\ name \in [E -> C] /\ C = {name[i] : i \in E}
        /\ \A i \in E : name[i] = lines[i].component /\ new[name[i]] = due[i]
        /\ \A i, j \in E : i # j => name[i] # name[j]
    BY <1>1, <1>2 DEF Paid
  <1> HIDE DEF E, name, C
  <1>8. IsFiniteSet(C) /\ SumFunctionOnSet(new, C) = SumFunctionOnSet(due, E)
    <2>1. IsFiniteSet(E) /\ \A i \in E : due[i] \in Int
      BY <1>2, <1>6
    <2>2. /\ \A i, j \in E : i # j => name[i] # name[j]
          /\ \A i \in E : new[name[i]] = due[i]
      BY <1>7
    <2>3. (\A i \in E : name[i] \in C) /\ \A k \in C : \E i \in E : k = name[i]
      BY <1>7
    <2> QED BY SMTT(30), <2>1, <2>2, <2>3, SumRenamed
  <1>9. \A k \in C \cup other : new[k] \in Int
    BY <1>1, <1>2, <1>7
  <1>10. DOMAIN new = C \cup other /\ C \cap other = {}
    BY <1>1
  <1> HIDE DEF other
  <1>11. SumFunctionOnSet(new, C \cup other)
            = SumFunctionOnSet(new, C) + SumFunctionOnSet(new, other)
    BY <1>6, <1>8, <1>9, <1>10, SumOfUnion
  <1>12. SumFunctionOnSet(new, other) = SumFunctionOnSet(ledger, other)
    BY <1>1, <1>6, <1>9, SumCongruent
  <1>13. SumFunctionOnSet(new, other) \in Int /\ SumFunctionOnSet(new, C) \in Int
    BY <1>6, <1>8, <1>9, SumIsInt
  <1>14. SumFunction(new) = SumFunctionOnSet(due, E) + SumFunctionOnSet(ledger, other)
    BY <1>8, <1>10, <1>11, <1>12 DEF SumFunction
  <1>15. SumFunction(due) = SumFunctionOnSet(due, E)
    BY <1>2 DEF SumFunction
  <1>16. SumFunction(new) = SumFunction(due) <=> SumFunctionOnSet(ledger, other) = 0
    <2>1. SumFunctionOnSet(due, E) \in Int /\ SumFunctionOnSet(ledger, other) \in Int
      BY <1>8, <1>12, <1>13
    <2> QED BY <2>1, <1>14, <1>15
  <1> QED BY <1>3, <1>5, <1>16 DEF other, C, E, new

\* Rounding gives whole amounts, so every line that is calculated has one.
LEMMA QuantizedIsWhole ==
    ASSUME NEW x \in Int, NEW mode \in {"DOWN", "UP", "HALF_UP"}
    PROVE  Quantize(x, mode) \in Int
  <1> DEFINE a == Magnitude(x)
  <1>1. a \in Nat /\ Scale \in Nat \ {0} /\ 2 * Scale \in Nat \ {0}
    BY MagnitudeIsNat, ScaleAssumption
  <1> HIDE DEF a
  <1>2. a \div Scale \in Int /\ (a + Scale - 1) \div Scale \in Int
        /\ (2 * a + Scale) \div (2 * Scale) \in Int
    BY <1>1
  <1>3. Quantize(x, mode) =
           LET m == CASE mode = "DOWN"    -> a \div Scale
                      [] mode = "UP"      -> (a + Scale - 1) \div Scale
                      [] mode = "HALF_UP" -> (2 * a + Scale) \div (2 * Scale)
           IN  IF x < 0 THEN -m ELSE m
    BY DEF Quantize, a
  <1>4. CASE mode = "DOWN"
    BY <1>2, <1>3, <1>4
  <1>5. CASE mode = "UP"
    BY <1>2, <1>3, <1>5
  <1>6. CASE mode = "HALF_UP"
    BY <1>2, <1>3, <1>6
  <1> QED BY <1>4, <1>5, <1>6

Payable(policy) ==
    /\ policy.rounding \in {"DOWN", "UP", "HALF_UP"}
    /\ \A i \in DOMAIN policy.rules : policy.rules[i].value \in Int

LEMMA LinesAreWhole ==
    ASSUME NEW policy, NEW facts, Payable(policy)
    PROVE  /\ DOMAIN Calculate(policy, facts) \in SUBSET DOMAIN policy.rules
           /\ WholeLines(Calculate(policy, facts))
  <1> USE DEF Payable, WholeLines
  <1>1. \A i \in DOMAIN policy.rules :
            Line(policy.rules[i], policy.rounding, facts).amount \in Int
    BY QuantizedIsWhole DEF Line
  <1>2. \A i \in DOMAIN Calculate(policy, facts) :
            /\ i \in DOMAIN policy.rules
            /\ Calculate(policy, facts)[i] = Line(policy.rules[i], policy.rounding, facts)
    BY DEF Calculate
  <1> QED BY <1>1, <1>2

-----------------------------------------------------------------------------
(* The inputs of the rules *)

InputsAreTyped ==
    /\ list \in Seq(Versions)
    /\ finding \in Grades
    /\ topic = "order" => order \in Orders

LEMMA InputsStep ==
    ASSUME InputsAreTyped, [NextOfOne]_<<inputs, vars, taskVars>>
    PROVE  InputsAreTyped'
  <1>1. CASE UNCHANGED inputs
    BY <1>1 DEF InputsAreTyped, inputs
  <1>2. ASSUME NEW w \in Versions, Publish(w)
        PROVE  InputsAreTyped'
    <2>1. PICK i \in 0..Len(list) : list' = Inserted(list, i, w)
      BY <1>2 DEF Publish, Inserted
    <2>2. list' \in Seq(Versions)
      BY <2>1, InsertedIsList DEF InputsAreTyped
    <2> QED BY <1>2, <2>2 DEF Publish, InputsAreTyped
  <1>3. ASSUME NEW f \in Grades, Worsen(f)
        PROVE  InputsAreTyped'
    BY <1>3 DEF Worsen, InputsAreTyped
  <1> QED BY <1>1, <1>2, <1>3 DEF NextOfOne, InputNext, inputs

LEMMA InputsAreAlwaysTyped == SpecOfAll => []InputsAreTyped
  <1>1. InitOfAll => InputsAreTyped
    <2>1. AGrade \in Grades /\ <<>> \in Seq(Versions)
      BY DEF AGrade, Grades
    <2>2. \A v \in Versions : <<v>> \in Seq(Versions)
      OBVIOUS
    <2>3. NoInput /\ topic \in {"case", "tasks"} => InputsAreTyped
      BY <2>1 DEF NoInput, InputsAreTyped
    <2>4. InputInit => InputsAreTyped
      BY <2>1, <2>2 DEF InputInit, InputsAreTyped
    <2> QED BY <2>3, <2>4 DEF InitOfAll
  <1> QED BY <1>1, InputsStep, PTL DEF SpecOfAll

\* What is published never changes what a day before it gets.
THEOREM ThePastIsStable == SpecOfAll => PastIsStable
  <1>1. ASSUME InputsAreTyped, [NextOfOne]_<<inputs, vars, taskVars>>, inputs' # inputs,
               topic = "time", NEW day \in Days, news'.from > day
        PROVE  /\ Covering(list, day) # {} =>
                     /\ Covering(list', day) # {}
                     /\ list'[ChosenVersion(list', day)] = list[ChosenVersion(list, day)]
                     /\ PolicyConflict(list', day) <=> PolicyConflict(list, day)
               /\ InForce(list, day) # {} =>
                     /\ list'[TierAt(list', day)] = list[TierAt(list, day)]
                     /\ TierConflict(list', day)
    <2>1. PICK w \in Versions : Publish(w)
      BY <1>1 DEF NextOfOne, InputNext, Worsen, inputs
    <2>2. PICK i \in 0..Len(list) : list' = Inserted(list, i, w)
      BY <2>1 DEF Publish, Inserted
    <2>3. Versions \in SUBSET Dated /\ day \in Nat
      BY DEF Versions, Days, Dated
    <2>4. list \in Seq(Dated) /\ w \in Dated
      BY <1>1, <2>3, SeqMonotonic DEF InputsAreTyped
    <2>5. day < w.from
      BY <1>1, <2>1, <2>3, <2>4 DEF Publish, Dated
    <2> QED BY <2>2, <2>3, <2>4, <2>5, PublishingKeepsThePast
  <1>2. InputsAreTyped /\ [NextOfOne]_<<inputs, vars, taskVars>> =>
           [topic = "time" =>
              \A day \in Days : news'.from > day =>
                  /\ Covering(list, day) # {} =>
                        /\ Covering(list', day) # {}
                        /\ list'[ChosenVersion(list', day)] = list[ChosenVersion(list, day)]
                        /\ PolicyConflict(list', day) <=> PolicyConflict(list, day)
                  /\ InForce(list, day) # {} =>
                        /\ list'[TierAt(list', day)] = list[TierAt(list, day)]
                        /\ TierConflict(list', day)]_inputs
    BY <1>1
  <1> QED BY <1>2, InputsAreAlwaysTyped, PTL DEF SpecOfAll, PastIsStable

\* A worse finding is never of lower risk.
THEOREM RiskDoesNotFall == SpecOfAll => RiskNeverFalls
  <1>1. ASSUME InputsAreTyped, [NextOfOne]_<<inputs, vars, taskVars>>, inputs' # inputs,
               topic = "risk"
        PROVE  RankOf(finding) <= RankOf(finding')
    <2>1. PICK f \in Grades : Worsen(f)
      BY <1>1 DEF NextOfOne, InputNext, Publish, inputs
    <2> DEFINE d == finding.deltas
    <2>2. /\ finding' = f
          /\ d \in (-3..3) \X (-3..3) /\ f.deltas \in (-3..3) \X (-3..3)
          /\ f.score \in Int /\ finding.score \in Int /\ f.score <= finding.score
          /\ f.conflict \in BOOLEAN /\ finding.conflict \in BOOLEAN
          /\ finding.conflict => f.conflict
          /\ Negative(d) => Negative(f.deltas)
          /\ \A i \in 1..2 : Magnitude(d[i]) <= Magnitude(f.deltas[i])
      BY <1>1, <2>1 DEF Worsen, InputsAreTyped, Grades
    <2>3. /\ DOMAIN d = 1..2 /\ DOMAIN f.deltas = 1..2 /\ IsFiniteSet(1..2)
          /\ \A i \in 1..2 : d[i] \in Int /\ f.deltas[i] \in Int
      <3>1. \A x \in (-3..3) \X (-3..3) :
                DOMAIN x = 1..2 /\ x[1] \in Int /\ x[2] \in Int
        OBVIOUS
      <3>2. IsFiniteSet(1..2)
        <4>1. 1 \in Int /\ 2 \in Int
          OBVIOUS
        <4> QED BY <4>1, FS_Interval, Zenon
      <3>3. \A i \in 1..2 : i = 1 \/ i = 2
        OBVIOUS
      <3> HIDE DEF d
      <3> QED BY <2>2, <3>1, <3>2, <3>3
    <2> HIDE DEF d
    <2>4. Rank[RiskLevel(d, finding.score, finding.conflict)]
             <= Rank[RiskLevel(f.deltas, f.score, f.conflict)]
      BY <2>2, <2>3, WorseIsNoLower
    <2> QED BY <2>2, <2>4 DEF RankOf, d
  <1>2. InputsAreTyped /\ [NextOfOne]_<<inputs, vars, taskVars>> =>
           [topic = "risk" => RankOf(finding) <= RankOf(finding')]_inputs
    BY <1>1
  <1> QED BY <1>2, InputsAreAlwaysTyped, PTL DEF SpecOfAll, RiskNeverFalls

\* Posting what the comparison finds settles an order, but for what was posted
\* for components that it does not earn.
THEOREM DeltasSettle == SpecOfAll => []SettlingSettles
  <1>1. InputsAreTyped => SettlingSettles
    <2> DEFINE lines  == Calculate(order.policy, order.facts)
               earned == {i \in DOMAIN lines : lines[i].applied}
               other  == DOMAIN order.ledger \ {lines[i].component : i \in earned}
    <2> SUFFICES ASSUME InputsAreTyped, topic = "order",
                        \A i, j \in earned : i # j => lines[i].component # lines[j].component
                 PROVE  Agrees(lines, Settled(lines, order.ledger))
                           <=> SumFunctionOnSet(order.ledger, other) = 0
      BY DEF SettlingSettles
    <2>1. /\ order.policy.rounding \in {"DOWN", "UP", "HALF_UP"}
          /\ DOMAIN order.policy.rules = 1..2
          /\ \A i \in 1..2 : order.policy.rules[i].value \in Int
      BY DEF InputsAreTyped, Orders, Rules
    <2>2. /\ DOMAIN order.ledger \in SUBSET {"a", "b", "c"}
          /\ \A k \in DOMAIN order.ledger : order.ledger[k] \in Int
      <3>1. order.ledger \in UNION {[S -> {-1, 0, 2}] : S \in SUBSET {"a", "b", "c"}}
        BY DEF InputsAreTyped, Orders
      <3>2. PICK S \in SUBSET {"a", "b", "c"} : order.ledger \in [S -> {-1, 0, 2}]
        BY <3>1
      <3> DEFINE g == order.ledger
      <3> HIDE DEF g
      <3>3. DOMAIN g = S /\ \A k \in S : g[k] \in {-1, 0, 2}
        BY <3>2 DEF g
      <3>4. \A x \in {-1, 0, 2} : x \in Int
        OBVIOUS
      <3> QED BY <3>3, <3>4 DEF g
    <2>3. DOMAIN lines \in SUBSET (1..2) /\ \A i \in DOMAIN lines : lines[i].amount \in Int
      <3>1. Payable(order.policy)
        BY <2>1 DEF Payable
      <3>2. DOMAIN lines \in SUBSET DOMAIN order.policy.rules /\ WholeLines(lines)
        BY <3>1, LinesAreWhole
      <3> HIDE DEF lines
      <3> QED BY <2>1, <3>2 DEF WholeLines
    <2> HIDE DEF lines
    <2>4. IsFiniteSet(DOMAIN lines) /\ IsFiniteSet(DOMAIN order.ledger)
      <3>1. IsFiniteSet(1..2) /\ IsFiniteSet({"a", "b", "c"})
        <4> DEFINE A == {"a"}
                   B == {"b"}
                   C == {"c"}
        <4>1. {"a", "b", "c"} = A \cup (B \cup C)
          OBVIOUS
        <4>5. IsFiniteSet(A) /\ IsFiniteSet(B) /\ IsFiniteSet(C)
          BY FS_Singleton
        <4> HIDE DEF A, B, C
        <4>6. IsFiniteSet(A \cup (B \cup C))
          BY <4>5, FS_Union
        <4>2. IsFiniteSet({"a", "b", "c"})
          BY <4>1, <4>6, Zenon
        <4>3. 1 \in Int /\ 2 \in Int
          OBVIOUS
        <4>4. IsFiniteSet(1..2)
          BY <4>3, FS_Interval, Zenon
        <4> QED BY <4>2, <4>4
      <3> QED BY <2>2, <2>3, <3>1, FS_Subset
    <2>5. Whole(lines, order.ledger) /\ PaysOnce(lines)
      BY <2>2, <2>3 DEF Whole, WholeLines, PaysOnce, Earned
    <2>6. other = DOMAIN order.ledger \ Paid(lines)
      BY DEF Paid, Earned
    <2> HIDE DEF other
    <2> QED BY <2>4, <2>5, <2>6, PostingTheDeltasSettles
  <1> QED BY <1>1, InputsAreAlwaysTyped, PTL
=============================================================================
