--------------------------- MODULE CommissionRules ---------------------------
(***************************************************************************)
(* The deterministic rules behind a case, as pure operators: which policy  *)
(* version and which tier applied on a day (policy_matcher.py), what the   *)
(* policy pays for an order (rule_engine.py), what the ledger lacks and    *)
(* whether it agrees (skills.py), and how risky it is to put that right    *)
(* (risk.py).                                                              *)
(*                                                                         *)
(* A day is a number.  A formula's value is a whole number of the finest   *)
(* fraction it can yield, and Scale such fractions make the unit amounts   *)
(* are rounded to (28 digits of Decimal are never used up).  A score is in *)
(* percent.                                                                *)
(***************************************************************************)
EXTENDS Integers, FiniteSets, Functions

CONSTANTS
    Scale,       \* fractions per unit of amount
    L1Max,       \* L1_AUTO_DRAFT_MAX
    L2Max,       \* L2_APPROVAL_MAX
    ScoreAuto,   \* EVIDENCE_SCORE_AUTO
    ScoreMin     \* EVIDENCE_SCORE_MIN

ASSUME ScaleAssumption == Scale \in Nat \ {0}
ASSUME LimitAssumption == L1Max \in Nat /\ L2Max \in Nat /\ L1Max <= L2Max
ASSUME ScoreAssumption == ScoreMin \in Nat /\ ScoreAuto \in Nat /\ ScoreMin <= ScoreAuto

Magnitude(x) == IF x < 0 THEN -x ELSE x

-----------------------------------------------------------------------------
(* Policy versions and tiers: functions from a list's positions *)

Covers(v, day) == v.from <= day /\ day <= v.to

Covering(versions, day) == {i \in DOMAIN versions : Covers(versions[i], day)}

\* Of two places in a list sorted by descending date, the first.
Newer(versions, i, j) ==
    \/ versions[j].from < versions[i].from
    \/ versions[j].from = versions[i].from /\ i <= j

\* select_policy_version; it raises when no version covers the day.
ChosenVersion(versions, day) ==
    CHOOSE i \in Covering(versions, day) :
        \A j \in Covering(versions, day) : Newer(versions, i, j)

PolicyConflict(versions, day) == Cardinality(Covering(versions, day)) > 1

\* Of two places in a list sorted by ascending date, the last.
Later(history, i, j) ==
    \/ history[j].from < history[i].from
    \/ history[j].from = history[i].from /\ j <= i

InForce(history, day) == {i \in DOMAIN history : history[i].from <= day}

\* Mutant: the tier of today, whatever the day.
TierToday(history, day) ==
    CHOOSE i \in DOMAIN history : \A j \in DOMAIN history : Later(history, i, j)

\* resolve_tier_at_date; it raises when the day precedes the first tier.
TierAt(history, day) ==
    CHOOSE i \in InForce(history, day) : \A j \in InForce(history, day) : Later(history, i, j)

TierConflict(history, day) ==
    \E j \in DOMAIN history : ~Later(history, TierAt(history, day), j)

-----------------------------------------------------------------------------
(* What the policy pays *)

\* Decimal.quantize with ROUND_DOWN, ROUND_UP and ROUND_HALF_UP: all three
\* work on the magnitude.
Quantize(x, mode) ==
    LET m == CASE mode = "DOWN"    -> Magnitude(x) \div Scale
               [] mode = "UP"      -> (Magnitude(x) + Scale - 1) \div Scale
               [] mode = "HALF_UP" -> (2 * Magnitude(x) + Scale) \div (2 * Scale)
    IN  IF x < 0 THEN -m ELSE m

Holds(op, actual, expected) ==
    \/ op = "eq"  /\ actual = expected
    \/ op = "lte" /\ actual <= expected
    \/ op = "lt"  /\ actual < expected
    \/ op = "gte" /\ actual >= expected
    \/ op = "gt"  /\ actual > expected
    \/ op = "ne"  /\ actual # expected
    \/ op = "in"  /\ actual \in expected

\* match_condition and check_eligibility: a missing field fails.
Matches(when, facts) ==
    \A c \in when : c.field \in DOMAIN facts /\ Holds(c.op, facts[c.field], c.value)

\* run_policy: a rule is [component, when, value]; each component is rounded
\* on its own, and a rule that does not apply stays in the list with nothing.
\* There are no lines for an order the policy is not made for.
Line(rule, rounding, facts) ==
    LET applied == Matches(rule.when, facts)
    IN  [component |-> rule.component,
         applied   |-> applied,
         amount    |-> IF applied THEN Quantize(rule.value, rounding) ELSE 0]

Calculate(policy, facts) ==
    [i \in {j \in DOMAIN policy.rules : Matches(policy.eligibility, facts)} |->
        Line(policy.rules[i], policy.rounding, facts)]

-----------------------------------------------------------------------------
(* What the ledger lacks: it maps components to what is posted *)

PostedFor(ledger, k) == IF k \in DOMAIN ledger THEN ledger[k] ELSE 0

\* Mutant: rules that do not apply are compared too.
DeltasOfAll(lines, ledger) ==
    [i \in DOMAIN lines |-> lines[i].amount - PostedFor(ledger, lines[i].component)]

\* difference_explain: one delta per rule that applies.
Deltas(lines, ledger) ==
    [i \in {j \in DOMAIN lines : lines[j].applied} |->
        lines[i].amount - PostedFor(ledger, lines[i].component)]

\* The ledger after every delta has been posted.
Settled(lines, ledger) ==
    LET ds == Deltas(lines, ledger)
        Of(k) == [i \in {j \in DOMAIN ds : lines[j].component = k} |-> ds[i]]
    IN  [k \in DOMAIN ledger \cup {lines[i].component : i \in DOMAIN ds} |->
            PostedFor(ledger, k) + SumFunction(Of(k))]

\* _verify_ledger_read: every applied line and the total agree.
Agrees(lines, ledger) ==
    LET due == [i \in {j \in DOMAIN lines : lines[j].applied} |-> lines[i].amount]
    IN  /\ \A i \in DOMAIN due : PostedFor(ledger, lines[i].component) = due[i]
        /\ SumFunction(ledger) = SumFunction(due)

-----------------------------------------------------------------------------
(* Risk *)

Negative(deltas) == \E i \in DOMAIN deltas : deltas[i] < 0

\* Mutant: credits and claw-backs cancel out.
NetAmount(deltas) == Magnitude(SumFunction(deltas))

\* The gross amount, so that components cannot offset each other.
GrossAmount(deltas) == SumFunction([i \in DOMAIN deltas |-> Magnitude(deltas[i])])

\* classify_risk as the stage _stage_risk calls it.
RiskLevel(deltas, score, conflict) ==
    LET amount == GrossAmount(deltas)
        manual == conflict \/ score < ScoreMin \/ amount > L2Max
        small  == ~Negative(deltas) /\ amount <= L1Max /\ score >= ScoreAuto
    IN  IF \A i \in DOMAIN deltas : deltas[i] = 0 THEN "L0"
        ELSE IF manual THEN "L3"
        ELSE IF small THEN "L1" ELSE "L2"
=============================================================================
