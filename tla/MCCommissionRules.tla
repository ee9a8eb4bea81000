-------------------------- MODULE MCCommissionRules --------------------------
(***************************************************************************)
(* The rules on all small inputs, a state for each: lists of up to three   *)
(* versions (or tiers) over five days, to which people publish; orders     *)
(* under policies of two rules over two components and a ledger of three;  *)
(* and findings that get worse.                                            *)
(***************************************************************************)
EXTENDS CommissionRules, TLC, Sequences

VARIABLES
    topic,     \* what the state is an input of
    list,      \* policy versions, or tiers
    news,      \* what was published last
    order,     \* a policy, the facts of an order, its ledger
    finding

inputs == <<topic, list, news, order, finding>>

Days == 1..5
Versions == {v \in [from : Days, to : Days] : v.from <= v.to}
Nothing == [from |-> 1, to |-> 1]

Rules == [component : {"a", "b"},
          when : {{}, {[field |-> "days", op |-> "lte", value |-> 1]},
                      {[field |-> "days", op |-> "gt", value |-> 1]}},
          value : {0, 4, 6}]
Orders == [policy : {[eligibility |-> e, rules |-> <<r1, r2>>, rounding |-> "HALF_UP"] :
                        e \in {{}, {[field |-> "days", op |-> "in", value |-> {1, 2}]}},
                        r1 \in Rules, r2 \in Rules},
           facts  : {<<>>} \cup {("days" :> d) : d \in 0..2},
           ledger : UNION {[S -> {-1, 0, 2}] : S \in SUBSET {"a", "b", "c"}}]
AnOrder == [policy |-> [eligibility |-> {}, rules |-> <<>>, rounding |-> "DOWN"],
            facts |-> <<>>, ledger |-> <<>>]

Grades == [deltas : (-3..3) \X (-3..3), score : {50, 60, 80, 90}, conflict : BOOLEAN]
AGrade == [deltas |-> <<0, 0>>, score |-> 90, conflict |-> FALSE]

InputInit ==
    /\ news = Nothing
    /\ \/ /\ topic = "time" /\ list \in {<<v>> : v \in Versions}
          /\ order = AnOrder /\ finding = AGrade
       \/ /\ topic = "order" /\ order \in Orders
          /\ list = <<>> /\ finding = AGrade
       \/ /\ topic = "risk" /\ finding = AGrade
          /\ list = <<>> /\ order = AnOrder

\* An administrator adds a version anywhere in the list.
Publish(w) ==
    /\ topic = "time"
    /\ Len(list) < 3
    /\ \E i \in 0..Len(list) :
          list' = SubSeq(list, 1, i) \o <<w>> \o SubSeq(list, i + 1, Len(list))
    /\ news' = w
    /\ UNCHANGED <<topic, order, finding>>

\* A finding gets worse: a larger delta of a side, a lower score, a conflict.
Worsen(f) ==
    /\ topic = "risk"
    /\ \A i \in 1..2 : Magnitude(finding.deltas[i]) <= Magnitude(f.deltas[i])
    /\ Negative(finding.deltas) => Negative(f.deltas)
    /\ f.score <= finding.score
    /\ finding.conflict => f.conflict
    /\ finding' = f
    /\ UNCHANGED <<topic, list, news, order>>

InputNext ==
    \/ \E w \in Versions : Publish(w)
    \/ \E f \in Grades : Worsen(f)

-----------------------------------------------------------------------------
(* Properties *)

\* The past cannot be rewritten: a version or tier that is published to begin
\* after a business day never changes which version and tier that day gets,
\* nor whether the policies of that day are in conflict; the newer tier is
\* reported next to the one that applied.
PastIsStable ==
    [][topic = "time" =>
        \A day \in Days : news'.from > day =>
            /\ Covering(list, day) # {} =>
                  /\ Covering(list', day) # {}
                  /\ list'[ChosenVersion(list', day)] = list[ChosenVersion(list, day)]
                  /\ PolicyConflict(list', day) <=> PolicyConflict(list, day)
            /\ InForce(list, day) # {} =>
                  /\ list'[TierAt(list', day)] = list[TierAt(list, day)]
                  /\ TierConflict(list', day)]_inputs

\* Posting what the comparison finds makes the verification pass exactly when
\* what is posted for components the order does not earn adds up to nothing,
\* as long as no two rules that apply pay the same component.
SettlingSettles == topic = "order" =>
    LET lines  == Calculate(order.policy, order.facts)
        earned == {i \in DOMAIN lines : lines[i].applied}
        other  == DOMAIN order.ledger \ {lines[i].component : i \in earned}
    IN  (\A i, j \in earned : i # j => lines[i].component # lines[j].component) =>
           (Agrees(lines, Settled(lines, order.ledger))
               <=> SumFunctionOnSet(order.ledger, other) = 0)

Rank == [L0 |-> 0, L1 |-> 1, L2 |-> 2, L3 |-> 3]
RankOf(f) == Rank[RiskLevel(f.deltas, f.score, f.conflict)]

\* A worse finding is never of lower risk, and components cannot offset each
\* other: a claw-back on one does not make a credit on another smaller.
RiskNeverFalls == [][topic = "risk" => RankOf(finding) <= RankOf(finding')]_inputs
=============================================================================
