---------------------------- MODULE MCSettlement ----------------------------
(* Small orders for TLC: two components the order may be paid for and one  *)
(* that never applies.                                                     *)
EXTENDS Settlement, TLC

CONSTANTS c1, c2, c3, base, bonus, extra

PaidAs(b, n) == [k \in Components |-> CASE k = base -> b [] k = bonus -> n [] OTHER -> 0]

\* The policy gives 3 and 2, and 1 for the component that does not apply.
PolicyAmounts == [k \in Components |-> IF k = extra THEN 1 ELSE PaidAs(3, 2)[k]]

\* One component missing, the other right.
BaseMissing == PaidAs(0, 2)

\* Nothing has been paid.
NoRows == PaidAs(0, 0)

\* The applied component is missing, the other was paid although it is not due.
WrongComponent == PaidAs(0, 1)

Interchangeable == Permutations(Cases)
=============================================================================
