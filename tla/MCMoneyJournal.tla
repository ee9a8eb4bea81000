--------------------------- MODULE MCMoneyJournal ---------------------------
(***************************************************************************)
(* Small instances of MoneyJournal for TLC.                                *)
(***************************************************************************)
EXTENDS MoneyJournal, TLC

CONSTANTS c1, c2, ch, k1, k2, d1, d2

\* Two cases settle on one order; the operation id of the first case is also
\* asked for with other parameters.
Settle   == [key |-> k1, case |-> c1, digest |-> d1, channel |-> ch]
Altered  == [key |-> k1, case |-> c1, digest |-> d2, channel |-> ch]
Neighbor == [key |-> k2, case |-> c2, digest |-> d1, channel |-> ch]

ThreeRequests == {Settle, Altered, Neighbor}
TwoRequests   == {Settle, Neighbor}
OneRequest    == {Settle}

\* One of the calls is Settle: every other pair of calls is such a pair with
\* the keys, the cases or the digests renamed.
InitOfPairs == Init /\ \E e \in Calls : req[e] = Settle

SpecOfPairs == InitOfPairs /\ [][Next]_vars

Symmetry == Permutations(Calls) \cup Permutations(Processes)
=============================================================================
