--------------------------- MODULE ReadersWriter ---------------------------
(***************************************************************************)
(* What the runtime barrier promises: actors work side by side, or one of  *)
(* them works alone.  Nothing is said of leases, processes or handovers.   *)
(* Several actors may stop at once, because a process may die with them.   *)
(***************************************************************************)
CONSTANT Actors

VARIABLE doing    \* what each actor does

TypeOK == doing \in [Actors -> {"idle", "sharing", "alone"}]

Init == doing = [a \in Actors |-> "idle"]

Share(a) ==
  /\ doing[a] = "idle"
  /\ \A b \in Actors : doing[b] # "alone"
  /\ doing' = [doing EXCEPT ![a] = "sharing"]

BeAlone(a) ==
  /\ \A b \in Actors : doing[b] = "idle"
  /\ doing' = [doing EXCEPT ![a] = "alone"]

Leave(S) == doing' = [a \in Actors |-> IF a \in S THEN "idle" ELSE doing[a]]

Next ==
  \/ \E a \in Actors : Share(a) \/ BeAlone(a)
  \/ \E S \in SUBSET Actors : Leave(S)

Spec == Init /\ [][Next]_doing
=============================================================================
