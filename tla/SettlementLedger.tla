-------------------------- MODULE SettlementLedger --------------------------
(***************************************************************************)
(* What the money journal promises to the rest of RevGuard, without calls, *)
(* generations, holds or recovery: an operation is first written down as   *)
(* an intent, is then open for a while, and either posts or is abandoned;  *)
(* it posts at most once, with the intent that was written down, and a     *)
(* settlement channel never has two open operations.                       *)
(***************************************************************************)
CONSTANTS Ops, Intents,
          ChannelOf   \* the settlement channel of each intent

VARIABLES
    written,   \* the intents ever written down: pairs <<operation, intent>>
    open,      \* operations whose effect may or may not happen
    posted     \* operations whose effect is in the ledger

vars == <<written, open, posted>>

Init ==
    /\ written = {}
    /\ open = {}
    /\ posted = {}

IntentOf(k) == {i \in Intents : <<k, i>> \in written}

\* An operation opens when its channel is idle; opening it again after it
\* was abandoned needs the very intent it was written down with.
Open(k, i) ==
    /\ k \notin open \cup posted
    /\ IntentOf(k) \subseteq {i}
    /\ \A j \in open : \A q \in IntentOf(j) : ChannelOf[q] # ChannelOf[i]
    /\ written' = written \cup {<<k, i>>}
    /\ open' = open \cup {k}
    /\ UNCHANGED posted

Post(k) ==
    /\ k \in open
    /\ open' = open \ {k}
    /\ posted' = posted \cup {k}
    /\ UNCHANGED written

Abandon(S) ==
    /\ S # {}
    /\ open' = open \ S
    /\ UNCHANGED <<written, posted>>

Next ==
    \/ \E k \in Ops, i \in Intents : Open(k, i)
    \/ \E k \in Ops : Post(k)
    \/ \E S \in SUBSET open : Abandon(S)

Spec == Init /\ [][Next]_vars
=============================================================================
