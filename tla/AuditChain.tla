------------------------------ MODULE AuditChain ------------------------------
(***************************************************************************)
(* The hash chain of one case's audit rows in PostgreSQL                   *)
(* (migrations/polardb/001_core.sql) and the transactions that append to   *)
(* it.  The row's seq is an identity column: it is drawn when the row is   *)
(* formed, before the BEFORE INSERT trigger takes the case's advisory      *)
(* lock, which is held to the end of the transaction.                      *)
(*                                                                         *)
(* A digest is unique, so the hash of a row is modelled by its seq and the *)
(* chain by a function from each row to the row it names as previous.      *)
(*                                                                         *)
(* Transactions of the money journal, those that claim, complete, replace  *)
(* and cancel agent tasks among them, take one advisory lock before they   *)
(* write anything; store.audit appends in a transaction that does not.     *)
(***************************************************************************)
EXTENDS Naturals

CONSTANTS
    Writers,   \* transactions at the same time, one after the other in each
    Guarded,   \* those of the money journal, which lock it before anything else
    MaxSeq,    \* bound on the rows
    Nobody     \* holds a lock that is free

Genesis == 0

VARIABLES
    next,         \* the identity column's sequence
    chain,        \* committed rows: seq to the seq of the previous row
    journalLock,  \* who holds the advisory lock of the money journal
    chainLock,    \* who holds the advisory lock of the case
    step,         \* of each writer
    seq,          \* the seq it drew last
    own           \* the rows of its transaction, like chain

vars == <<next, chain, journalLock, chainLock, step, seq, own>>

NoRows == [n \in {} |-> Genesis]

Init ==
    /\ next = 1
    /\ chain = NoRows
    /\ journalLock = Nobody
    /\ chainLock = Nobody
    /\ step = [w \in Writers |-> "idle"]
    /\ seq = [w \in Writers |-> 0]
    /\ own = [w \in Writers |-> NoRows]

Both(f, g) == [n \in DOMAIN f \cup DOMAIN g |-> IF n \in DOMAIN f THEN f[n] ELSE g[n]]

\* ORDER BY seq DESC LIMIT 1
IsLast(n, S) ==
    /\ n \in S \cup {Genesis}
    /\ \A m \in S : m <= n

\* MoneyJournal.transaction waits for its lock; any other transaction is open
\* at once.
Begin(w) ==
    /\ step[w] = "idle"
    /\ IF w \in Guarded THEN journalLock = Nobody /\ journalLock' = w
                        ELSE UNCHANGED journalLock
    /\ step' = [step EXCEPT ![w] = "open"]
    /\ UNCHANGED <<next, chain, chainLock, seq, own>>

\* nextval, as the INSERT forms its row.
Draw(w) ==
    /\ step[w] = "open"
    /\ next <= MaxSeq
    /\ next' = next + 1
    /\ seq' = [seq EXCEPT ![w] = next]
    /\ step' = [step EXCEPT ![w] = "drawn"]
    /\ UNCHANGED <<chain, journalLock, chainLock, own>>

\* The trigger: the lock, then the last row it can see.
Link(w) ==
    /\ step[w] = "drawn"
    /\ chainLock \in {Nobody, w}
    /\ chainLock' = w
    /\ \E n \in DOMAIN chain \cup DOMAIN own[w] \cup {Genesis} :
          /\ IsLast(n, DOMAIN chain \cup DOMAIN own[w])
          /\ own' = [own EXCEPT ![w] = Both(@, [m \in {seq[w]} |-> n])]
    /\ step' = [step EXCEPT ![w] = "open"]
    /\ UNCHANGED <<next, chain, journalLock, seq>>

\* Commit or rollback: every lock is let go of.
End(w) ==
    /\ step' = [step EXCEPT ![w] = "idle"]
    /\ own' = [own EXCEPT ![w] = NoRows]
    /\ journalLock' = IF journalLock = w THEN Nobody ELSE journalLock
    /\ chainLock' = IF chainLock = w THEN Nobody ELSE chainLock
    /\ UNCHANGED <<next, seq>>

Commit(w) ==
    /\ step[w] = "open"
    /\ chain' = Both(chain, own[w])
    /\ End(w)

Rollback(w) ==
    /\ step[w] # "idle"
    /\ UNCHANGED chain
    /\ End(w)

Next == \E w \in Writers : Begin(w) \/ Draw(w) \/ Link(w) \/ Commit(w) \/ Rollback(w)

Spec == Init /\ [][Next]_vars

-----------------------------------------------------------------------------
(* Properties *)

\* The export sorts the rows by seq and walks them: the rows before a row.
Before(n) == {m \in DOMAIN chain : m < n}

\* verify_audit_chain compares each row with the one before it by seq.
LinkHolds(n) == IsLast(chain[n], Before(n))

\* verify_audit_chain finds no broken link: each row of the case names the row
\* before it in the order of seq.  The trigger's comment claims it: "Serialize
\* one hash chain per case" (001_core.sql:109).
ChainVerifies == \A n \in DOMAIN chain : LinkHolds(n)
=============================================================================
