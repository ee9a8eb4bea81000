------------------------------- MODULE MCReads -------------------------------
(***************************************************************************)
(* Two readers of data that moves under them.  A behaviour is of one       *)
(* topic, and the other rests:                                             *)
(*   evidence   a case reads its sources from an ERPNext that goes on, with *)
(*              pages of one record, and posts with references to the reads; *)
(*   list       a client pages through two cases, one a page, while one *)
(*              of them moves, its commit replays, and a probe measures    *)
(*              the replica.                                               *)
(***************************************************************************)
EXTENDS EvidenceReads, TLC

CONSTANTS Cases, Readers, Probers, MaxLag, MaxBytes, Interval, CallTime, Limit,
          MaxTime, MaxCommits

ASSUME ReplicaAssumption ==
    /\ IsFiniteSet(Cases) /\ Cases = 1..Cardinality(Cases)
    /\ {MaxLag, MaxBytes, CallTime, MaxCommits} \subseteq Nat
    /\ Limit \in Nat \ {0}
    /\ Interval \in Nat \ {0} /\ MaxTime \in Nat /\ Interval <= MaxTime

VARIABLES now, log, replayed, cache, step, start, lsn, healthy, cursor, listed,
          since, topic

listVars == <<now, log, replayed, cache, step, start, lsn, healthy, cursor, listed, since>>

R == INSTANCE ReadReplica

TwoCases == 1..2

InitOfBoth ==
    /\ Init /\ R!Init
    /\ topic \in {"evidence", "list"}
    /\ topic = "list" => invoices = <<>> /\ partner = CasePartner

NextOfOne ==
    \/ topic = "evidence" /\ Next /\ UNCHANGED <<topic, listVars>>
    \/ topic = "list" /\ R!Next /\ UNCHANGED <<topic, vars>>

SpecOfBoth == InitOfBoth /\ [][NextOfOne]_<<topic, vars, listVars>>

-----------------------------------------------------------------------------
\* However measurements overlap and publish, a list that is served by the
\* replica is no older than the three bounds together (ReadReplica).
ReplicaReadsAreRecent == R!ReplicaReadsAreRecent

\* A walk through the pages shows a case that has not changed exactly once,
\* wherever each page came from (ReadReplica).
SettledCasesAreListedOnce == R!SettledCasesAreListedOnce
=============================================================================
