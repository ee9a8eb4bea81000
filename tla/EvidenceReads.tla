---------------------------- MODULE EvidenceReads ----------------------------
(***************************************************************************)
(* How a case gets its facts and what a posting may later say of them.     *)
(*                                                                         *)
(* skills.collect_evidence reads all sources of a case in parallel; the    *)
(* tool gateway takes one call at a time, and a call to ERPNext stays in   *)
(* the gateway while the adapter fetches page after page, by offset, from  *)
(* a system that goes on changing.  A read that succeeds leaves a receipt  *)
(* in the gateway's saved state.  A posting is accepted only when the      *)
(* execution reference monitor finds receipts of the case for the order,   *)
(* its contract and its ledger.                                            *)
(*                                                                         *)
(* Left out: the wording and hashes of the evidence, the three sources     *)
(* that are read like the order, and currencies (all are equal here).      *)
(***************************************************************************)
EXTENDS Naturals, Sequences, FiniteSets

CONSTANTS
    Sources,         \* types of evidence that one batch reads
    MaxReturns,      \* return invoices that the order may have in ERPNext
    Partners,        \* business partners
    CasePartner,     \* the partner that intake has resolved
    PageSize,        \* records of one page of ERPNext
    MaxPages,        \* pages that a call may read
    MaxAttempts,     \* calls that a source may take
    MaxChanges,      \* bound of the model: changes in ERPNext
    MaxEvents,       \* bound of the model: reads outside the batch, deaths of the process
    Nobody           \* the gateway is free

ASSUME ReadsAssumption ==
    /\ {"ORDER", "CONTRACT", "REFUND_RECORD", "COMMISSION_LEDGER"} \subseteq Sources
    /\ CasePartner \in Partners
    /\ {PageSize, MaxPages, MaxAttempts} \subseteq Nat \ {0}
    /\ {MaxReturns, MaxChanges, MaxEvents} \subseteq Nat
    /\ Nobody \notin Sources

VARIABLES
    invoices,    \* ERPNext: the order's returns, "modified asc,name asc"
    partner,     \* ERPNext: the partner of the order
    caller,      \* the source that is in the gateway
    got,         \* records that the call in the gateway has fetched
    pages,       \* pages that it has fetched
    touched,     \* returns that changed since it began
    receipts,    \* the case's receipts that the monitor may name, in the saved state
    stage,       \* the run of the case
    result,      \* per source: how its read stands
    attempts,    \* per source: calls begun by its loop, while it lasts
    facts,       \* per slot: the receipt of the fact in the evidence; 0 = none
    counted,     \* the refund read of the evidence: its records, what changed
                 \* meanwhile, and the list that ERPNext had at its end
    references,  \* the posting: per slot the receipt it names
    changes, events   \* counters of the bounds

erp == <<invoices, partner>>
call == <<caller, got, pages, touched>>
run == <<stage, result, attempts, facts, counted>>
counters == <<changes, events>>
vars == <<erp, call, receipts, run, references, counters>>

Returns == 1..MaxReturns
Slots == {"ORDER", "CONTRACT", "COMMISSION_LEDGER"}   \* what the monitor asks for
Orders == {"this", "other"}          \* the case's order and another one
NoKey == "no key"                    \* a receipt without a partner
Receipts == [source : Slots, order : Orders, partner : Partners \cup {NoKey}]
Nothing == [records |-> <<>>, touched |-> {}, listed |-> <<>>]

TypeOK ==
    /\ invoices \in Seq(Returns) /\ partner \in Partners
    /\ caller \in Sources \cup {Nobody}
    /\ got \in Seq(Returns) /\ pages \in 0..MaxPages /\ touched \subseteq Returns
    /\ receipts \in Seq(Receipts)
    /\ stage \in {"idle", "batch", "collected", "posted", "refused", "raised"}
    /\ result \in [Sources -> {"waiting", "read", "gap", "raised"}]
    /\ attempts \in [Sources -> 0..MaxAttempts]
    /\ facts \in [Slots -> 0..Len(receipts)]
    /\ counted.touched \subseteq Returns
    /\ {counted.records, counted.listed} \subseteq Seq(Returns)
    /\ references \in [Slots -> 0..Len(receipts)]

Init ==
    /\ \E n \in 0..MaxReturns : invoices = [i \in 1..n |-> i]
    /\ partner \in Partners
    /\ caller = Nobody /\ got = <<>> /\ pages = 0 /\ touched = {}
    /\ receipts = <<>>
    /\ stage = "idle"
    /\ result = [s \in Sources |-> "waiting"]
    /\ attempts = [s \in Sources |-> 0]
    /\ facts = [s \in Slots |-> 0]
    /\ counted = Nothing
    /\ references = [s \in Slots |-> 0]
    /\ changes = 0 /\ events = 0

-----------------------------------------------------------------------------
(* ERPNext goes on: a changed or a new record is the latest of its list.    *)
(* Between calls it may become any list: the returns are numbered in the    *)
(* order that they have when the call begins.                               *)

\* The record at k is the latest now, and those behind it move up.
ToEnd(list, k) ==
    [i \in DOMAIN list |->
        IF i < k THEN list[i] ELSE IF i < Len(list) THEN list[i + 1] ELSE list[k]]

Touch(n) ==
    /\ caller = "REFUND_RECORD" /\ changes < MaxChanges
    /\ changes' = changes + 1
    /\ \/ \E k \in DOMAIN invoices : invoices[k] = n /\ invoices' = ToEnd(invoices, k)
       \/ (\A k \in DOMAIN invoices : invoices[k] # n) /\ invoices' = Append(invoices, n)
    /\ touched' = touched \cup {n}
    /\ UNCHANGED <<partner, caller, got, pages, receipts, run, references, events>>

Reassign(p) ==
    /\ changes < MaxChanges /\ p # partner
    /\ changes' = changes + 1
    /\ partner' = p
    /\ UNCHANGED <<invoices, call, receipts, run, references, events>>

-----------------------------------------------------------------------------
(* One batch of reads.                                                      *)

Begin ==
    /\ stage = "idle"
    /\ stage' = "batch"
    /\ UNCHANGED <<erp, call, receipts, result, attempts, facts, counted, references, counters>>

\* A call enters the gateway; the lock is held until it leaves.
Enter(s) ==
    /\ stage = "batch" /\ result[s] = "waiting" /\ caller = Nobody
    /\ caller' = s /\ got' = <<>> /\ pages' = 0 /\ touched' = {}
    /\ attempts' = [attempts EXCEPT ![s] = @ + 1]
    /\ UNCHANGED <<erp, receipts, stage, result, facts, counted, references, counters>>

Leave(s, outcome) ==
    /\ result' = [result EXCEPT ![s] = outcome]
    /\ attempts' = IF outcome = "waiting" THEN attempts ELSE [attempts EXCEPT ![s] = 0]
    /\ caller' = Nobody /\ got' = <<>> /\ pages' = 0 /\ touched' = {}

\* What a receipt is bound to: fields of the data, else the parameters.
Keys(s) ==
    [source |-> s, order |-> "this",
     partner |-> IF s = "ORDER" THEN partner ELSE CasePartner]

\* The receipt is saved by the transaction that the read belongs to.
Answer(s) ==
    /\ Leave(s, "read")
    /\ receipts' = IF s \in Slots THEN Append(receipts, Keys(s)) ELSE receipts
    /\ facts' = [f \in Slots |-> IF f = s THEN Len(receipts') ELSE facts[f]]

\* An error rolls the transaction back; what may pass is tried again.
Fail(s, retryable) ==
    /\ Leave(s, IF retryable /\ attempts[s] < MaxAttempts THEN "waiting" ELSE "gap")
    /\ UNCHANGED <<receipts, facts>>

IsLast(page) == Len(page) < PageSize

\* Mutant: the newest records come first.
NewestFirst(k) ==
    LET n == Len(invoices)
        end == (k + 1) * PageSize
        reversed == [i \in 1..n |-> invoices[n + 1 - i]]
    IN SubSeq(reversed, k * PageSize + 1, IF end < n THEN end ELSE n)

\* "order_by": "modified asc,name asc".
Page(k) ==
    LET end == (k + 1) * PageSize IN
    SubSeq(invoices, k * PageSize + 1, IF end < Len(invoices) THEN end ELSE Len(invoices))

\* The next page of a list, by its offset in the list as it is now.
ReadPage ==
    /\ caller = "REFUND_RECORD"
    /\ LET page == Page(pages) IN
       \/ /\ IsLast(page)
          /\ Answer(caller)
          /\ counted' = [records |-> got \o page, touched |-> touched, listed |-> invoices]
       \/ /\ ~IsLast(page) /\ pages + 1 < MaxPages
          /\ got' = got \o page /\ pages' = pages + 1
          /\ UNCHANGED <<caller, touched, receipts, result, attempts, facts, counted>>
       \/ /\ ~IsLast(page) /\ pages + 1 = MaxPages
          /\ Fail(caller, FALSE)
          /\ UNCHANGED counted
    /\ UNCHANGED <<erp, stage, references, counters>>

\* A single record, or the local ledger.
ReadRecord(s) ==
    /\ caller = s /\ s # "REFUND_RECORD"
    /\ Answer(s)
    /\ UNCHANGED <<erp, stage, counted, references, counters>>

\* 429, 5xx, a timeout or a broken connection may pass; other errors stay.
ReadFails(s) ==
    /\ caller = s
    /\ \E retryable \in BOOLEAN : Fail(s, retryable)
    /\ UNCHANGED <<erp, stage, counted, references, counters>>

\* A body that ends early (http.client.IncompleteRead) is an error of no kind.
ReadIsTorn(s) ==
    /\ caller = s /\ s # "COMMISSION_LEDGER"
    /\ Leave(s, "raised")
    /\ UNCHANGED <<erp, receipts, stage, facts, counted, references, counters>>

\* All reads have ended: one exception is the batch's; else gaps are listed.
\* The contract leads to its policy: an error of that last read is not caught.
Collect ==
    /\ stage = "batch" /\ caller = Nobody
    /\ \A s \in Sources : result[s] # "waiting"
    /\ stage' \in IF \E s \in Sources : result[s] = "raised" THEN {"raised"}
                 ELSE {"collected"} \cup (IF result["CONTRACT"] = "read" THEN {"raised"} ELSE {})
    /\ UNCHANGED <<erp, call, receipts, result, attempts, facts, counted, references, counters>>

\* Another authorised read in the name of the case: a Worker's or a verifier's.
ReadApart(r) ==
    /\ events < MaxEvents /\ caller = Nobody
    /\ r.source = "ORDER" /\ r.order = "this" => r.partner = partner
    /\ r.partner = NoKey => r.source = "CONTRACT"
    /\ events' = events + 1
    /\ receipts' = Append(receipts, r)
    /\ UNCHANGED <<erp, call, run, references, changes>>

\* The process dies: the saved receipts are all that is left.
Restart ==
    /\ events < MaxEvents /\ stage \in {"batch", "collected", "raised"}
    /\ events' = events + 1
    /\ stage' = "idle"
    /\ result' = [s \in Sources |-> "waiting"]
    /\ attempts' = [s \in Sources |-> 0]
    /\ facts' = [s \in Slots |-> 0]
    /\ counted' = Nothing
    /\ caller' = Nobody /\ got' = <<>> /\ pages' = 0 /\ touched' = {}
    /\ UNCHANGED <<erp, receipts, references, changes>>

-----------------------------------------------------------------------------
(* The execution reference monitor, in the transaction of the posting.      *)

Latest(some) == CHOOSE i \in some : \A j \in some : j <= i

Reads(slot) == {i \in DOMAIN receipts : receipts[i].source = slot}
OfThisOrder(slot) == {i \in Reads(slot) : receipts[i].order = "this"}

\* Mutant: the order as first read.
FirstPartner ==
    IF OfThisOrder("ORDER") = {} THEN NoKey
    ELSE receipts[CHOOSE i \in OfThisOrder("ORDER") :
                     \A j \in OfThisOrder("ORDER") : i <= j].partner

\* The partner that a contract must have: that of the order as last read.
ExpectedPartner ==
    IF OfThisOrder("ORDER") = {} THEN NoKey
    ELSE receipts[Latest(OfThisOrder("ORDER"))].partner

Bound(slot) ==
    IF slot = "CONTRACT"
    THEN {i \in Reads(slot) :
             ExpectedPartner # NoKey /\ receipts[i].partner = ExpectedPartner}
    ELSE OfThisOrder(slot)

\* Receipts without the key of the slot count only where none is bound.
CaseOnly(slot) ==
    IF slot = "CONTRACT" THEN {i \in Reads(slot) : receipts[i].partner = NoKey} ELSE {}

Candidates(slot) == IF Bound(slot) # {} THEN Bound(slot) ELSE CaseOnly(slot)

\* The amount was computed from complete evidence; the monitor decides.
Submit ==
    /\ stage = "collected" /\ caller = Nobody
    /\ \A s \in Sources : result[s] = "read"
    /\ \/ /\ \A slot \in Slots : Candidates(slot) # {}
          /\ references' = [slot \in Slots |-> Latest(Candidates(slot))]
          /\ stage' = "posted"
       \/ /\ \E slot \in Slots : Candidates(slot) = {}
          /\ stage' = "refused"
          /\ UNCHANGED references
    /\ UNCHANGED <<erp, call, receipts, result, attempts, facts, counted, counters>>

Next ==
    \/ \E n \in Returns : Touch(n)
    \/ \E p \in Partners : Reassign(p)
    \/ Begin \/ ReadPage \/ Collect \/ Restart \/ Submit
    \/ \E s \in Sources : Enter(s) \/ ReadRecord(s) \/ ReadFails(s) \/ ReadIsTorn(s)
    \/ \E r \in Receipts : ReadApart(r)

Spec == Init /\ [][Next]_vars

-----------------------------------------------------------------------------
Times(n, s) == Cardinality({i \in DOMAIN s : s[i] = n})

\* A refund that nobody touched while the pages were fetched is counted at
\* most once, and when nothing was touched the answer is the whole list:
\* offsets into a list that is ordered by modification time.
UntouchedRefundsCountOnce ==
    result["REFUND_RECORD"] = "read" =>
        /\ \A n \in Returns \ counted.touched : Times(n, counted.records) <= 1
        /\ counted.touched = {} => counted.records = counted.listed

\* The facts that a posting names are of one business relation: the order as
\* last read, a contract of that order's partner or one that no partner is
\* recorded for, and the ledger of that order.
ReferencesAgree ==
    stage = "posted" =>
        LET order == receipts[references["ORDER"]]
            contract == receipts[references["CONTRACT"]]
            ledger == receipts[references["COMMISSION_LEDGER"]]
        IN  /\ order.order = "this" /\ ledger.order = "this"
            /\ contract.partner \in {order.partner, NoKey}

\* "Selecting ERPNext is fail-closed: an HTTP, authentication or schema error
\* is returned as an Evidence Gap by the evidence skill" (adapters.py:4-6).
FailuresAreGaps == stage # "raised"

\* A posting names the reads that its amount was computed from: "a third party
\* can check that the facts the entry rests on were not replaced"
\* (docs/execution-reference-monitor.md:34-35).
ReferencesAreTheEvidence ==
    stage = "posted" => \A slot \in Slots : references[slot] = facts[slot]

-----------------------------------------------------------------------------
(* The inductive invariant of the proofs *)

\* A source that may be read again has an attempt left.
AttemptsAreLeft ==
    \A s \in Sources : result[s] = "waiting" /\ caller # s => attempts[s] < MaxAttempts

OneEntryEach(list, some) ==
    \A i, j \in DOMAIN list : list[i] = list[j] /\ list[i] \in some => i = j

\* While the pages are fetched: what has been got and not been touched since is
\* behind the offset of the next page, since records only move up to their end;
\* and if nothing was touched, it is the list so far.
PagesAreBehind ==
    caller = "REFUND_RECORD" =>
        /\ Len(got) = pages * PageSize
        /\ OneEntryEach(got, Returns \ touched)
        /\ \A i \in DOMAIN got, j \in DOMAIN invoices :
              got[i] = invoices[j] /\ got[i] \notin touched => j <= Len(got)
        /\ touched = {} =>
              /\ Len(got) <= Len(invoices)
              /\ \A i \in DOMAIN got : got[i] = invoices[i]

CountedOnce ==
    result["REFUND_RECORD"] = "read" =>
        /\ OneEntryEach(counted.records, Returns \ counted.touched)
        /\ counted.touched = {} => counted.records = counted.listed

\* Receipts are only added, so that what a posting names is what it named.
PostedIsBound ==
    stage = "posted" =>
        /\ \A slot \in Slots : references[slot] \in DOMAIN receipts
        /\ ReferencesAgree

ReadsInductive ==
    /\ TypeOK /\ AttemptsAreLeft
    /\ OneEntryEach(invoices, Returns) /\ PagesAreBehind /\ CountedOnce
    /\ PostedIsBound
=============================================================================
